----------------------------- MODULE RocksCache -----------------------------
(***************************************************************************)
(* The RocksDB-backed image cache of src/src/cache/rocks.rs, driven by the *)
(* request tasks that call it (md_service, src/src/http/mod.rs) and by the *)
(* periodic shrink.                                                        *)
(*                                                                         *)
(* RocksDB itself is the environment.  Each column family (CF) is a        *)
(* memtable plus a sequence of live SST files, oldest first; a read sees   *)
(* the newest slot for a key, a delete writes a tombstone, a flush turns   *)
(* the memtable into a new SST, and a compaction merges the SSTs of a CF,  *)
(* dropping shadowed values and tombstones.  live_files(), which report()  *)
(* sums, lists the SSTs of every CF and never the memtables.               *)
(*                                                                         *)
(* Data is abstracted: an image's bytes are the ImageKey it was fetched    *)
(* for, of length ImageLen(key); md5 is an injective Digest of a byte      *)
(* string, and its numeric order is the order RocksDB iterates keys in.    *)
(***************************************************************************)
EXTENDS Integers, Sequences, FiniteSets, SequencesExt

CONSTANTS
    Chapters,        \* chapter hashes, as byte strings
    Images,          \* image names, as byte strings
    Digest(_),       \* md5 of a byte string (idealised: injective)
    KeySpace,        \* the 16-byte digests, as naturals in iteration order
    ImageLen(_),     \* length in bytes of the upstream image of an ImageKey
    MaxImageLen,     \* bound on ImageLen
    ValueHeader,     \* bincode bytes besides the payload (put_time, checksum, length)
    KeyOverhead,     \* on-disk bytes a record or a tombstone costs besides its value
    Word,            \* 2^64, the modulus of u64 arithmetic
    OverflowChecks,  \* TRUE: debug build (overflow panics); FALSE: release (wraps)
    IOFaults,        \* whether RocksDB calls may return an error
    Procs,           \* request-handling tasks sharing the one cache handle
    MinSizes,        \* the `min` arguments shrink is called with
    MaxTime,         \* bound on the millisecond clock
    MaxFiles,        \* bound on SSTs per CF for background flushes
    MaxShrinks       \* bound on the number of shrink calls

ImageKeys == [chapter : Chapters, image : Images, data_saver : BOOLEAN]

ASSUME ChaptersAssumption == Chapters # {} /\ Images # {}
ASSUME KeySpaceAssumption ==
    /\ KeySpace \subseteq Nat
    /\ IsFiniteSet(KeySpace)
    /\ \A k \in ImageKeys :
          Digest(<<IF k.data_saver THEN 1 ELSE 0>> \o k.chapter \o k.image) \in KeySpace
ASSUME SizeAssumption ==
    /\ MaxImageLen \in Nat
    /\ \A k \in ImageKeys : ImageLen(k) \in 1..MaxImageLen
    /\ ValueHeader \in Nat /\ KeyOverhead \in Nat
    /\ Word \in Nat \ {0}
ASSUME BoundsAssumption ==
    /\ MaxTime \in Nat /\ MaxFiles \in Nat /\ MaxShrinks \in Nat
    /\ MinSizes \subseteq Nat /\ MinSizes # {}
    /\ OverflowChecks \in BOOLEAN /\ IOFaults \in BOOLEAN

-----------------------------------------------------------------------------
(* Keys and entries.                                                       *)

\* Mutant: the data-saver flag is not fed to the digest.
GetCacheKeyNoSaver(chap_hash, image, saver) ==
    Digest(<<0>> \o chap_hash \o image)

\* get_cache_key: md5 over the saver byte, the chapter hash and the image
\* name, consumed one after the other with no separator.
GetCacheKey(chap_hash, image, saver) ==
    Digest(<<IF saver THEN 1 ELSE 0>> \o chap_hash \o image)

CacheKeyOf(k) == GetCacheKey(k.chapter, k.image, k.data_saver)

\* The stored ImageEntry { put_time, checksum, bytes }, tagged as a value
\* slot.  The checksum is written and never read, so it is left out.
Entry == [kind : {"put"}, put_time : 0..MaxTime, bytes : ImageKeys]

\* Mutant: the entry is not stamped with the time it was put.
NewEntryUnstamped(data, t) == [kind |-> "put", put_time |-> 0, bytes |-> data]

\* ImageEntry::from(data): stamped with the current time.
NewEntry(data, t) == [kind |-> "put", put_time |-> t, bytes |-> data]

\* Length of the bincode-serialized value, which pop reports as removed.
ValueLen(e) == ValueHeader + ImageLen(e.bytes)

NoRec == [kind |-> "none"]
Tomb  == [kind |-> "del"]
IsEntry(s) == s \in Entry
Slot  == Entry \cup {NoRec, Tomb}
Files == [KeySpace -> Slot]
EmptyFile == [d \in KeySpace |-> NoRec]

DefaultCF == "default"
ImageCF   == "images"
CFs == {DefaultCF, ImageCF}

MaxLen  == MaxFiles + MaxShrinks
MaxSlot == KeyOverhead + ValueHeader + MaxImageLen

VARIABLES
    mem,      \* mem[cf]: the memtable of a CF
    ssts,     \* ssts[cf]: its live SST files, oldest first
    now,      \* SystemTime::now() in milliseconds
    pc,       \* pc[p]: where request task p is
    req,      \* req[p]: the ImageKey task p serves
    served,   \* served[p]: the entry p responded with, or NoRec
    spc,      \* where the shrink task is
    sz,       \* shrink's local `sz` (u64)
    smin,     \* shrink's argument `min`
    popped,   \* the key and value length pop's iterator returned
    shrinks,  \* number of shrink calls so far
    evicted   \* ghost: keys the current shrink has deleted and no save
              \* has written since

vars == <<mem, ssts, now, pc, req, served, spc, sz, smin, popped, shrinks,
          evicted>>

-----------------------------------------------------------------------------
(* What RocksDB shows.                                                     *)

\* The newest SST of s that holds a slot (a value or a tombstone) for d, or
\* 0: the level a RocksDB read of d stops at.
NewestFile(s, d) == SelectLastInSeq(s, LAMBDA f : f[d] # NoRec)

\* The slot get_cf/the iterator see for digest d in CF cf: the memtable's,
\* else the one in the newest SST that holds d.
View(cf, d) ==
    IF mem[cf][d] # NoRec THEN mem[cf][d]
    ELSE LET i == NewestFile(ssts[cf], d)
         IN  IF i = 0 THEN NoRec ELSE ssts[cf][i][d]

Live(cf) == {d \in KeySpace : IsEntry(View(cf, d))}

SlotSize(s) == IF IsEntry(s) THEN KeyOverhead + ValueLen(s)
               ELSE IF s = Tomb THEN KeyOverhead ELSE 0

\* Every byte of every live SST, addressed by its file and its offset.
DiskBytes ==
    {x \in (CFs \X (1..MaxLen)) \X (KeySpace \X (1..MaxSlot)) :
        LET cf == x[1][1]  i == x[1][2]  d == x[2][1]  b == x[2][2]
        IN  i <= Len(ssts[cf]) /\ b <= SlotSize(ssts[cf][i][d])}

\* size_on_disk: the u64 fold of live_files() sizes.
SizeOnDisk == Cardinality(DiskBytes) % Word

\* report(): size_on_disk, or 0 when live_files() fails.
ReportResults == {SizeOnDisk} \cup (IF IOFaults THEN {0} ELSE {})

-----------------------------------------------------------------------------
Init ==
    /\ mem = [cf \in CFs |-> EmptyFile]
    /\ ssts = [cf \in CFs |-> << >>]
    /\ now = 0
    /\ pc = [p \in Procs |-> "idle"]
    /\ req = [p \in Procs |-> CHOOSE k \in ImageKeys : TRUE]
    /\ served = [p \in Procs |-> NoRec]
    /\ spc = "idle"
    /\ sz = 0
    /\ smin = CHOOSE m \in MinSizes : TRUE
    /\ popped = [key |-> CHOOSE d \in KeySpace : TRUE, len |-> 0]
    /\ shrinks = 0
    /\ evicted = {}

shrinkVars == <<spc, sz, smin, popped, shrinks, evicted>>
reqVars == <<pc, req, served>>

-----------------------------------------------------------------------------
(* Request tasks: md_service, then the cache HIT/MISS handler.             *)

\* md_service: a request with a valid archive type and token (or with token
\* checks off) for key k, where data_saver is archive_type = "data-saver";
\* the request counter is metrics and is left out.
Request(p, k) ==
    /\ pc[p] = "idle"
    /\ pc' = [pc EXCEPT ![p] = "load"]
    /\ req' = [req EXCEPT ![p] = k]
    /\ served' = [served EXCEPT ![p] = NoRec]
    /\ UNCHANGED <<mem, ssts, now>> /\ UNCHANGED shrinkVars

\* md_service's early returns: an archive type other than data or
\* data-saver (404), or a missing or invalid token (401), answered without
\* touching the cache.
Reject(p) ==
    /\ pc[p] = "idle"
    /\ served' = [served EXCEPT ![p] = NoRec]
    /\ UNCHANGED <<mem, ssts, now, pc, req>> /\ UNCHANGED shrinkVars

\* Mutant: a RocksDB read error is propagated as a failed request instead
\* of being turned into a MISS.
LoadErrorFails(p) ==
    LET v == View(ImageCF, CacheKeyOf(req[p])) IN
    /\ pc[p] = "load"
    /\ \/ /\ IsEntry(v)
          /\ served' = [served EXCEPT ![p] = v]
          /\ pc' = [pc EXCEPT ![p] = "idle"]
       \/ /\ ~IsEntry(v)
          /\ pc' = [pc EXCEPT ![p] = "fetch"]
          /\ UNCHANGED served
       \/ /\ IOFaults
          /\ pc' = [pc EXCEPT ![p] = "idle"]
          /\ served' = [served EXCEPT ![p] = NoRec]
    /\ UNCHANGED <<mem, ssts, now, req>> /\ UNCHANGED shrinkVars

\* load: get_cf on the images CF; a hit is decoded and served, a miss or a
\* RocksDB error is a cache MISS.
Load(p) ==
    LET v == View(ImageCF, CacheKeyOf(req[p])) IN
    /\ pc[p] = "load"
    /\ \/ /\ IsEntry(v)
          /\ served' = [served EXCEPT ![p] = v]
          /\ pc' = [pc EXCEPT ![p] = "idle"]
       \/ /\ ~IsEntry(v)
          /\ pc' = [pc EXCEPT ![p] = "fetch"]
          /\ UNCHANGED served
       \/ /\ IOFaults
          /\ pc' = [pc EXCEPT ![p] = "fetch"]
          /\ UNCHANGED served
    /\ UNCHANGED <<mem, ssts, now, req>> /\ UNCHANGED shrinkVars

\* On a MISS the image is fetched upstream; a failed fetch ends the request.
FetchUpstream(p) ==
    /\ pc[p] = "fetch"
    /\ pc' \in {[pc EXCEPT ![p] = "save"], [pc EXCEPT ![p] = "idle"]}
    /\ UNCHANGED <<mem, ssts, now, req, served>> /\ UNCHANGED shrinkVars

\* save: one put_cf of the fresh entry into the images CF (last write wins);
\* an error is logged and the upstream bytes are served all the same.
Save(p) ==
    LET e == NewEntry(req[p], now) IN
    /\ pc[p] = "save"
    /\ \/ /\ mem' = [mem EXCEPT ![ImageCF][CacheKeyOf(req[p])] = e]
          /\ evicted' = evicted \ {CacheKeyOf(req[p])}
       \/ /\ IOFaults
          /\ UNCHANGED <<mem, evicted>>
    /\ served' = [served EXCEPT ![p] = e]
    /\ pc' = [pc EXCEPT ![p] = "idle"]
    /\ UNCHANGED <<ssts, now, req, spc, sz, smin, popped, shrinks>>

-----------------------------------------------------------------------------
(* The shrink task.                                                        *)

\* shrink(min) starts: sz := report(), which is 0 when live_files fails.
ShrinkStart(m) ==
    /\ spc = "idle"
    /\ shrinks < MaxShrinks
    /\ sz' \in ReportResults
    /\ smin' = m
    /\ spc' = "loop"
    /\ shrinks' = shrinks + 1
    /\ evicted' = {}
    /\ UNCHANGED <<mem, ssts, now, popped>> /\ UNCHANGED reqVars

\* while sz > min: pop() takes the first entry of the images CF in key
\* order; an empty CF (or a failed iterator, which yields nothing) ends the
\* loop as Ok(None).
PopFirst ==
    /\ spc = "loop"
    /\ sz > smin
    /\ \E d \in Live(ImageCF) :
          /\ \A e \in Live(ImageCF) : d <= e
          /\ popped' = [key |-> d, len |-> ValueLen(View(ImageCF, d))]
    /\ spc' = "delete"
    /\ UNCHANGED <<mem, ssts, now, sz, smin, shrinks, evicted>>
    /\ UNCHANGED reqVars

PopNone ==
    /\ spc = "loop"
    /\ sz > smin
    /\ Live(ImageCF) = {} \/ IOFaults
    /\ spc' = "flush"
    /\ UNCHANGED <<mem, ssts, now, sz, smin, popped, shrinks, evicted>>
    /\ UNCHANGED reqVars

\* The loop condition sz > min fails.
LoopExit ==
    /\ spc = "loop"
    /\ sz <= smin
    /\ spc' = "flush"
    /\ UNCHANGED <<mem, ssts, now, sz, smin, popped, shrinks, evicted>>
    /\ UNCHANGED reqVars

\* pop's self.db.delete(key), which writes a tombstone into the DEFAULT CF,
\* then shrink's sz -= removed_bytes: a panic in a debug build when it
\* underflows, a wrap in a release build.  A failed delete returns Err.
PopDelete ==
    /\ spc = "delete"
    /\ \/ /\ mem' = [mem EXCEPT ![DefaultCF][popped.key] = Tomb]
          /\ evicted' = evicted \cup {popped.key}
          /\ \/ /\ OverflowChecks /\ popped.len > sz
                /\ spc' = "panicked"
                /\ UNCHANGED sz
             \/ /\ ~OverflowChecks \/ popped.len <= sz
                /\ sz' = (sz - popped.len) % Word
                /\ spc' = "loop"
       \/ /\ IOFaults
          /\ spc' = "idle"
          /\ UNCHANGED <<mem, sz, evicted>>
    /\ UNCHANGED <<ssts, now, smin, popped, shrinks>> /\ UNCHANGED reqVars

\* self.db.flush(), which flushes the default CF, then Ok(sz); or Err.
ShrinkFlush ==
    /\ spc = "flush"
    /\ \/ /\ mem[DefaultCF] # EmptyFile
          /\ ssts' = [ssts EXCEPT ![DefaultCF] = Append(@, mem[DefaultCF])]
          /\ mem' = [mem EXCEPT ![DefaultCF] = EmptyFile]
       \/ /\ mem[DefaultCF] = EmptyFile \/ IOFaults
          /\ UNCHANGED <<mem, ssts>>
    /\ spc' = "idle"
    /\ UNCHANGED <<now, sz, smin, popped, shrinks, evicted>>
    /\ UNCHANGED reqVars

-----------------------------------------------------------------------------
(* RocksDB background work and the clock.                                  *)

\* A full memtable is flushed into a new SST.
BackgroundFlush(cf) ==
    /\ mem[cf] # EmptyFile
    /\ Len(ssts[cf]) < MaxFiles
    /\ ssts' = [ssts EXCEPT ![cf] = Append(@, mem[cf])]
    /\ mem' = [mem EXCEPT ![cf] = EmptyFile]
    /\ UNCHANGED <<now>> /\ UNCHANGED reqVars /\ UNCHANGED shrinkVars

\* Level compaction down to the bottommost level: the newest value of each
\* key survives, shadowed values and tombstones are dropped.
Compacted(cf) ==
    [d \in KeySpace |->
        LET i == NewestFile(ssts[cf], d)
        IN  IF i # 0 /\ IsEntry(ssts[cf][i][d]) THEN ssts[cf][i][d] ELSE NoRec]

Compact(cf) ==
    /\ ssts[cf] # << >>
    /\ ssts' = [ssts EXCEPT ![cf] = IF Compacted(cf) = EmptyFile THEN << >>
                                    ELSE << Compacted(cf) >>]
    /\ ssts' # ssts
    /\ UNCHANGED <<mem, now>> /\ UNCHANGED reqVars /\ UNCHANGED shrinkVars

Tick ==
    /\ now < MaxTime
    /\ now' = now + 1
    /\ UNCHANGED <<mem, ssts>> /\ UNCHANGED reqVars /\ UNCHANGED shrinkVars

-----------------------------------------------------------------------------
Next ==
    \/ \E p \in Procs :
          \/ \E k \in ImageKeys : Request(p, k)
          \/ Reject(p) \/ Load(p) \/ FetchUpstream(p) \/ Save(p)
    \/ \E m \in MinSizes : ShrinkStart(m)
    \/ PopFirst \/ PopNone \/ LoopExit \/ PopDelete \/ ShrinkFlush
    \/ \E cf \in CFs : BackgroundFlush(cf) \/ Compact(cf)
    \/ Tick

Spec == Init /\ [][Next]_vars

\* shrink is one task whose steps are synchronous RocksDB calls: once polled
\* it keeps running.  Requests, RocksDB's background work and the clock get
\* no fairness.
ShrinkStep == PopFirst \/ PopNone \/ LoopExit \/ PopDelete \/ ShrinkFlush
FairSpec == Spec /\ WF_vars(ShrinkStep)

-----------------------------------------------------------------------------
(* Properties.                                                             *)

\* Type invariant.
TypeOK ==
    /\ mem \in [CFs -> Files]
    /\ ssts \in [CFs -> Seq(Files)]
    /\ \A cf \in CFs : Len(ssts[cf]) <= MaxLen
    /\ now \in 0..MaxTime
    /\ pc \in [Procs -> {"idle", "load", "fetch", "save"}]
    /\ req \in [Procs -> ImageKeys]
    /\ served \in [Procs -> Entry \cup {NoRec}]
    /\ spc \in {"idle", "loop", "delete", "flush", "panicked"}
    /\ sz \in 0..(Word - 1)
    /\ smin \in MinSizes
    /\ popped \in [key : KeySpace, len : Nat]
    /\ shrinks \in 0..MaxShrinks
    /\ evicted \subseteq KeySpace

\* The cache seen through the trait: each ImageKey's entry is whatever the
\* images CF holds under its derived key.
AbsStore == [k \in ImageKeys |->
                IF IsEntry(View(ImageCF, CacheKeyOf(k)))
                THEN View(ImageCF, CacheKeyOf(k)) ELSE NoRec]

Contract == INSTANCE ImageCacheContract WITH Keys <- ImageKeys, store <- AbsStore

\* The RocksDB cache, with RocksDB's flushes and compactions, the shrink
\* task and concurrent requests, implements the ImageCache contract: a hit
\* serves the entry last saved for that very key, a save touches no other
\* key, and flush, compaction and shrink only ever evict.
ContractSpec == Contract!Spec

\* The strengthening of TypeOK that is inductive: each shrink call adds at
\* most one SST (its flush of the default CF) beyond the MaxFiles that
\* background flushes stop at, and a running shrink has been counted.
ShrinkRunning == spc \in {"loop", "delete", "flush"}
SstBound ==
    /\ ShrinkRunning => shrinks >= 1
    /\ \A cf \in CFs :
          Len(ssts[cf]) + (IF ShrinkRunning THEN 1 ELSE 0) <= MaxFiles + shrinks
IInv == TypeOK /\ SstBound

\* Every entry the images CF holds, in its memtable or in any SST, sits
\* under the digest of the ImageKey it was fetched for.
ImagesKeyed ==
    \A d \in KeySpace :
        /\ IsEntry(mem[ImageCF][d]) => CacheKeyOf(mem[ImageCF][d].bytes) = d
        /\ \A i \in 1..Len(ssts[ImageCF]) :
              IsEntry(ssts[ImageCF][i][d]) => CacheKeyOf(ssts[ImageCF][i][d].bytes) = d

\* A cache HIT answers a request with the image that was asked for: the
\* derived key of load must never lead to an entry saved for another key.
ServedIsRequested ==
    \A p \in Procs : served[p] # NoRec => served[p].bytes = req[p]

\* shrink(0) over N entries ends after at most N pops (spec, section 8):
\* every entry pop() hands to shrink is one this shrink has not already
\* deleted, unless a save wrote it again since.
PopNeverRepeats ==
    spc = "delete" => popped.key \notin evicted

\* shrink's running size never goes below zero: the bytes pop() reports
\* removed are never more than the size left in `sz`.
NoUnderflow ==
    spc = "delete" => popped.len <= sz

\* save_to_db's comment: the put time is stored for "shrinking the database
\* by oldest".  Every entry pop() picks is the oldest one cached.
EvictsOldestFirst ==
    [][spc = "loop" /\ spc' = "delete" =>
         \A d \in Live(ImageCF) :
             View(ImageCF, popped'.key).put_time <= View(ImageCF, d).put_time]_vars

\* Shrink termination (spec, section 8): a started shrink(min) ends, by
\* returning Ok or Err or, in a debug build, by the overflow panic.
ShrinkEnds ==
    spc \in {"loop", "delete", "flush"} ~> spc \in {"idle", "panicked"}

=============================================================================
