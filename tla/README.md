# Formal models of the scalpel image cache

This directory holds TLA+ models of the MD@Home edge node in `src/`. There are
modules, TLC configurations and TLAPS proofs. The node serves cached chapter
images over TLS, keeps its on-disk cache under a size budget, and rotates its
TLS certificate without a restart.

## 1. The system

| Part | Source | State | Operations |
|---|---|---|---|
| Addressing model | `src/src/cache/mod.rs` 15-86 | none (value type `ImageKey`: chapter, image, data_saver) | constructors, accessors, Display |
| Entry model | `mod.rs` 88-166, `rocks.rs` 18-40 | none (value type `ImageEntry`) | `ImageEntry::from` stamps `put_time`, bincode (de)serialization |
| Cache contract | `mod.rs` 168-223 | the cache | `load`, `save`, `report`, `shrink` |
| RocksDB backend | `src/src/cache/rocks.rs` | one RocksDB handle with the default CF and the `images` CF | `new`, `get_cache_key`, `save_to_db`, `load_from_db`, `size_on_disk`, `pop`, and the trait methods |
| Request path | `src/src/http/mod.rs` 32-86 | none of its own | `md_service`: 404 and 401 early returns, then the HIT/MISS handler |
| Lifecycle manager | `http/mod.rs` 100-267 | the running actix server | `new`, `respawn_with_new_cert`, `shutdown`, `spawn_http_server`, `cert_payload_to_acceptor` |

**How the parts interact.**

- Many actix worker tasks run `md_service` concurrently. They share one `RocksCache`.
- The periodic sweep calls `shrink(min)` on the same handle. It runs while requests keep calling `load` and `save`; no lock is held over the whole shrink.
- RocksDB runs its own background threads. These flush full memtables into SST files and compact SSTs.
- The lifecycle manager is called out of band when a new certificate arrives. It stops the server and spawns a new one.

**Hard behaviours in this code:**

- concurrent saves of one key (last write wins);
- shrink interleaved with saves;
- a size counter read once and then only decremented;
- u64 subtraction, which panics in a debug build and wraps in a release build;
- RocksDB errors on any call;
- memtables that `live_files()` does not count;
- the stop-then-rebind window of certificate rotation.

## 2. Modules

- **`RocksCache.tla`** models the backend, the request tasks that use it and the shrink task. RocksDB itself is the environment:
  - `mem[cf]` is the memtable and `ssts[cf]` the live SST files of each CF.
  - A read (`View`) sees the memtable's slot of a key, else the slot in the newest SST that holds one (`NewestFile`). A delete writes a tombstone.
  - `BackgroundFlush` turns a memtable into an SST.
  - `Compact` merges a CF's SSTs and drops shadowed values and tombstones.
  - Data is abstracted. An image's bytes are the `ImageKey` they were fetched for, of length `ImageLen(k)`. md5 is an injective `Digest` of the byte string that `get_cache_key` feeds it, and its numeric order is RocksDB's key order.

  The actions and the code they model:

  | Action | Code |
  |---|---|
  | `Request`, `Reject` | `md_service` |
  | `Load` | `load_from_db`, with a read error turned into a MISS |
  | `FetchUpstream` | the handler's upstream fetch, modelled from the spec because `handler.rs` is not in this tree |
  | `Save` | `save_to_db`: one `put_cf`, or an error that is logged while the bytes are served anyway |
  | `ShrinkStart` | `sz = self.report()`, which gives 0 if `live_files` fails |
  | `PopFirst`, `PopNone` | `pop`'s iterator |
  | `PopDelete` | `pop`'s `self.db.delete(key)` followed by `sz -= removed_bytes`: a panic when `OverflowChecks`, otherwise `% Word` |
  | `LoopExit` | the `while` condition fails |
  | `ShrinkFlush` | `self.db.flush()` |

  `evicted` is a ghost variable: the keys the current shrink deleted that no save has written since.
- **`ImageCacheContract.tla`** is the abstract `ImageCache` trait. It has a map `store` from `ImageKey` to an entry:
  - `load` serves the stored entry or misses at any time;
  - `save` stores a fresh entry for its key or fails and changes nothing;
  - `Evict` removes an entry.

  `RocksCache` implements it through `Contract == INSTANCE ImageCacheContract WITH store <- AbsStore`. `AbsStore[k]` is what the images CF shows under `CacheKeyOf(k)`.
- **`HttpLifecycle.tla`** models `HttpServerLifecycle` and the actix servers it spawns.
  - Servers are numbered 1, 2, … in spawn order. `srvState[s]` is one of `"none"`, `"running"`, `"stopping"` or `"stopped"`, and `srvCert[s]` is the certificate it presents.
  - `actix` is the number held in the struct field `self.actix`. `Listening` is the set of servers that hold the bind address, whether running or stopping.
  - `conn[k]` is the server a TLS client `k` holds a keep-alive connection to.
  - Certificates are model values. `CertPayloadToAcceptor(c)` is `c \in ValidCerts`: the PEM-to-OpenSSL conversion matters only by whether it succeeds.

  | Action | Code |
  |---|---|
  | `New(c)` | `new`: acceptor, then `spawn_http_server`; an error ends the node |
  | `StartServer(c)` (used by `New` and `RespawnRebuild`) | `cert_payload_to_acceptor` then `bind_openssl`: `Error::Acceptor`; `Error::Port` while the address is held (or for an outside reason, `BindFaults`); or a running server that the lifecycle owns |
  | `RespawnStart(c)` | `respawn_with_new_cert` up to its `await`: `self.shutdown(false)`, i.e. `StopServer(actix, FALSE)` |
  | `RespawnRebuild` | the rest, which runs once the stop future has resolved (the owned server is `"stopped"`): `self.actix` is replaced only on success |
  | `Shutdown(g)`, `ShutdownDone` | `shutdown(graceful)` and its `await` |
  | `ServerStop(s)`, `ShutdownTimeout(s)` | the actix server finishing its stop: at once if forced, once drained if graceful, or when `shutdown_timeout(60)` expires; its connections are dropped |
  | `Connect(k)`, `Close(k)` | TLS clients (external) |

  Assumptions: actix resolves the stop future only after the listening socket is closed, and a completed stop drops the server's connections. No property is checked that rests on the second alone: whether a connection survives a rotation is actix's behaviour, not this code's. Any other reason for a bind to fail is `BindFaults`.
- **`MC_RocksCache.tla`** gives the model values for TLC:
  - `MCDigest` is a base-3 encoding behind a leading 1, which is injective;
  - a fixed domain of one chapter and one image (both variants), and a varying-length domain;
  - `MCImageLen`;
  - symmetry over request tasks.
- **`MC_HttpLifecycle.tla`** gives the model values: certificates `c1`, `c2` (valid) and `bad`; clients `k1` and `k2`; symmetry over clients and over the two valid certificates.
- **`RocksCacheProofs.tla`** and **`HttpLifecycleProofs.tla`** hold the TLAPS proofs of the invariants. **`RocksCacheRefinement.tla`** (extending `RocksCacheProofs`) holds the proof that `RocksCache` implements `ImageCacheContract`.

## 3. Runs

The common constants are `ValueHeader = KeyOverhead = 1`, `MaxImageLen = 2` and `Word = 16`. Word stands for 2^64: a small modulus keeps wrap-around reachable without changing the control.

| Run | cfg | Checks | Expect | Shows |
|---|---|---|---|---|
| main | `MC_RocksCache.cfg` | `ServedIsRequested` | pass | 2 tasks, release build, I/O faults on, `shrink(0)` or `shrink(4)`: about 2.7M states. A HIT always serves the requested image when chapter hashes have a fixed length. |
| contract | `MC_Contract.cfg` | `ContractSpec` | pass | The backend, with flushes, compactions (2 SSTs per CF, so shadowed values are merged) and a debug-build shrink, refines the trait contract. |
| contract_faults | `MC_ContractFaults.cfg` | `ContractSpec` | pass | The same with every RocksDB read, write, iteration, delete and flush allowed to fail (one SST per CF to stay small). A load error is a MISS, and a failed save or an aborted shrink changes nothing a load can see. The mutant that propagates a read error as a failed request breaks it. |
| key_collision | `MC_KeyCollision.cfg` | `ServedIsRequested` | violation | `get_cache_key` has no separator, so chapter `<<1>>` with image `<<1,2>>` and chapter `<<1,1>>` with image `<<2>>` collide. |
| pop_repeats | `MC_PopRepeats.cfg` | `PopNeverRepeats` | violation | `pop` deletes from the default CF, so the same entry is popped again. |
| underflow | `MC_Underflow.cfg` | `NoUnderflow` | violation | `sz` is measured once and each popped length is subtracted from it. pop keeps returning the same entry (its delete goes to the default CF), so the same length is subtracted again until `removed_bytes > sz`. |
| oldest_first | `MC_OldestFirst.cfg` | `EvictsOldestFirst` | violation | Eviction goes by key order, not by `put_time`. |
| shrink_loops | `MC_ShrinkLoops.cfg` | `ShrinkEnds` | violation | In a release build `shrink(0)` never returns. pop returns the same entry every time, since it deletes in the default CF. sz (5) goes 3, 1, 15, 13, … mod 16 and never reaches 0. The spec (§8) says shrink(0) ends after at most N pops. |
| lifecycle | `MC_HttpLifecycle.cfg` | `HandleOwnsListener`, `FailedRespawnLeavesNoListener`, `BindAfterRelease` | pass | new, two respawns (good or bad certificate), shutdown, bind faults and two clients. The owned server is the only listener. A failed respawn leaves nothing listening. The rebind happens only after the address is released. |

**Bounds.**

- One chapter and image in both variants gives two keys. These suffice for two tasks to race on one key and for eviction to choose between two entries.
- `MaxTime = 1` gives two distinct put times.
- `MaxFiles` of 1 or 2 lets compaction merge a shadowed value.
- One shrink call suffices: each bug above shows up within one call.
- The lifecycle uses `MaxServers = 3`. This allows new plus two respawns, so a failed respawn can be followed by a successful one. Two valid certificates make a rotation change what is presented. Two clients hold connections across a stop.

Each property of a passing run has a mutant of the mapped code of this repository that TLC catches (`PROJECT.json`, "mutants"). The type invariants `TypeOK` are not run: each holds by the shape of its module, and no plausible change to the code breaks one. They are proved instead (section 4).

**Fairness.**

- Lifecycle: no liveness property is checked. Whether `respawn_with_new_cert` and `shutdown` return depends only on the actix runtime ending a stop (forced at once; graceful after `shutdown_timeout(60)`, or actix's 30 s default), not on this code's control, so such a property would hold whatever the lifecycle code did.
- Shrink: weak fairness of the shrink task's steps (`ShrinkStep`). shrink runs on a task that gets scheduled, and each step is synchronous RocksDB I/O. Request tasks, the clock and RocksDB background work get none. The run uses no I/O faults and one request task, so the loop is not an artefact of errors.
- Symmetry is used only in safety runs.

## 4. What is proved

`RocksCacheProofs.tla` proves `TypeCorrect == Spec => []TypeOK` for every value of the constants that satisfies the module's assumptions:

- the key space is a finite set of naturals containing every digest;
- image lengths lie in `1..MaxImageLen`;
- the bounds are naturals and `Word > 0`.

`TypeOK` alone is not inductive. `ShrinkFlush` appends an SST to the default CF with no bound of its own. The strengthening `IInv == TypeOK /\ SstBound` states two facts:

- each shrink call adds at most one SST beyond the `MaxFiles` where background flushes stop;
- a running shrink has already been counted.

TLC checked `IInv` as an invariant of the main run before it was proved. The proof shows `Init => IInv`, then one lemma per action that it preserves `IInv`, and combines them with PTL.

`report()` is the size of a finite set of byte addresses (`DiskBytes`) rather than a recursive sum. This lets `SizeOnDiskType` prove from `FiniteSetTheorems` that `sz` is a u64.

**ServedIsRequested** (`ServedCorrect`) is proved under the hypothesis `DigestInjective`: `CacheKeyOf` is injective on `ImageKeys`. This holds when chapter hashes have one length, as MD@Home's do; the key_collision run shows the case where it fails. The invariant `IInv /\ ServedIsRequested` is not inductive by itself, because a load serves whatever the images CF holds under the key. The strengthening `ImagesKeyed` says that every entry in the images CF, in the memtable or in any SST, sits under the cache key of its own image. Supporting lemmas:

- `NewestSst` shows that a read (`View`) or a compaction picks an existing SST slot. It rests on `MaxIndex`: a non-empty set of indexes has a maximum, by well-foundedness of `<` on `Nat`.
- `ViewKeyed` shows that whatever `load` reads is keyed.
- `SaveKeyed`, `BackgroundFlushKeyed`, `CompactKeyed` and `ShrinkKeyed` cover the writers of the images CF.

`HttpLifecycleProofs.tla` proves `LifecycleSafe`, the claim `Spec => []HandleOwnsListener`, and `RebindAfterRelease`, the claim `Spec => BindAfterRelease`. It also proves `LifecycleTypeCorrect` (`Spec => []TypeOK`) and `FailedRespawnIsolated` (`Spec => []FailedRespawnLeavesNoListener`). These hold for every set of certificates and clients and every `MaxServers`. The inductive invariant `LInv`, checked by TLC on the lifecycle instance first, adds three facts:

- every open connection is to a listening server (`ConnsListening`);
- after new the owned server exists;
- a respawn in progress has a server number left.

Each lemma covers one action. `StartServerCases` states what spawn_http_server does to the server table. The action property follows from `LInv`, because the only step from `"respawn"` to `"idle"` is `RespawnRebuild`, whose guard says that the owned (and only possible) listener has stopped.

**Refinement.** `RocksCacheRefinement.tla` proves `Refinement == ASSUME DigestInjective PROVE Spec => ContractSpec`, for every value of the constants. The refinement mapping is `AbsStore` (the entry the images CF shows under `CacheKeyOf(k)`, or none). The proof has three parts:

- `InitAbs`: right after `RocksCache::new` both CFs are empty, so the abstract store is empty.
- One lemma per trait operation. `Request`, `Reject`, `FetchUpstream` and `Tick` leave the images CF alone (`ImagesFrameAbs`). A `Load` HIT serves `AbsStore[req[p]]`, and a MISS or read error is the contract's None. A successful `Save` changes exactly the saved key's abstract entry (`SaveAbs`); this is where `DigestInjective` is needed, since otherwise the put also changes a colliding key. A failed save changes nothing.
- Stuttering steps. The shrink task and RocksDB work on the default CF do not write the images CF (`DefaultStutter`). This is also why the contract's `Evict` is never taken: shrink deletes in the wrong CF. A background flush of the images CF makes the memtable the newest SST, so every read returns what it returned before (`FlushKeepsView`, from `NewestAppend`). A compaction keeps each key's newest value and drops tombstones, so the trait's view is unchanged; only a tombstone becomes None (`CompactKeepsShown`).

The inductive invariant is `IInv`; it supplies the types that the step lemmas need. `Newest` is `NewestFile` with `SelectLastInSeq`'s LAMBDA unfolded (`NewestIsSelectLast`). The `NewestFile` operator exists so that `View(cf, d)'` can be expanded: tlapm cannot prime a definition that holds a LAMBDA over a state variable.

**Only model-checked.**

- `ShrinkEnds`, which is liveness and is violated (the shrink_loops run). Liveness and ENABLED are beyond TLAPS.
- The violation runs, which are counterexamples and need no proof.
- Facts about recursive definitions.

## 5. Not modelled

1. **Composition** of the request path with the lifecycle: requests are served only while a listener runs. The two modules share no state in the code, because the cache handle is independent of the server. They are checked separately.

Not modelled at all:

- bincode and the checksum, since only the encoded length is ever used;
- the mime type;
- logging, metrics, headers and compression;
- the RocksDB tuning options, except that background flush and compaction exist;
- durability across a process crash (the WAL);
- the contents of certificates: OpenSSL's parsing is only success or failure.
