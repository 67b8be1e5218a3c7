# TLA+ models of the s3x gateway

These are TLA+ models of the S3 gateway in `src/`, checked with TLC. The gateway
stores objects and buckets as content-addressed records in an IPFS-style DAG
and keeps a ledger of the current bucket CIDs. The repository holds two
generations of that engine side by side in
`src/cmd/gateway/s3x/gateway-s3x-object.go`, and both are modelled:

| part | source | module |
|---|---|---|
| Object handlers (second version): Put, Copy, Delete(s), Get, List/ListV2 | gateway-s3x-object.go 283-556 | `S3xLedger` |
| ledgerStore listing and getters (second version) | gateway-s3x-object.go 653-706 | `Listing`, `S3xLedger` |
| ledgerStore multipart uploads | gateway-s3x-object.go 580-651, 750-766 | `Multipart` |
| GetObjectNInfo and the ranged GetObject (second version) | gateway-s3x-object.go 337-394 | `RangedGet` |
| Object handlers (first version) | gateway-s3x-object.go 17-282 | `LegacyLedger` |
| LedgerStore (first version) | src/unnamed/part_000 | `LegacyLedger` |
| CRDT DAG syncer adapter | crdt_dagsyncer.go | `DagSyncer` |
| What the engine promises (spec 4.5) | spec.md | `BucketStore` (abstract) |
| TestGateway and the bundled README | gateway-s3x-object.go 767-929 | not modelled (no behaviour) |

## Inventory

**Second-version engine.** The state is:

- the datastore pointer from each bucket name to its bucket record's CID;
- the records themselves, which map object name to object record (bucket, name, data CID);
- `ls.locker`, a `sync.RWMutex` per bucket.

Each S3 request runs in its own goroutine. Operations:

- **PutObject:** `AssertBucketExits`, which takes and drops the read lock, then save the payload, then `ledgerStore.PutObject` under the bucket's write lock.
- **CopyObject:** takes the destination write lock and the source read lock in an order set by name comparison (lines 481-489). It then loads the source object, deep-copies it with a new name and bucket, and calls `putObject`.
- **DeleteObject / DeleteObjects:** `RemoveObject(s)`.
- **GetObject:** `ObjectData`.
- **ListObjects / ListObjectsV2:** `GetObjectInfos` under the read lock.
- **Multipart:** `NewMultipartUpload`, `PutObjectPart` and `AbortMultipartUpload` keep an in-memory map.

Behaviours that are hard to test:

- two writers of one bucket;
- a copy's two locks against a writer queued on the RWMutex;
- the source of a copy changing before the copy commits;
- the listing's filter;
- the multipart lock leak (line 598), the unlocked multipart map, and the write to a nil map at line 623.

**First-version engine.** `LedgerStore` keeps the whole ledger as one record in the datastore: for each bucket, its CID and an object map from names to object CIDs. Each public method holds one `RWMutex` for one read-modify-write of the whole ledger. The handlers make several such calls and build the new bucket record in IPFS between them with no lock held (`addObjectToBucketAndIPFS`). Behaviours that are hard to test:

- two concurrent puts losing one object from the bucket record;
- a put's two ledger updates separated by a bucket deletion;
- CopyObject never recording the copy in the ledger;
- RemoveObject never writing the ledger back;
- ListObjectsV2 past 1000 objects.

**CRDT adapter.** `Get` verifies the CID and marks the block seen. `AddMany` saves, then marks, so it can fail part-way. `RemoveMany` only clears the seen-marks.

The properties come from `spec.md`:

- I2 (every object in a bucket record names its bucket and key);
- I4 and P10 (per-bucket linearizability, no lost update);
- P6 (the listing contract);
- P7 (delete takes effect);
- P8 (copy copies the source);
- P11 (opposed copies do not deadlock).

## Modules

- **`Listing`**: pure operators. `SelectNames` is GetObjectInfos' selection, sorting and truncation, over names that are byte sequences. `LexLess` and `StrCompare` model `sort.Strings` and `strings.Compare` byte by byte. `SpecSelect` is the spec's listing contract, the reference definition that `SelectNames` is compared against.
- **`S3xLedger`**: the second-version engine.
  - State:
    - `store[b]` is the bucket record the datastore points to. A CID stands for its record, so the pointer and the record are one value.
    - `wlock`, `rlock` and `wpend` are each bucket's RWMutex: the writer holding it, the readers inside, and the writer that has announced itself and now blocks new readers.
    - `pc`, `req`, `want` and `local` are each goroutine's step, request, remaining lock plan, and what it loaded.
    - `latest` is a ghost variable: the store obtained by applying every committed write to the then-current record.
  - Actions follow the code's order:
    - `Start` picks up a request.
    - `PutAssertBucket` and `PutSaveData` are PutObject's checks before locking.
    - `AcquireRead`, `AnnounceWrite` and `AcquireWrite` take the locks: `Lock()` first takes the writers' mutex, then waits for readers.
    - The `Read*` actions load under the locks or return the error.
    - `Write` saves the record and releases the locks.
    - `DagFail` is any DAG round-trip failing.
  - The ledgerStore internals that are not in `src/`, such as `PutObject`, `RemoveObject(s)` and bucket creation and deletion, are modelled from the spec and marked `spec_modelled` in PROJECT.json.
- **`LegacyLedger`**: the first-version engine.
  - State:
    - `ledger` is the ledger record: for each bucket, `hash`, the bucket record its CID names, and `objs`, the ledger's own object map.
    - `pc`, `req`, `local` and `ret` are per goroutine. `local` holds the CIDs a handler carries between calls, and the names and result slots its listing loop has left.
  - Each LedgerStore setter (`NewBucket`, `UpdateBucketHash`, `AddObjectToBucket`, `RemoveObject`, `DeleteBucket`) is an operator on the ledger. `RemoveObject` is the identity, because the code never writes its change back.
  - Each getter (`BucketExists`, `ObjectExists`, `GetBucketHash`, `GetObjectHash`, `GetObjectHashes`) is an operator too. It reads the ledger through getLedger, and a failed read gives `false` or an error, as the code does.
  - `DsResults` is whether a method's datastore calls succeed. When the constant `DsFaults` is TRUE, each call may fail. A failed setter leaves the stored ledger unchanged (`Store`).
  - Each handler step is one LedgerStore call, together with the IPFS work after it up to the next call:
    - PutObject takes five steps;
    - CopyObject takes six: BucketExists of the source, BucketExists of the destination, GetObjectHash, GetBucketHash with the record built from it, UpdateBucketHash, and getMinioObjectInfo;
    - GetObjectNInfo runs GetObjectInfo's two steps and then GetObject's two (ObjectExists, then objectFromBucket);
    - ListObjects and ListObjectsV2 take BucketExists, GetObjectHashes, and one step per name of the loop, in any order, because Go's map iteration order is unspecified;
    - DeleteObjects takes one RemoveObject per name.
- **`Multipart`**: the multipart part of the second-version ledgerStore.
  - State:
    - `uploads` is `ls.l.MultipartUploads`: `NilMap` until the first NewMultipartUpload makes it, then a function from ids to an upload (its bucket and its `ObjectParts`, itself `NilMap` or a set of part hashes) or `NoUpload`.
    - `wlock` is each bucket's write lock, the one the object writers take.
    - `inWrite` holds the goroutines that are inside a write of the Go map. A map assignment is two steps, entering and landing, so two writers can be inside at once.
    - `used` and `aborted` are ghosts: the ids handed out, and the ids whose abort returned success.
  - Actions:
    - `NewCheck`, `NewMapWrite` and `NewDeferredLock` are NewMultipartUpload's assertBucketExits, its map write, and the deferred `ls.locker.write(bucket)` that runs at return and is never undone.
    - `PutObjectPart`, `AbortCheck`, `AbortMapWrite` and `ReadUpload` follow the code's branches. `multipartExists` keeps the nil-pointer read of line 756 as the result `Panic`.
    - `ObjWriteLock` and `ObjWriteUnlock` stand for any object writer of the bucket (PutObject, CopyObject...): a lock and a deferred unlock.
    - `Crash` is Go's `fatal error: concurrent map writes`. When a map write lands while another goroutine is inside one, the runtime may abort the process. The in-memory map and every lock are lost, and the requests in flight fail. The alternative, both writes landing, is also kept, because the race is undefined behaviour and either outcome can occur.
- **`RangedGet`**: one GET of one key, with PutObject and DeleteObject of the key as atomic steps beside it. The writers are serialised by the bucket's write lock, as `s3x_writers` shows.
  - `GetObjectInfo` is GetObjectNInfo's info read and `GetOffsetLength(objinfo.Size)`: any satisfiable range of the size it saw.
  - `GetObjectRange` is GetObject's `ObjectData`, its `objSize < end` check (`InvalidRange`), and the slice (`Slice`).
  - A payload is a byte sequence, and the reply header is modelled by the payload it was taken from (`info`).
- **`BucketStore`**: the abstract specification of the ledger engine, written from spec 4.5. Its one variable, `buckets`, maps each bucket name to its contents, or to `NoBucket`. Each mutating operation (CreateBucket, DeleteBucket, PutObject, CopyObject, DeleteObject, DeleteObjects) is one atomic step on the contents then current, guarded by the operation's preconditions. A failed operation is a stutter. `S3xLedger` instantiates it as `Abstract == INSTANCE BucketStore WITH buckets <- store`. The refinement mapping is the identity on the store, because the engine's datastore pointer and the record it names are modelled as one value. `RefinesBucketStore == Abstract!Spec` is then checked as a property. The abstract `Next` begins with `buckets' # buckets`. That leaves the specification unchanged, because an unchanged store is a stutter either way, but it lets TLC dismiss the engine's many steps that do not touch the datastore.
- **`DagSyncer`**: the CRDT adapter.
  - State:
    - `dag` is the node server's blocks;
    - `seen` is the local datastore keys that HasBlock reads;
    - `pc` and `rest` are each goroutine's step and the part of its CID list still to visit. The goroutines are the CRDT layer's callers and, for each caller's n-th call, the goroutine GetMany starts (`Producers`);
    - `out` and `size` are the results waiting in each GetMany channel and the channel's buffer size.
  - Actions: `GetFetch` is client.Dag, the recomputed-CID check (`VerifiedCid`) and ipld.Decode. `GetMark` is setBlock. `AddSave` is AddMany's type switch and ipfsSaveProtoNode. `AddMark` is its setBlock. `RemoveKey` is RemoveMany's ds.Delete. `HasBlock` is ds.Has. Every round-trip may fail. AddMany and RemoveMany return at the first error.
  - GetMany: `Start` makes the channel (`ChanCapacity`, len(cs)) and starts the goroutine, and the caller goes on to range over the channel. The goroutine (`Produce`) runs Get on each CID in turn and `Send`s every result, error or node, so an error never ends its loop; after the last CID it closes the channel. The caller `Receive`s results until the channel is closed and drained, or `Abandon`s the range at any point. The caller is the CRDT layer, which is not in `src/`, so it may stop at any point.
  - The node server may answer with any bytes (`Served`), but never with the bytes of a CID it does not hold, because the bytes determine the CID.
- **`MC_S3xLedger`, `MC_LegacyLedger`, `MC_Multipart`, `MC_RangedGet`, `MC_DagSyncer`**: the values TLC uses, the sets of request kinds for each run, and symmetry.

## Runs

| run | expect | checks | shows |
|---|---|---|---|
| s3x_writers | pass | TypeOK, NoLostUpdate, NoCircularWait, CopySourceStable, RefinesBucketStore | see below |
| s3x_lock_progress | pass | NoCircularWait | see below |
| s3x_listing | violation | ListingContract | see below |
| legacy_concurrent | pass | TypeOK, LedgerObjectsNamed | see below |
| legacy_lost_update | violation | LedgerMatchesRecord | see below |
| legacy_listv2 | violation | ListV2InBounds | see below |
| multipart_lifecycle | pass | AbortedUploadRejected | see below |
| multipart_race | violation | NoConcurrentMapWrite | see below |
| multipart_lock_leak | violation | RequestsReturn | see below |
| ranged_get | pass | NeverPanics | see below |
| ranged_get_stale | violation | ServedMatchesInfo | see below |
| crdt_seen_stored | pass | SeenIsStored, GetManyCloses | see below |

**s3x_writers.** 2 goroutines × 2 requests; 2 buckets and 2 objects; all six kinds of writing request. The results:

- Bucket writes are linearizable.
- The lock order in CopyObject never closes a wait cycle.
- A copy commits the source as it still is.
- The engine implements `BucketStore`: every change of the datastore is one whole operation of spec 4.5, applied to the then-current contents with its preconditions holding.

With a single payload, a copy of a stale source looks like a PutObject of that payload, so the refinement alone does not catch it. CopySourceStable stays for that reason. Passes with about 2.8M distinct states in about 2.5 minutes.

**s3x_lock_progress.** 3 goroutines × 1 request. Readers, puts and copies across 2 buckets. A third goroutine is needed for a writer queued behind a reader to block a copy. Passes.

**s3x_listing.** The shortest violating trace is a put of `<<1>>`, then ListObjects. ListObjects returns `<<>>`, because `strings.Compare("", name) >= 0` keeps only names ≤ "". This is a code bug at gateway-s3x-object.go:663.

**legacy_concurrent.** 2 goroutines × 2 requests. It covers every legacy request, including a bucket deleted or recreated in the middle of a put or copy. Any datastore Get or Put may fail. The ledger's object map only ever records an object record for its own bucket and key. Passes with about 614k distinct states.

**legacy_lost_update.** Two puts read the same bucket CID, with a datastore that never fails. The second UpdateBucketHash drops the first object from the record, while the ledger map keeps both.

**The partial failure of legacy PutObject (line 199) has no run.** With one goroutine and faults on, UpdateBucketHash can succeed and AddObjectToBucket then fail, leaving the record listing an object the ledger map lacks. TLC finds this as a 6-step violation of `LedgerMatchesRecord` when the lost-update configuration is given one goroutine and `DsFaults = TRUE`. legacy_lost_update keeps faults off so that its trace is the lost update, and `LedgerObjectsNamed` still holds after the partial failure. The hazard is listed in PROJECT.json without a covering run.

**legacy_listv2.** `ListV2Cap = 1` stands for the slice size of 1000. With 2 objects in the bucket, the loop writes index 1 of a slice of length 1 and panics.

**multipart_lifecycle.** 2 goroutines × 2 requests over 2 ids and 2 buckets (one existing): every multipart request and an object writer, with the runtime's abort. Once an abort of an upload has returned success, no PutObjectPart for that id succeeds: it is rejected, or fails with the crash. This holds across interleavings of creation, abort and crash. Passes with about 17k distinct states.

**multipart_race.** 2 goroutines, each with one NewMultipartUpload or AbortMultipartUpload. Both enter a write of `ls.l.MultipartUploads` together: nothing serialises them. This is a code bug at line 606.

**multipart_lock_leak.** NewMultipartUpload on b1, then an object writer of b1. The writer waits forever on the write lock that the deferred `ls.locker.write(bucket)` took at line 598 and never released. `RequestsReturn` is violated under weak fairness of every goroutine.

**ranged_get.** One GET with up to two puts or deletes of the key anywhere in it, over payloads of lengths 1, 2, 2 and 3. GetObject checks the range against the bytes it just read, so the slice never goes out of bounds even when a shorter object replaced the one the range was computed from. Passes. (That a successful reply is the requested slice of the bytes read is the definition of `Slice` itself, so it is not checked as a property; what the bytes are checked against is the header, in ranged_get_stale.)

**crdt_seen_stored.** 2 goroutines × 1 call, each a Get, a HasBlock, or a GetMany, AddMany or RemoveMany of up to 2 blocks. There are three blocks: a ProtoNode the server lacks, a ProtoNode it holds, and an undecodable raw block it holds. Every client.Dag and datastore round-trip may fail, and the server may answer with the wrong block's bytes. A block HasBlock reports as processed is always one the server holds. This holds across an AddMany failing part-way and any interleaving with Gets and Removes of the same blocks. Every goroutine GetMany starts also closes its channel and ends, even when its caller stops reading after any number of results (`GetManyCloses`, under weak fairness of those goroutines). Passes with about 30k distinct states. Without the CID check at line 34, TLC finds a Get of a block the server lacks marking it seen from another block's bytes. With a channel one result short, TLC finds a goroutine blocked forever on a channel nobody reads.

**ranged_get_stale.** One put between the two reads. The reply carries the first version's size and ETag and streams the second version's bytes. Spec P10 says a GET returns the payload of one PutObject. This is a code bug at line 356: nothing holds the bucket lock across GetObjectInfo and GetObject.

Every property of a passing run has a mutant: a plausible code bug defined next to the operator it replaces, listed in PROJECT.json. TLC finds each mutant violating its property. Examples:

- copy locks taken source-first always;
- the source lock dropped;
- UpdateBucketHash not persisted;
- CopyObject also recording the source CID in the ledger;
- deleteMultipartID deleting the wrong key;
- the range check one byte short;
- the copy keeping the source's name, which breaks the refinement;
- Get without the CID check;
- GetMany's channel one result short.

**Bugs found while modelling that a unit test reaches.** These are single-client sequences, so they are recorded here and not as runs:

- NewMultipartUpload leaves `ObjectParts` nil, so the first PutObjectPart of every upload writes to a nil map and panics (line 623). In `Multipart`, this is the `Panic` arm of `PutObjectPart`. The part-recording arm is therefore never reached.
- Once any upload exists, `multipartExists` of an unknown id reads `.Id` through a nil pointer and panics (line 756). It does not return ErrInvalidUploadID.
- Legacy RemoveObject never writes the ledger back (src/unnamed/part_000:93). A successful DeleteObject is undone by the next read. `RemoveObject` in `LegacyLedger` is the identity.
- Legacy CopyObject puts the source's object record, still named after the source, under the destination name (line 247). GetObjectInfo of the copy returns the wrong name.
- Legacy GetObject (lines 114-133) writes the whole object whatever startOffset and length are.

**Bounds.** Two buckets are enough for both branches of CopyObject's lock order and for copies in opposite directions. Two objects are enough for two puts into one bucket to conflict on the record without conflicting on the key. One payload is enough, because no property compares payloads across different writes.

Multipart uses 2 goroutines, because every multipart hazard takes two. It uses 2 ids, so that an abort and a part can name different uploads, and 2 buckets, so that a request can name a bucket that does not exist. One part hash is enough, because no property compares parts. RangedGet uses payloads of different lengths and two distinct payloads of one length. These make a range valid for one version and invalid for the next, and a same-size replacement that only the bytes tell apart.

LegacyLedger's concurrent run lets every datastore call fail (`DsFaults = TRUE`). The two violation runs keep the datastore reliable, so their traces show the race or the overflow alone. Two objects and `ListV2Cap = 1` are enough for a listing loop to take two turns, and for the ListObjectsV2 overflow.

DagSyncer's three blocks cover the three branches a block can take: a ProtoNode the server lacks, a ProtoNode it holds, and a block it holds that is not a ProtoNode and cannot be decoded. Lists of two let AddMany fail on its second node after adding the first, and let a GetMany caller stop between two results. One call per goroutine keeps the run small enough for its liveness check: GetMany's goroutine runs beside its caller, and two calls each already give over 5M states. Two goroutines still interleave every pair of calls.

**Fairness.** Each goroutine's steps are weakly fair: the Go scheduler runs every goroutine that can run. Two modules state liveness, each with `WF_vars` per goroutine:
- `Multipart`: `RequestsReturn`, with weak fairness on `Serve(t)`;
- `DagSyncer`: `GetManyCloses`, with weak fairness on `Produce(p)` for GetMany's goroutines only. The CRDT layer's callers get no fairness, because they may stop reading. Deadlock checking is on in every run except two Multipart runs. There the gateway really does stop: a goroutine waits on the lock NewMultipartUpload leaked. `Done` is the only intended terminal stutter, once every client has finished.

## What is not modelled, and the plan

1. A liveness property for `S3xLedger` (every request eventually returns). With each goroutine making a bounded number of requests, the model has no cycle other than the final stutter. So "every request returns" comes down to the absence of deadlock, and the progress run checks exactly that: deadlock checking is on, and `NoCircularWait` is an invariant. An unbounded stream of requests would make starvation a question. It would also need a model of Go's RWMutex hand-off, in which readers waiting at a writer's Unlock go before the next writer. Weak fairness over the present lock model would report a reader starved by writers, which Go's RWMutex does not allow.
2. `LegacyLedger` against `BucketStore`. The legacy engine keeps two copies of each bucket's contents, so it needs its own mapping, and legacy_lost_update already shows that it is not linearizable.
3. Not modelled in `DagSyncer`:
   - ipfsSaveProtoNode, which is not in `src/`; the model takes it to store the node under the node's own CID, and the returned CID is discarded at line 72;
   - the node server's garbage collection.

GetObjectInfo's and newObjectInfo's field formatting is left out; RangedGet keeps only what the reply's header is taken from. Both versions' GetBucketNames only read (the second version's runs a datastore query without locks), and no handler in `src/` calls either. The second version's GetObjectHash and GetObjectHashes (683-706) are likewise called by nothing in `src/` but each other. The legacy `createLedgerIfNotExist` is the initial state: a ledger is always stored.
