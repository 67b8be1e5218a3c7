----------------------------- MODULE S3xLedger -----------------------------
(***************************************************************************)
(* The object engine of the gateway: the S3 object handlers of xObjects    *)
(* (gateway-s3x-object.go, second version, lines 283-556) running in       *)
(* concurrent request goroutines over the ledgerStore, whose per-bucket    *)
(* reader/writer locks (ls.locker) serialise access to each bucket record. *)
(*                                                                         *)
(* A bucket record is stored as a content-addressed block and the local    *)
(* datastore keeps its CID; since a CID is a collision-free function of    *)
(* the record, the pointer and the record are modelled together: store[b] *)
(* is the record the datastore currently points to, or NoBucket.           *)
(*                                                                         *)
(* Each request is one goroutine: it takes its locks one at a time, in the *)
(* order the code takes them, then reads the bucket record (cache or DAG)  *)
(* and finally writes the new record and releases its locks (the deferred *)
(* unlock functions).  A DAG round-trip may fail at any of these steps.    *)
(***************************************************************************)
EXTENDS Integers, Sequences, FiniteSets, Listing

CONSTANTS
    Threads,     \* request goroutines
    Buckets,     \* bucket names (byte sequences, compared by CopyObject)
    Objects,     \* object names (byte sequences, listed in order)
    Data,        \* object payloads
    Prefixes,    \* list prefixes clients send
    ListV2Max,   \* the 1000 that ListObjectsV2 passes as max, scaled down
    MaxOps,      \* requests each goroutine issues (bounds the model)
    Ops,         \* the kinds of request the clients send in this model
    NoBucket, NoObj, None, Failed

OpNames == {"put", "copy", "delete", "deletes", "makebucket", "deletebucket",
            "get", "list"}

ASSUME ListV2Max \in Nat \ {0} /\ MaxOps \in Nat /\ Ops \subseteq OpNames

VARIABLES
    store,    \* [Buckets -> bucket record or NoBucket]: datastore + DAG
    wlock,    \* [Buckets -> Threads \cup {None}]: writer of locker[b]
    rlock,    \* [Buckets -> SUBSET Threads]: readers of locker[b]
    wpend,    \* [Buckets -> Threads \cup {None}]: writer inside Lock(), waiting for readers
    pc,       \* [Threads -> step of the request being served]
    req,      \* [Threads -> the request]
    want,     \* [Threads -> locks still to take, in order]
    local,    \* [Threads -> what the request has loaded]
    ret,      \* [Threads -> what the last read returned]
    opsDone,  \* [Threads -> requests issued so far]
    latest    \* ghost: the store as if every write applied to the current record

vars == <<store, wlock, rlock, wpend, pc, req, want, local, ret, opsDone, latest>>

ObjRec     == [bucket : Buckets, name : Objects, data : Data]
BucketRec  == [Objects -> ObjRec \cup {NoObj}]
EmptyBucket == [o \in Objects |-> NoObj]
Names(rec) == {o \in Objects : rec[o] # NoObj}
LockReq    == [b : Buckets, mode : {"R", "W"}]

\* One request; fields a request does not use hold None.
Request == [op : OpNames,
            b : Buckets, o : Objects \cup {None}, d : Data \cup {None},
            sb : Buckets \cup {None}, so : Objects \cup {None},
            os : SUBSET Objects, prefix : Prefixes \cup {None},
            after : Objects \cup {<<>>, None}, max : Nat]

Req(op, b) == [op |-> op, b |-> b, o |-> None, d |-> None, sb |-> None,
               so |-> None, os |-> {}, prefix |-> None, after |-> None,
               max |-> 0]

NoLocal == [rec |-> NoBucket, obj |-> NoObj]

(***************************************************************************)
(* Lock plans.                                                             *)
(***************************************************************************)

\* Mutants of CopyLockOrder: the source always locked first; the source
\* not locked at all; a read lock when source and destination coincide.
CopyLockOrderSrcFirst(sb, db) ==
    IF sb = db THEN << [b |-> db, mode |-> "W"] >>
    ELSE << [b |-> sb, mode |-> "R"], [b |-> db, mode |-> "W"] >>
CopyLockOrderNoSrc(sb, db) == << [b |-> db, mode |-> "W"] >>
CopyLockOrderSameRead(sb, db) ==
    IF sb = db THEN << [b |-> db, mode |-> "R"] >>
    ELSE IF StrCompare(sb, db) > 0
         THEN << [b |-> sb, mode |-> "R"], [b |-> db, mode |-> "W"] >>
         ELSE << [b |-> db, mode |-> "W"], [b |-> sb, mode |-> "R"] >>

\* CopyObject: "lock ordering by bucket name".  Go runs `defer f(x)()` by
\* calling f(x) at once, so the locks are taken in the order of the defers.
CopyLockOrder(sb, db) ==
    IF sb = db THEN << [b |-> db, mode |-> "W"] >>
    ELSE IF StrCompare(sb, db) > 0
         THEN << [b |-> sb, mode |-> "R"], [b |-> db, mode |-> "W"] >>
         ELSE << [b |-> db, mode |-> "W"], [b |-> sb, mode |-> "R"] >>

\* ledgerStore.PutObject / RemoveObject(s) / bucket create and delete take
\* the bucket's write lock; ObjectData and GetObjectInfos its read lock.
WriteLock(b) == << [b |-> b, mode |-> "W"] >>
ReadLock(b)  == << [b |-> b, mode |-> "R"] >>

(***************************************************************************)
(* locker: a sync.RWMutex per bucket.  Lock() first takes the writers'     *)
(* mutex and announces itself, which holds back every new RLock(), then    *)
(* waits for the readers inside to leave.                                  *)
(***************************************************************************)
ReaderBlocked(b) == wlock[b] # None \/ wpend[b] # None

\* The deferred unlock functions of the request.
ReleaseAll(t) ==
    /\ wlock' = [b \in Buckets |-> IF wlock[b] = t THEN None ELSE wlock[b]]
    /\ rlock' = [b \in Buckets |-> rlock[b] \ {t}]
    /\ UNCHANGED wpend

Finish(t) ==
    /\ ReleaseAll(t)
    /\ pc' = [pc EXCEPT ![t] = "idle"]
    /\ local' = [local EXCEPT ![t] = NoLocal]

(***************************************************************************)
(* A goroutine picks up a request.                                         *)
(***************************************************************************)
Requests ==
    {[Req("put", b) EXCEPT !.o = o, !.d = d] : b \in Buckets, o \in Objects, d \in Data}
    \cup {[Req("copy", b) EXCEPT !.o = o, !.sb = sb, !.so = so] :
            b \in Buckets, o \in Objects, sb \in Buckets, so \in Objects}
    \cup {[Req("delete", b) EXCEPT !.o = o] : b \in Buckets, o \in Objects}
    \cup {[Req("deletes", b) EXCEPT !.os = os] :
            b \in Buckets, os \in SUBSET Objects \ {{}}}
    \cup {Req("makebucket", b) : b \in Buckets}
    \cup {Req("deletebucket", b) : b \in Buckets}
    \cup {[Req("get", b) EXCEPT !.o = o] : b \in Buckets, o \in Objects}
    \* ListObjects: GetObjectInfos(bucket, prefix, "", 0)
    \cup {[Req("list", b) EXCEPT !.prefix = p, !.after = <<>>] :
            b \in Buckets, p \in Prefixes}
    \* ListObjectsV2: GetObjectInfos(bucket, prefix, startAfter, 1000)
    \cup {[Req("list", b) EXCEPT !.prefix = p, !.after = a, !.max = ListV2Max] :
            b \in Buckets, p \in Prefixes, a \in Objects \cup {<<>>}}

\* The gateway's PutObject first asserts the bucket exists, the copy and
\* ledger requests go straight to their locks.
FirstStep(r) ==
    CASE r.op = "put"  -> "assert"
      [] OTHER         -> "lock"

LockPlan(r) ==
    CASE r.op = "copy"             -> CopyLockOrder(r.sb, r.b)
      [] r.op \in {"get", "list"}  -> ReadLock(r.b)
      [] OTHER                     -> WriteLock(r.b)

Start(t) ==
    /\ pc[t] = "idle"
    /\ opsDone[t] < MaxOps
    /\ \E r \in {r \in Requests : r.op \in Ops} :
         /\ req' = [req EXCEPT ![t] = r]
         /\ pc' = [pc EXCEPT ![t] = FirstStep(r)]
         /\ want' = [want EXCEPT ![t] = LockPlan(r)]
    /\ opsDone' = [opsDone EXCEPT ![t] = @ + 1]
    /\ UNCHANGED <<store, wlock, rlock, wpend, local, ret, latest>>

(***************************************************************************)
(* PutObject, before the ledger call: AssertBucketExits (takes and drops   *)
(* the read lock), ReadAll, then ipfsSaveBytes of the payload.             *)
(***************************************************************************)
PutAssertBucket(t) ==
    /\ pc[t] = "assert"
    /\ ~ReaderBlocked(req[t].b)
    /\ pc' = [pc EXCEPT ![t] = IF store[req[t].b] = NoBucket THEN "idle"
                                                             ELSE "save"]
    /\ UNCHANGED <<store, wlock, rlock, wpend, req, want, local, ret, opsDone, latest>>

PutSaveData(t) ==
    /\ pc[t] = "save"
    /\ \E ok \in BOOLEAN :
         pc' = [pc EXCEPT ![t] = IF ok THEN "lock" ELSE "idle"]
    /\ UNCHANGED <<store, wlock, rlock, wpend, req, want, local, ret, opsDone, latest>>

(***************************************************************************)
(* Taking the next lock of the plan; blocks while it is not available.     *)
(***************************************************************************)
NextLock(t) == Head(want[t])

Took(t) ==
    /\ want' = [want EXCEPT ![t] = Tail(@)]
    /\ pc' = [pc EXCEPT ![t] = IF Tail(want[t]) = <<>> THEN "read" ELSE "lock"]

\* locker.read(b): RLock.
AcquireRead(t) ==
    /\ pc[t] = "lock" /\ want[t] # <<>> /\ NextLock(t).mode = "R"
    /\ ~ReaderBlocked(NextLock(t).b)
    /\ rlock' = [rlock EXCEPT ![NextLock(t).b] = @ \cup {t}]
    /\ Took(t)
    /\ UNCHANGED <<store, wlock, wpend, req, local, ret, opsDone, latest>>

\* locker.write(b): Lock, first half: the writers' mutex is free.
AnnounceWrite(t) ==
    /\ pc[t] = "lock" /\ want[t] # <<>> /\ NextLock(t).mode = "W"
    /\ wlock[NextLock(t).b] = None /\ wpend[NextLock(t).b] = None
    /\ wpend' = [wpend EXCEPT ![NextLock(t).b] = t]
    /\ UNCHANGED <<store, wlock, rlock, pc, req, want, local, ret, opsDone, latest>>

\* Lock, second half: the last reader has left.
AcquireWrite(t) ==
    /\ pc[t] = "lock" /\ want[t] # <<>> /\ NextLock(t).mode = "W"
    /\ wpend[NextLock(t).b] = t /\ rlock[NextLock(t).b] = {}
    /\ wpend' = [wpend EXCEPT ![NextLock(t).b] = None]
    /\ wlock' = [wlock EXCEPT ![NextLock(t).b] = t]
    /\ Took(t)
    /\ UNCHANGED <<store, rlock, req, local, ret, opsDone, latest>>

(***************************************************************************)
(* Under the locks: load what the request needs, or return its error.      *)
(***************************************************************************)
LoadOrFail(t, ok, loaded) ==
    IF ok THEN /\ pc' = [pc EXCEPT ![t] = "write"]
               /\ local' = [local EXCEPT ![t] = loaded]
               /\ UNCHANGED <<wlock, rlock, wpend>>
          ELSE Finish(t)

\* ledgerStore.PutObject: bucket must still exist; load its record.
ReadPut(t) ==
    LET r == req[t] IN
    /\ pc[t] = "read" /\ r.op = "put"
    /\ LoadOrFail(t, store[r.b] # NoBucket, [NoLocal EXCEPT !.rec = store[r.b]])
    /\ UNCHANGED <<store, req, want, ret, opsDone, latest>>

\* CopyObject: assertBucketExits(dst), then object(src); nil means missing.
ReadCopy(t) ==
    LET r == req[t] IN
    /\ pc[t] = "read" /\ r.op = "copy"
    /\ LoadOrFail(t, /\ store[r.b] # NoBucket
                     /\ store[r.sb] # NoBucket
                     /\ store[r.sb][r.so] # NoObj,
                  [rec |-> store[r.b],
                   obj |-> IF store[r.sb] = NoBucket THEN NoObj
                           ELSE store[r.sb][r.so]])
    /\ UNCHANGED <<store, req, want, ret, opsDone, latest>>

\* RemoveObject: bucket and object must exist.
ReadDelete(t) ==
    LET r == req[t] IN
    /\ pc[t] = "read" /\ r.op = "delete"
    /\ LoadOrFail(t, store[r.b] # NoBucket /\ store[r.b][r.o] # NoObj,
                  [NoLocal EXCEPT !.rec = store[r.b]])
    /\ UNCHANGED <<store, req, want, ret, opsDone, latest>>

\* RemoveObjects: bucket must exist; the missing names are returned.
ReadDeletes(t) ==
    LET r == req[t] IN
    /\ pc[t] = "read" /\ r.op = "deletes"
    /\ LoadOrFail(t, store[r.b] # NoBucket, [NoLocal EXCEPT !.rec = store[r.b]])
    /\ UNCHANGED <<store, req, want, ret, opsDone, latest>>

\* Bucket creation fails when the bucket exists.
ReadMakeBucket(t) ==
    LET r == req[t] IN
    /\ pc[t] = "read" /\ r.op = "makebucket"
    /\ LoadOrFail(t, store[r.b] = NoBucket, NoLocal)
    /\ UNCHANGED <<store, req, want, ret, opsDone, latest>>

\* Bucket deletion fails when it is missing or holds objects.
ReadDeleteBucket(t) ==
    LET r == req[t] IN
    /\ pc[t] = "read" /\ r.op = "deletebucket"
    /\ LoadOrFail(t, store[r.b] # NoBucket /\ Names(store[r.b]) = {},
                  [NoLocal EXCEPT !.rec = store[r.b]])
    /\ UNCHANGED <<store, req, want, ret, opsDone, latest>>

\* GetObject: ObjectData returns the payload, or the bucket/object error.
ReadGet(t) ==
    LET r == req[t] IN
    /\ pc[t] = "read" /\ r.op = "get"
    /\ ret' = [ret EXCEPT ![t] =
                 IF store[r.b] = NoBucket \/ store[r.b][r.o] = NoObj THEN Failed
                 ELSE store[r.b][r.o].data]
    /\ Finish(t)
    /\ UNCHANGED <<store, req, want, opsDone, latest>>

\* ListObjects / ListObjectsV2: GetObjectInfos under the read lock: the
\* names selected, then each object loaded for its info (a failed load is
\* DagFail).
ReadList(t) ==
    LET r == req[t] IN
    /\ pc[t] = "read" /\ r.op = "list"
    /\ ret' = [ret EXCEPT ![t] =
                 IF store[r.b] = NoBucket THEN Failed
                 ELSE [names |-> SelectNames(Names(store[r.b]), r.prefix,
                                             r.after, r.max)]]
    /\ Finish(t)
    /\ UNCHANGED <<store, req, want, opsDone, latest>>

(***************************************************************************)
(* Writing the new bucket record: saveRecord, then the datastore put (the  *)
(* linearization point), then the deferred unlocks.                        *)
(***************************************************************************)
NewObject(r) == [bucket |-> r.b, name |-> r.o, data |-> r.d]

\* Mutant: the copy keeps the source's name (only the bucket rewritten).
CopiedObjectKeepName(obj, r) == [obj EXCEPT !.bucket = r.b]

\* CopyObject: the copy's info names the destination; dataHash is reused.
CopiedObject(obj, r) == [obj EXCEPT !.bucket = r.b, !.name = r.o]

\* Mutant: RemoveObjects builds the new record from the removed names only.
WrittenDeletesOnly(r, rec, obj) ==
    CASE r.op = "put"          -> [rec EXCEPT ![r.o] = NewObject(r)]
      [] r.op = "copy"         -> [rec EXCEPT ![r.o] = CopiedObject(obj, r)]
      [] r.op = "delete"       -> [rec EXCEPT ![r.o] = NoObj]
      [] r.op = "deletes"      -> [o \in r.os |-> NoObj]
      [] r.op = "makebucket"   -> EmptyBucket
      [] r.op = "deletebucket" -> NoBucket

\* The record a write produces from the record `rec` it was given.
Written(r, rec, obj) ==
    CASE r.op = "put"          -> [rec EXCEPT ![r.o] = NewObject(r)]
      [] r.op = "copy"         -> [rec EXCEPT ![r.o] = CopiedObject(obj, r)]
      [] r.op = "delete"       -> [rec EXCEPT ![r.o] = NoObj]
      [] r.op = "deletes"      -> [o \in Objects |-> IF o \in r.os THEN NoObj
                                                                  ELSE rec[o]]
      [] r.op = "makebucket"   -> EmptyBucket
      [] r.op = "deletebucket" -> NoBucket

Write(t) ==
    LET r == req[t] IN
    /\ pc[t] = "write"
    /\ store' = [store EXCEPT ![r.b] = Written(r, local[t].rec, local[t].obj)]
    /\ latest' = [latest EXCEPT ![r.b] = Written(r, latest[r.b], local[t].obj)]
    /\ ret' = [ret EXCEPT ![t] = IF r.op = "deletes"
                                 THEN [missing |-> r.os \ Names(local[t].rec)]
                                 ELSE None]
    /\ Finish(t)
    /\ UNCHANGED <<req, want, opsDone>>

\* A DAG round-trip (load, saveRecord) fails: nothing is committed.
DagFail(t) ==
    /\ pc[t] \in {"read", "write"}
    /\ ret' = [ret EXCEPT ![t] = Failed]
    /\ Finish(t)
    /\ UNCHANGED <<store, req, want, opsDone, latest>>

(***************************************************************************)
(* Specification.                                                          *)
(***************************************************************************)
Init ==
    /\ store \in [Buckets -> {NoBucket, EmptyBucket}]
    /\ latest = store
    /\ wlock = [b \in Buckets |-> None]
    /\ rlock = [b \in Buckets |-> {}]
    /\ wpend = [b \in Buckets |-> None]
    /\ pc = [t \in Threads |-> "idle"]
    /\ req = [t \in Threads |-> Req("get", CHOOSE b \in Buckets : TRUE)]
    /\ want = [t \in Threads |-> <<>>]
    /\ local = [t \in Threads |-> NoLocal]
    /\ ret = [t \in Threads |-> None]
    /\ opsDone = [t \in Threads |-> 0]

\* Everything a request does after it started.
Serve(t) ==
    \/ PutAssertBucket(t) \/ PutSaveData(t)
    \/ AcquireRead(t) \/ AnnounceWrite(t) \/ AcquireWrite(t)
    \/ ReadPut(t) \/ ReadCopy(t) \/ ReadDelete(t) \/ ReadDeletes(t)
    \/ ReadMakeBucket(t) \/ ReadDeleteBucket(t) \/ ReadGet(t) \/ ReadList(t)
    \/ Write(t) \/ DagFail(t)

\* All requests served: the clients stop.
Done ==
    /\ \A t \in Threads : pc[t] = "idle" /\ opsDone[t] = MaxOps
    /\ UNCHANGED vars

Next == \/ \E t \in Threads : Start(t) \/ Serve(t)
        \/ Done

\* Every goroutine that can proceed eventually does (the Go scheduler).
Fairness == \A t \in Threads : WF_vars(Serve(t))

Spec == Init /\ [][Next]_vars /\ Fairness

(***************************************************************************)
(* Properties.                                                             *)
(***************************************************************************)

\* The abstract store of spec 4.5, seen through the datastore: a bucket's
\* contents are the record its datastore pointer names.
Abstract == INSTANCE BucketStore WITH buckets <- store

IsResult(x) ==
    \/ x \in Data \cup {None, Failed}
    \/ x \in [names : Seq(Objects)]
    \/ x \in [missing : SUBSET Objects]

TypeOK ==
    /\ store \in [Buckets -> BucketRec \cup {NoBucket}]
    /\ wlock \in [Buckets -> Threads \cup {None}]
    /\ rlock \in [Buckets -> SUBSET Threads]
    /\ wpend \in [Buckets -> Threads \cup {None}]
    /\ pc \in [Threads -> {"idle", "assert", "save", "lock", "read", "write"}]
    /\ req \in [Threads -> Request]
    /\ want \in [Threads -> Seq(LockReq)]
    /\ local \in [Threads -> [rec : BucketRec \cup {NoBucket},
                              obj : ObjRec \cup {NoObj}]]
    /\ \A t \in Threads : IsResult(ret[t])
    /\ opsDone \in [Threads -> 0..MaxOps]

\* No lost update (spec I4, P10): every committed write of a bucket record
\* was made to the record then current, so the store equals the result of
\* applying all committed writes in commit order.  Two writers that load
\* the same record and both commit (the put/copy/delete read-modify-write
\* without the bucket's write lock) break it.
NoLostUpdate == store = latest

\* The engine implements the abstract store: every change of the
\* datastore is one whole PutObject, CopyObject, DeleteObject(s) or bucket
\* operation of spec 4.5 applied to the contents then current, with its
\* preconditions holding at that moment.  A write built from a record
\* another request has since replaced, a copy of a source that changed
\* after it was loaded, or a delete of a non-empty bucket each make a step
\* no operation of the abstract store makes.
RefinesBucketStore == Abstract!Spec

\* A thread t waits for u: t's next lock is held by u, or t is blocked
\* behind u's announced write lock, or t has announced its write lock and
\* u is one of the readers it waits for.
WaitsFor(t, u) ==
    /\ pc[t] = "lock" /\ want[t] # <<>>
    /\ LET b == NextLock(t).b IN
         \/ wlock[b] = u
         \/ wpend[b] = u /\ u # t
         \/ wpend[b] = t /\ u \in rlock[b]

\* No deadlock among the bucket locks (spec 4.3, P11): there is never a
\* set of requests each waiting for another of the set, e.g. CopyObject
\* A->B and B->A taking their two locks in opposite orders.
NoCircularWait ==
    ~\E S \in SUBSET Threads :
        S # {} /\ \A t \in S : \E u \in S : WaitsFor(t, u)

\* CopyObject copies what the source holds (spec P8): when the copy
\* commits, the source object is still the one it loaded, so no writer
\* changed the source between the load and the commit.  (With one payload
\* a stale copy is indistinguishable from a put, so RefinesBucketStore
\* does not say this.)
CopySourceStable ==
    [][\A t \in Threads :
         (pc[t] = "write" /\ req[t].op = "copy" /\ store' # store)
            => store[req[t].sb] # NoBucket
               /\ store[req[t].sb][req[t].so] = local[t].obj]_vars

\* ListObjects returns what the spec's listing promises (spec 4.5, P6):
\* the names with the prefix, after startAfter, in order, at most max.
ListingContract ==
    [][\A t \in Threads :
         (pc[t] = "read" /\ req[t].op = "list" /\ ret'[t] # Failed
          /\ pc'[t] = "idle")
            => ret'[t].names = SpecSelect(Names(store[req[t].b]), req[t].prefix,
                                    req[t].after, req[t].max)]_vars
=============================================================================
