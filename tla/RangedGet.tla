----------------------------- MODULE RangedGet -----------------------------
(***************************************************************************)
(* A ranged GET: GetObjectNInfo (gateway-s3x-object.go 337-363) reads     *)
(* the object's info, computes the byte range from                         *)
(* the size it saw (minio's HTTPRangeSpec.GetOffsetLength), and streams    *)
(* GetObject's output from a second goroutine.  The two reads are separate *)
(* ledger calls, each under the bucket's read lock, with nothing held      *)
(* between them; a PutObject or DeleteObject of the key can land between.  *)
(*                                                                         *)
(* Writers are atomic steps: S3xLedger's writers run shows bucket writes   *)
(* are serialised by the write lock.  A payload is a byte sequence; the    *)
(* info the client receives is taken from it (size, and an ETag that is a  *)
(* function of the content), so the info is modelled by the payload.       *)
(***************************************************************************)
EXTENDS Naturals, Sequences

CONSTANTS
    Payloads,   \* byte sequences PutObject may store (distinct contents)
    MaxPuts,    \* writes of the key during one GET
    NoObj, None, Ok, ErrNotFound, ErrRange, Panic

ASSUME MaxPuts \in Nat

VARIABLES
    obj,     \* the key's current payload, or NoObj
    puts,    \* writes made so far
    pc,      \* the GET: "idle", "info", "data", "done"
    info,    \* the payload whose info (size, ETag) the reply header carries
    rng,     \* [start, length] computed from info's size
    served,  \* bytes written to the reply
    ret

vars == <<obj, puts, pc, info, rng, served, ret>>

\* HTTPRangeSpec.GetOffsetLength(size): the whole object (no Range header)
\* or a satisfiable byte range of it.
OffsetLengths(size) ==
    {r \in [start : 0..size, length : 0..size] : r.start + r.length <= size}

\* Mutant: the check one byte short.
InvalidRangeOffByOne(objSize, startOffset, length) ==
    objSize < startOffset + length - 1

\* GetObject: end := startOffset + length; objSize < end is InvalidRange.
InvalidRange(objSize, startOffset, length) == objSize < startOffset + length

\* objData[startOffset:end]; out of bounds is a runtime panic.
Slice(objData, startOffset, end) == SubSeq(objData, startOffset + 1, end)

Init ==
    /\ obj \in Payloads \cup {NoObj}
    /\ puts = 0
    /\ pc = "idle"
    /\ info = NoObj
    /\ rng = [start |-> 0, length |-> 0]
    /\ served = <<>>
    /\ ret = None

\* PutObject / DeleteObject of the key by another request.
Put ==
    /\ puts < MaxPuts
    /\ \E d \in Payloads : obj' = d
    /\ puts' = puts + 1
    /\ UNCHANGED <<pc, info, rng, served, ret>>

Delete ==
    /\ puts < MaxPuts /\ obj # NoObj
    /\ obj' = NoObj
    /\ puts' = puts + 1
    /\ UNCHANGED <<pc, info, rng, served, ret>>

Begin ==
    /\ pc = "idle"
    /\ pc' = "info"
    /\ UNCHANGED <<obj, puts, info, rng, served, ret>>

\* GetObjectNInfo: GetObjectInfo, then GetOffsetLength(objinfo.Size).
GetObjectInfo ==
    /\ pc = "info"
    /\ IF obj = NoObj
       THEN pc' = "done" /\ ret' = ErrNotFound /\ UNCHANGED <<info, rng>>
       ELSE /\ pc' = "data" /\ info' = obj /\ UNCHANGED ret
            /\ rng' \in OffsetLengths(Len(obj))
    /\ UNCHANGED <<obj, puts, served>>

\* GetObject: ObjectData, the range check, the slice.
GetObjectRange ==
    LET e == rng.start + rng.length IN
    /\ pc = "data"
    /\ pc' = "done"
    /\ CASE obj = NoObj -> ret' = ErrNotFound /\ UNCHANGED served
         [] InvalidRange(Len(obj), rng.start, rng.length) ->
                ret' = ErrRange /\ UNCHANGED served
         [] e > Len(obj) -> ret' = Panic /\ UNCHANGED served
         [] OTHER -> ret' = Ok /\ served' = Slice(obj, rng.start, e)
    /\ UNCHANGED <<obj, puts, info, rng>>

Finished ==
    /\ pc = "done" /\ puts = MaxPuts
    /\ UNCHANGED vars

Next == Put \/ Delete \/ Begin \/ GetObjectInfo \/ GetObjectRange \/ Finished

Spec == Init /\ [][Next]_vars

(***************************************************************************)
(* Properties.                                                             *)
(***************************************************************************)

\* GetObject never slices past the data it read: the range check is made
\* against the bytes actually fetched, which may be shorter than the size
\* the range was computed from when a smaller object replaced it.
NeverPanics == ret # Panic

\* The bytes streamed belong to the object whose size and ETag the reply
\* header carries (spec P2/P10: a GET returns the payload of one PutObject).
ServedMatchesInfo ==
    [][(pc = "data" /\ ret' = Ok) =>
         served' = SubSeq(info, rng.start + 1, rng.start + rng.length)]_vars
=============================================================================
