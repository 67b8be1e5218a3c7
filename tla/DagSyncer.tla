----------------------------- MODULE DagSyncer -----------------------------
(***************************************************************************)
(* crdtDAGSyncer (crdt_dagsyncer.go): the adapter the CRDT replication     *)
(* layer uses to reach the DAG.  Blocks live on the remote node server     *)
(* (reached through client.Dag); a local datastore key per CID marks the   *)
(* block as "locally available, therefore processed" (HasBlock).           *)
(*                                                                         *)
(* The CRDT layer calls the adapter from several goroutines.  Each call is *)
(* a loop of remote and datastore round-trips, any of which may fail; the *)
(* datastore is safe for concurrent use, so each round-trip is one atomic *)
(* step and the calls interleave between them.  A block is its CID: the   *)
(* node server can answer with any bytes, but never with the bytes of a   *)
(* CID it does not hold.                                                   *)
(*                                                                         *)
(* GetMany returns a channel at once and runs the Gets in a goroutine of   *)
(* its own, which sends each result into the channel and closes it.  The   *)
(* caller (the CRDT layer, not in src) ranges over the channel and may     *)
(* stop at any point.                                                      *)
(***************************************************************************)
EXTENDS Naturals, Sequences

LOCAL INSTANCE SequencesExt
LOCAL INSTANCE Functions

CONSTANTS
    Callers,      \* CRDT-layer goroutines calling the adapter
    Cids,         \* blocks
    ProtoCids,    \* the blocks that are *merkledag.ProtoNode
    Undecodable,  \* blocks ipld.Decode has no decoder for
    Remote,       \* blocks the node server already holds (other peers' deltas)
    MaxCalls,     \* adapter calls each goroutine makes
    MaxBatch,     \* longest CID or node list of one call
    Ok, Err, None

ASSUME /\ ProtoCids \subseteq Cids /\ Undecodable \subseteq Cids
       /\ Remote \subseteq Cids /\ MaxCalls \in Nat /\ MaxBatch \in Nat \ {0}

\* The goroutine GetMany starts for a caller's n-th call.
Producers == Callers \X (1..MaxCalls)
Actors    == Callers \cup Producers

VARIABLES
    dag,    \* blocks the node server holds
    seen,   \* CIDs whose key is in the local datastore (HasBlock)
    pc,     \* [Actors -> step of the call or goroutine]
    rest,   \* [Actors -> the CIDs the loop has still to visit]
    ret,    \* [Actors -> what the call (or the Get for one item) returned]
    calls,  \* [Callers -> calls made]
    out,    \* [Producers -> results sent into the channel and not received]
    size    \* [Producers -> the channel's buffer size]

vars == <<dag, seen, pc, rest, ret, calls, out, size>>

\* The lists a call takes: cs []cid.Cid or ns []ipld.Node, no repeats.
Batches == {s \in SeqOf(Cids, MaxBatch) : s # <<>> /\ IsInjective(s)}

\* Get and HasBlock take one CID; GetMany, AddMany and RemoveMany a list
\* (Add and Remove are AddMany and RemoveMany of one).
Calls == [op : {"get", "has"}, cs : {<<c>> : c \in Cids}]
         \cup [op : {"getmany", "add", "remove"}, cs : Batches]

\* The bytes client.Dag may answer a DAG_GET of c with: any block, but the
\* bytes of c only if the server holds c.
Served(c) == {r \in Cids : r = c => c \in dag}

Return(g, r) ==
    /\ pc' = [pc EXCEPT ![g] = "idle"]
    /\ rest' = [rest EXCEPT ![g] = <<>>]
    /\ ret' = [ret EXCEPT ![g] = r]

\* The loop moves to its next element, or the call returns r.  In GetMany's
\* goroutine the Get's result r is sent first.
Advance(g, r) ==
    CASE g \in Producers ->
           pc' = [pc EXCEPT ![g] = "send"] /\ ret' = [ret EXCEPT ![g] = r]
           /\ UNCHANGED rest
      [] Tail(rest[g]) = <<>> -> Return(g, r)
      [] OTHER ->
           /\ rest' = [rest EXCEPT ![g] = Tail(@)]
           /\ pc' = [pc EXCEPT ![g] = IF pc[g] = "add_mark" THEN "add" ELSE pc[g]]
           /\ ret' = [ret EXCEPT ![g] = r]

\* Mutant: a channel one short of the results to send.
ChanCapacityShort(cs) == Len(cs) - 1

\* make(chan *ipld.NodeOption, len(cs)).
ChanCapacity(cs) == Len(cs)

\* A call; GetMany makes its channel and starts its goroutine.
Start(g) ==
    /\ pc[g] = "idle" /\ calls[g] < MaxCalls
    /\ \E call \in Calls :
         IF call.op = "getmany"
         THEN LET p == <<g, calls[g] + 1>> IN
              /\ pc' = [pc EXCEPT ![g] = "recv", ![p] = "get"]
              /\ rest' = [rest EXCEPT ![p] = call.cs]
              /\ size' = [size EXCEPT ![p] = ChanCapacity(call.cs)]
         ELSE /\ pc' = [pc EXCEPT ![g] = call.op]
              /\ rest' = [rest EXCEPT ![g] = call.cs]
              /\ UNCHANGED size
    /\ calls' = [calls EXCEPT ![g] = @ + 1]
    /\ UNCHANGED <<dag, seen, ret, out>>

(***************************************************************************)
(* Get (GetMany runs Get on each CID in turn and sends every result,       *)
(* error or node, on its channel, so an error never ends the loop).        *)
(***************************************************************************)

\* Mutant: the block taken as it comes, without recomputing its CID.
VerifiedCidUnchecked(resp, c) == TRUE

\* blocks.NewBlock(resp.RawData).Cid() != c is "unexpected data".
VerifiedCid(resp, c) == resp = c

\* client.Dag(DAG_GET), the CID check and ipld.Decode; setBlock(c, err)
\* passes a decode error through without marking.
GetFetch(g) ==
    LET c == Head(rest[g]) IN
    /\ pc[g] = "get"
    /\ \/ Advance(g, Err)                             \* transport error
       \/ \E resp \in Served(c) :
            IF VerifiedCid(resp, c) /\ resp \notin Undecodable
            THEN /\ pc' = [pc EXCEPT ![g] = "get_mark"]
                 /\ UNCHANGED <<rest, ret>>
            ELSE Advance(g, Err)
    /\ UNCHANGED <<dag, seen, calls, out, size>>

\* setBlock: ds.Put of c's key.
GetMark(g) ==
    /\ pc[g] = "get_mark"
    /\ \/ seen' = seen \cup {Head(rest[g])} /\ Advance(g, Ok)
       \/ UNCHANGED seen /\ Advance(g, Err)           \* ds.Put failed
    /\ UNCHANGED <<dag, calls, out, size>>

(***************************************************************************)
(* AddMany: for each node, the type switch, ipfsSaveProtoNode, then        *)
(* setBlock; the first error returns, leaving the nodes before it added.   *)
(***************************************************************************)
AddSave(g) ==
    LET n == Head(rest[g]) IN
    /\ pc[g] = "add"
    /\ IF n \notin ProtoCids
       THEN Return(g, Err) /\ UNCHANGED dag           \* "Can not add type"
       ELSE \/ /\ dag' = dag \cup {n}
               /\ pc' = [pc EXCEPT ![g] = "add_mark"]
               /\ UNCHANGED <<rest, ret>>
            \/ Return(g, Err) /\ UNCHANGED dag        \* save failed
    /\ UNCHANGED <<seen, calls, out, size>>

AddMark(g) ==
    /\ pc[g] = "add_mark"
    /\ \/ seen' = seen \cup {Head(rest[g])} /\ Advance(g, Ok)
       \/ UNCHANGED seen /\ Return(g, Err)            \* ds.Put failed
    /\ UNCHANGED <<dag, calls, out, size>>

(***************************************************************************)
(* RemoveMany: ds.Delete of each key; the node server is not told.        *)
(***************************************************************************)
RemoveKey(g) ==
    /\ pc[g] = "remove"
    /\ \/ seen' = seen \ {Head(rest[g])} /\ Advance(g, Ok)
       \/ UNCHANGED seen /\ Return(g, Err)            \* ds.Delete failed
    /\ UNCHANGED <<dag, calls, out, size>>

\* HasBlock: ds.Has of the key.
HasBlock(g) ==
    /\ pc[g] = "has"
    /\ \/ Return(g, [has |-> Head(rest[g]) \in seen])
       \/ Return(g, Err)                              \* ds.Has failed
    /\ UNCHANGED <<dag, seen, calls, out, size>>

(***************************************************************************)
(* GetMany's channel.                                                      *)
(***************************************************************************)

\* out <- &ipld.NodeOption{...}: waits while the buffer is full; after the
\* last CID, close(out) and the goroutine ends.
Send(p) ==
    /\ pc[p] = "send" /\ out[p] < size[p]
    /\ out' = [out EXCEPT ![p] = @ + 1]
    /\ IF Tail(rest[p]) = <<>>
       THEN pc' = [pc EXCEPT ![p] = "closed"] /\ rest' = [rest EXCEPT ![p] = <<>>]
       ELSE pc' = [pc EXCEPT ![p] = "get"] /\ rest' = [rest EXCEPT ![p] = Tail(@)]
    /\ UNCHANGED <<dag, seen, ret, calls, size>>

\* The caller's range over the channel: one result, or the end once the
\* channel is closed and drained.
Receive(g) ==
    LET p == <<g, calls[g]>> IN
    /\ pc[g] = "recv"
    /\ \/ out[p] > 0 /\ out' = [out EXCEPT ![p] = @ - 1] /\ UNCHANGED pc
       \/ out[p] = 0 /\ pc[p] = "closed" /\ pc' = [pc EXCEPT ![g] = "idle"]
          /\ UNCHANGED out
    /\ UNCHANGED <<dag, seen, rest, ret, calls, size>>

\* The caller stops ranging (on an error result, or its context ended) and
\* goes on with other calls; nothing reads the channel again.
Abandon(g) ==
    /\ pc[g] = "recv"
    /\ pc' = [pc EXCEPT ![g] = "idle"]
    /\ UNCHANGED <<dag, seen, rest, ret, calls, out, size>>

Init ==
    /\ dag = Remote
    /\ seen = {}
    /\ pc = [a \in Actors |-> IF a \in Callers THEN "idle" ELSE "unstarted"]
    /\ rest = [a \in Actors |-> <<>>]
    /\ ret = [a \in Actors |-> None]
    /\ calls = [g \in Callers |-> 0]
    /\ out = [p \in Producers |-> 0]
    /\ size = [p \in Producers |-> 0]

\* A caller's own steps.
Serve(g) ==
    \/ GetFetch(g) \/ GetMark(g) \/ AddSave(g) \/ AddMark(g)
    \/ RemoveKey(g) \/ HasBlock(g) \/ Receive(g) \/ Abandon(g)

\* The steps of GetMany's goroutine.
Produce(p) == GetFetch(p) \/ GetMark(p) \/ Send(p)

\* Every caller has made its calls and they all returned (GetMany's
\* goroutines may still be running).
Done ==
    /\ \A g \in Callers : pc[g] = "idle" /\ calls[g] = MaxCalls
    /\ UNCHANGED vars

Next == \/ \E g \in Callers : Start(g) \/ Serve(g)
        \/ \E p \in Producers : Produce(p)
        \/ Done

\* The Go scheduler runs a goroutine that can run; the callers are the
\* CRDT layer's and need not go on.
Fairness == \A p \in Producers : WF_vars(Produce(p))

Spec == Init /\ [][Next]_vars /\ Fairness

(***************************************************************************)
(* Properties.                                                             *)
(***************************************************************************)
TypeOK ==
    /\ dag \subseteq Cids /\ seen \subseteq Cids
    /\ pc \in [Actors -> {"idle", "get", "get_mark", "add", "add_mark", "remove",
                          "has", "recv", "unstarted", "send", "closed"}]
    /\ rest \in [Actors -> SeqOf(Cids, MaxBatch)]
    /\ ret \in [Actors -> {Ok, Err, None} \cup [has : BOOLEAN]]
    /\ calls \in [Callers -> 0..MaxCalls]
    /\ out \in [Producers -> 0..MaxBatch] /\ size \in [Producers -> 0..MaxBatch]

\* A block HasBlock reports as processed is one the node server holds
\* (spec 6: the seen set drives the CRDT layer's convergence, and a peer
\* that skips a block as processed must be able to fetch it).  Get marks a
\* block only after fetching bytes that hash to its CID, AddMany only
\* after the node was saved, and failures in between leave the mark unset,
\* whatever other goroutines' calls interleave.
SeenIsStored == seen \subseteq dag

\* No goroutine leak: every goroutine GetMany starts eventually closes its
\* channel and ends, whether its caller reads every result, some, or none.
\* The goroutine sends one result per CID and never waits for the caller
\* only because the channel's buffer holds len(cs) results.
GetManyCloses ==
    \A p \in Producers : pc[p] \in {"get", "get_mark", "send"} ~> pc[p] = "closed"
=============================================================================
