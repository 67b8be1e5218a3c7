\* Two goroutines, one call each.  c1 is a ProtoNode not yet on the
\* server, c2 a ProtoNode other peers stored, c3 a raw block on the server
\* that ipld.Decode cannot decode: enough for an AddMany to fail part-way
\* on its second node, a Get of a block the server lacks, a Get racing an
\* AddMany or RemoveMany of the same block, and a GetMany of two CIDs
\* whose caller stops reading.  No symmetry: GetManyCloses is liveness.
CONSTANTS
    Callers = {g1, g2}
    Cids = {c1, c2, c3}
    ProtoCids = {c1, c2}
    Undecodable = {c3}
    Remote = {c2, c3}
    MaxCalls = 1
    MaxBatch = 2
    Ok = Ok
    Err = Err
    None = None
SPECIFICATION Spec
INVARIANT SeenIsStored
PROPERTY GetManyCloses
