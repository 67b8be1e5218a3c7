---------------------------- MODULE MC_S3xLedger ----------------------------
(***************************************************************************)
(* Model of S3xLedger for TLC: two request goroutines, two buckets and two *)
(* objects; copies between the two buckets take both branches of          *)
(* CopyObject's lock ordering.  Each run picks the kinds of request the    *)
(* clients send, so that each question is asked of a model TLC can        *)
(* exhaust.                                                                *)
(***************************************************************************)
EXTENDS S3xLedger, TLC

MCBuckets  == {<<1>>, <<2>>}
MCObjects  == {<<1>>, <<2>>}
MCPrefixes == {<<>>, <<1>>}
\* Lock progress depends on buckets, not on object names.
MCOneObject   == {<<1>>}
MCNoPrefix    == {<<>>}

\* Requests that write a bucket record.
MCWriteOps == {"put", "copy", "delete", "deletes", "makebucket", "deletebucket"}
\* Readers and the two-lock writer, for progress.
MCProgressOps == {"put", "copy", "get", "list"}
\* What a listing returns after puts.
MCListOps == {"put", "list"}

MCThreadSymmetry == Permutations(Threads)
=============================================================================
