------------------------------ MODULE Listing ------------------------------
(***************************************************************************)
(* Object-name ordering and the name selection done by GetObjectInfos      *)
(* (gateway-s3x-object.go), the listing path behind ListObjects and        *)
(* ListObjectsV2.  A name is a sequence of byte values, so that            *)
(* strings.HasPrefix and strings.Compare are modelled by what they do.     *)
(***************************************************************************)
EXTENDS Integers, Sequences, FiniteSets
LOCAL INSTANCE SequencesExt

\* Bytewise lexicographic order of Go strings: a < b.
RECURSIVE LexLess(_, _)
LexLess(a, b) ==
    IF b = <<>> THEN FALSE
    ELSE IF a = <<>> THEN TRUE
    ELSE IF Head(a) # Head(b) THEN Head(a) < Head(b)
    ELSE LexLess(Tail(a), Tail(b))

\* strings.Compare(a, b): -1, 0 or +1.
StrCompare(a, b) ==
    CASE a = b         -> 0
      [] LexLess(a, b) -> -1
      [] OTHER         -> 1

\* strings.HasPrefix(name, prefix).
HasPrefix(name, prefix) == IsPrefix(prefix, name)

(***************************************************************************)
(* GetObjectInfos, the names it returns: keep the names that have the      *)
(* prefix and pass the startsFrom test, sort them, truncate to max when    *)
(* max > 0.                                                                *)
(***************************************************************************)
SelectNames(names, prefix, startsFrom, max) ==
    LET kept   == {n \in names : HasPrefix(n, prefix)
                                 /\ StrCompare(startsFrom, n) >= 0}
        sorted == SetToSortSeq(kept, LexLess)
    IN  IF max > 0 /\ Len(sorted) > max THEN SubSeq(sorted, 1, max)
                                          ELSE sorted

(***************************************************************************)
(* The listing the specification promises (spec 4.5 ListObjects): the      *)
(* names with the prefix that are after startAfter (when it is not empty), *)
(* in ascending order, at most max of them when max > 0.  Written by rank, *)
(* independently of SelectNames.                                           *)
(***************************************************************************)
SpecSelect(names, prefix, startAfter, max) ==
    LET kept == {n \in names : HasPrefix(n, prefix)
                               /\ (startAfter = <<>> \/ LexLess(startAfter, n))}
        rank(n) == Cardinality({m \in kept : LexLess(m, n)})
        k == IF max > 0 /\ max < Cardinality(kept) THEN max
                                                    ELSE Cardinality(kept)
    IN  [i \in 1..k |-> CHOOSE n \in kept : rank(n) = i - 1]
=============================================================================
