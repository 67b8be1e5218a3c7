---------------------------- MODULE MC_Multipart ----------------------------
(***************************************************************************)
(* Model of Multipart for TLC.  Goroutines, buckets and ids are model      *)
(* values; only membership of Existing tells buckets apart.                *)
(***************************************************************************)
EXTENDS Multipart, TLC

MCUploadOps  == {"new", "part", "abort", "exists", "parts", "objwrite"}
MCRaceOps    == {"new", "abort"}
MCLeakOps    == {"new", "objwrite"}

MCSymmetry == Permutations(Threads) \cup Permutations(Ids)
=============================================================================
