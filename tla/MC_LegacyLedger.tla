--------------------------- MODULE MC_LegacyLedger ---------------------------
(***************************************************************************)
(* Model of LegacyLedger for TLC.  Bucket and object names are model       *)
(* values: the legacy handlers never compare or order names, so they are   *)
(* symmetric, as are the request goroutines.                               *)
(***************************************************************************)
EXTENDS LegacyLedger, TLC

MCAllOps   == {"put", "copy", "delete", "deletes", "makebucket", "deletebucket",
               "get", "head", "getn", "list", "listv2"}
MCPutOps    == {"put"}
MCListOps   == {"put", "listv2"}

MCSymmetry == Permutations(Threads) \cup Permutations(Buckets)
                \cup Permutations(Objects)
=============================================================================
