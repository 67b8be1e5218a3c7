---------------------------- MODULE MC_DagSyncer ----------------------------
(***************************************************************************)
(* Model of DagSyncer for TLC.  The constants are given in the .cfg.  No   *)
(* symmetry set: the run checks the liveness of GetMany's goroutines, and  *)
(* TLC's symmetry reduction is not sound for liveness.  Blocks are not     *)
(* symmetric anyway: they differ in being ProtoNodes, decodable, or        *)
(* already on the server.                                                  *)
(***************************************************************************)
EXTENDS DagSyncer, TLC
=============================================================================
