-------------------------- MODULE MCConfigPipeline --------------------------
(***************************************************************************)
(* Small instances of ConfigPipeline; the workloads name the transactions  *)
(* an instance allows.                                                     *)
(***************************************************************************)
EXTENDS ConfigPipeline, TLC

AllOperations == {"create", "create inactive", "update", "update inactive", "activate",
                  "deactivate", "end of day", "delete"}
InactiveOperations == {"create inactive", "update inactive"}
ToggleOperations == {"create", "activate", "deactivate"}
DeleteOperations == {"create", "activate", "delete"}
CreateDelete == {"create", "delete"}

Symmetry == Permutations(Partitions)
=============================================================================
