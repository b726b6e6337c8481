---------------------------- MODULE MCCuCluster ----------------------------
(***************************************************************************)
(* Two clusters of two units for TLC.  Three values of a cu_id for four    *)
(* units stand for the eight values that 13 units have: the last members of*)
(* the second cluster have ids of the first.  Two values stand for 16      *)
(* units, where the base of the second cluster is 0.                       *)
(***************************************************************************)
EXTENDS CuCluster

MCPrograms == { <<"BARRIER">> }
\* Three warps: one of them in a unit without a pipeline.
MCWarps == {1, 3}
MCOneWarp == {1}
=============================================================================
