---------------------------- MODULE MCSnapshotJob ----------------------------
(***************************************************************************)
(* Instances of SnapshotJob for TLC.                                       *)
(***************************************************************************)
EXTENDS SnapshotJob
=============================================================================
