---------------------------- MODULE MCKeyedCache ----------------------------
(***************************************************************************)
(* Instances of KeyedCache for TLC.                                        *)
(***************************************************************************)
EXTENDS KeyedCache
=============================================================================
