---------------------------- MODULE MCRefreshQueue ----------------------------
(* The refresh queue on two keys, two concurrent tasks and one producer.   *)
(* The constants are given in the configuration.                           *)
EXTENDS RefreshQueue
=============================================================================
