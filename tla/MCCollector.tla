---------------------------- MODULE MCCollector -----------------------------
(***************************************************************************)
(* Collector for TLC.  Every constant has its value in the .cfg: three     *)
(* coroutines, so that one opens the circuit while a second sleeps and a   *)
(* third waits for an answer.                                              *)
(***************************************************************************)
EXTENDS Collector
=============================================================================
