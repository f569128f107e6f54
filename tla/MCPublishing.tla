---------------------------- MODULE MCPublishing ----------------------------
(***************************************************************************)
(* Publishing for TLC: the .cfg gives every constant its value, with one   *)
(* saga for a platform that has no publisher.                              *)
(***************************************************************************)
EXTENDS Publishing
=============================================================================
