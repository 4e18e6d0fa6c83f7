----------------------------- MODULE MCEventStream ----------------------------
(***************************************************************************)
(* The program has one reader; two of them show what access_mutex is for.  *)
(***************************************************************************)
EXTENDS EventStream
===============================================================================
