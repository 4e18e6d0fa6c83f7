----------------------------- MODULE MCMenuServer -----------------------------
(***************************************************************************)
(* Two clients, so that one can come while the menu is sent to the other.  *)
(***************************************************************************)
EXTENDS MenuServer
===============================================================================
