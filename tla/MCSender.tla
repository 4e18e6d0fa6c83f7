------------------------------- MODULE MCSender -------------------------------
(***************************************************************************)
(* A store of two packets that is overwritten once, and receivers that ask *)
(* for packets of it, for one not produced yet, for one packet twice and   *)
(* for a number that is no packet's.                                       *)
(***************************************************************************)
EXTENDS Sender

MCAsked == 0 .. 6
MCLists == {<<0>>, <<2, 3>>, <<4, 4>>}
===============================================================================
