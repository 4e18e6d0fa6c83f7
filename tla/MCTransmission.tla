---------------------------- MODULE MCTransmission ----------------------------
(***************************************************************************)
(* Two stations on computers of either endianness, one of which may be     *)
(* started again.  At one port their packets have one size, and they may   *)
(* be started in one second; at ports of their own the second makes        *)
(* packets that are longer than a datagram has room for.  Numbers need the *)
(* high half of their bytes, and a request for two packets is cut.         *)
(***************************************************************************)
EXTENDS Transmission

MCStations == {"s", "t"}

MCHost == [s |-> "little", t |-> "big", receiver |-> "little"]

MCSettings ==
  {[port |-> [s |-> 1, t |-> 1], psize |-> [s |-> 2, t |-> 2],
    packets |-> [s |-> 3, t |-> 2], runs |-> [s |-> 2, t |-> 1]],
   [port |-> [s |-> 1, t |-> 2], psize |-> [s |-> 1, t |-> 3],
    packets |-> [s |-> 4, t |-> 3], runs |-> [s |-> 1, t |-> 2]]}
===============================================================================
