----------------------------- MODULE MCPacketFifo -----------------------------
(***************************************************************************)
(* Seven packets through a store of three, asked for every byte            *)
(* number up to one packet past the last; the input comes in reads of any  *)
(* length.                                                                 *)
(***************************************************************************)
EXTENDS PacketReader

MCMaxBytes == 7 * PSize
MCAsked == 0 .. MCMaxBytes + PSize
===============================================================================
