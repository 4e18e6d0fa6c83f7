---------------------------- MODULE MCAudioBuffer -----------------------------
(***************************************************************************)
(* Packets of two sizes: of 2 bytes, of which a buffer of 6 bytes holds 3, *)
(* and of 7 bytes, for which it has no room at all (a size of 0).  The     *)
(* numbers reach past two fillings, and an empty packet can arrive.        *)
(***************************************************************************)
EXTENDS AudioBuffer

MCPackets ==
  [fbn : {0, 2, 4, 6, 8, 10}, size : {2}] \cup [fbn : {0, 7, 21}, size : {7}]
    \cup {[fbn |-> 0, size |-> 0]}
===============================================================================
