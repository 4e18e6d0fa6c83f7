------------------------------- MODULE MCPlayer -------------------------------
(***************************************************************************)
(* Three stations.  Two share a port, were started in the same second (so  *)
(* their packets have one session_id) and make packets of one size: the    *)
(* listener of either may put the other's in its buffer.  One of the two   *)
(* has been restarted since, so packets of a later session of it are on    *)
(* the way too, and it has packets of another size.  The third was started *)
(* in that second as well, but has a port of its own.                      *)
(***************************************************************************)
EXTENDS Player

CONSTANTS a, b, c

MCPort == [ch \in Channels |-> IF ch = c THEN 2 ELSE 1]

MCPackets ==
  [fbn : {0, 2, 4}, size : {2}, session : {2}, channel : {a}]
    \cup {[fbn |-> 3, size |-> 3, session |-> 2, channel |-> a],
          [fbn |-> 2, size |-> 2, session |-> 3, channel |-> a],
          [fbn |-> 2, size |-> 2, session |-> 2, channel |-> b],
          [fbn |-> 0, size |-> 2, session |-> 2, channel |-> c]}

\* For liveness: one packet of each station.
MCFewPackets ==
  [fbn : {0}, size : {2}, session : {2}, channel : {a, b}]
===============================================================================
