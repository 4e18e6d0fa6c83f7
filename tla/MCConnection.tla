----------------------------- MODULE MCConnection -----------------------------
(***************************************************************************)
(* All inputs of up to four bytes, of those that matter to either layer;   *)
(* inserted are a negotiation, a bare command, an option that is an        *)
(* escaped IAC, and sub-options that look like an arrow, and like an end.  *)
(* A screen longer than the buffer, one that just fills it and one that is *)
(* shorter are sent while the user's commands are answered, one by one or  *)
(* two in a row, and in the middle of an arrow.                            *)
(***************************************************************************)
EXTENDS Connection

MCBytes == {"IAC", "WILL", "WONT", "DO", "NOP", "SB", "SE", "ESC", "CR", "[", "A", "x"}

MCScreenInputs ==
  {<<"IAC", "DO", "x">>,
   <<"IAC", "DO", "x", "IAC", "WILL", "A", "CR">>,
   <<"IAC", "DO", "x", "ESC", "[", "A", "IAC", "WONT", "A">>}

MCInputs ==
  UNION {[1 .. n -> {"IAC", "WILL", "SB", "SE", "ESC", "[", "A"}] : n \in 0 .. 4}
    \cup MCScreenInputs

MCScreens ==
  {<<>>, <<<<"a1", "a2", "a3", "a4", "a5">>, <<"b1", "b2">>>>,
   <<<<"a1", "a2", "a3", "a4">>>>}

MCCommands ==
  {[type |-> "WILL", options |-> <<"x">>],
   [type |-> "NOP", options |-> <<>>],
   [type |-> "DO", options |-> <<"IAC">>],
   [type |-> "SB", options |-> <<"x", "ESC", "[", "A">>],
   [type |-> "SB", options |-> <<"x", "SE", "IAC", "SE", "A">>]}
===============================================================================
