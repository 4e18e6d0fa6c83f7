----------------------------- MODULE MCRadioMenu -----------------------------
(***************************************************************************)
(* Two channels; the station on one of them changes its name, which moves  *)
(* it in the list.  Two replies are not accepted.                          *)
(***************************************************************************)
EXTENDS RadioMenu

CONSTANTS a, b

MCReplies ==
  {[valid |-> TRUE, channel |-> a, name |-> 1], [valid |-> TRUE, channel |-> a, name |-> 3],
   [valid |-> TRUE, channel |-> b, name |-> 2],
   [valid |-> TRUE, channel |-> b, name |-> 0], [valid |-> FALSE, channel |-> b, name |-> 3]}
===============================================================================
