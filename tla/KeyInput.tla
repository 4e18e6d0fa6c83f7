------------------------------- MODULE KeyInput -------------------------------
(***************************************************************************)
(* What a connection makes of the bytes its user sends: telnet::Stream     *)
(* takes out and answers the telnet commands (telnet-processor.cc and the  *)
(* InteractiveCmdHandler of radio-menu.h), terminal::KeyStream makes keys  *)
(* of the other bytes (terminal.cc), and handleUserInput posts the arrows  *)
(* (radio-menu.cc).                                                        *)
(*                                                                         *)
(* Each reader is a function of the bytes and of the position it starts    *)
(* at; it gives what it read, the position after, and the commands sent.   *)
(* The end of the bytes is Eof, an exception in the code, caught only in   *)
(* KeyStream.                                                              *)
(***************************************************************************)
EXTENDS Integers, SequencesExt

CONSTANTS Bytes,      \* told apart by what the code does with them
          Inputs,     \* sequences of bytes that a user may send
          Commands,   \* telnet commands, with .options, an option and its sub-options
          Eof

ASSUME BytesAssumption ==
  {"IAC", "SE", "ESC", "[", "A"} \subseteq Bytes /\ Eof \notin Bytes \cup {"none"}
ASSUME InputsAssumption == Inputs \subseteq Seq(Bytes)
ASSUME CommandsAssumption ==
  \A c \in Commands :
    /\ c.type \in Bytes \ {"IAC"} /\ c.options \in Seq(Bytes)
    /\ c.type \in {"WILL", "WONT", "DO", "DONT"} => Len(c.options) = 1
    /\ c.type = "SB" => c.options # <<>>
    /\ c.type \notin {"WILL", "WONT", "DO", "DONT", "SB"} => c.options = <<>>

IAC == "IAC"
Printable == {"[", "A", "B", "C", "D", "x", "LINEMODE"}
Arrows == [A |-> "ARROW_UP", B |-> "ARROW_DOWN", C |-> "ARROW_RIGHT", D |-> "ARROW_LEFT"]

VARIABLES input,      \* all that the user sends, before the connection ends
          pos,        \* the next byte to be read
          handled,    \* telnet commands received
          sent,       \* telnet commands sent
          posted,     \* keys posted to the event loop
          open        \* handleUserInput goes on

keyVars == <<input, pos, handled, sent, posted, open>>

Command(type, option) == [type |-> type, option |-> option]

KeyInit ==
  /\ input \in Inputs
  /\ pos = 1
  /\ handled = <<>>
  /\ sent = <<Command("WILL", "ECHO"), Command("DO", "LINEMODE")>>
  /\ posted = <<>>
  /\ open = TRUE

-------------------------------------------------------------------------------
(* telnet::Stream                                                          *)

End(bytes) == Len(bytes) + 1

AtEof(bytes) == [tag |-> "eof", value |-> Eof, next |-> End(bytes)]

\* A byte, or the two bytes of an IAC: IAC itself, or the first of a command.
readEscaped(bytes, p) ==
  CASE p = End(bytes) -> AtEof(bytes)
    [] p < End(bytes) /\ bytes[p] # IAC ->
         [tag |-> "data", value |-> bytes[p], next |-> p + 1]
    [] p = End(bytes) - 1 /\ bytes[p] = IAC -> AtEof(bytes)
    [] p < End(bytes) - 1 /\ bytes[p] = IAC ->
         [tag |-> IF bytes[p + 1] = IAC THEN "data" ELSE "command",
          value |-> bytes[p + 1], next |-> p + 2]

EndsSubOptions_Escaped(byte) == byte.value = "SE"

\* process_sb: sub-options go on to the first SE that an IAC comes before.
EndsSubOptions(byte) == byte.tag = "command" /\ byte.value = "SE"

SubOptionsEnd(bytes, start) ==
  LET end[p \in 1 .. End(bytes)] ==
        LET From(byte) ==
              IF byte.tag = "eof" \/ EndsSubOptions(byte) THEN byte ELSE end[byte.next]
        IN  From(readEscaped(bytes, p))
  IN  end[start]

\* goThroughCommand, but for the answer: the option, with or without IAC, and
\* what comes after it.  Of other commands there is nothing more.
ThroughCommand(bytes, type, p) ==
  LET option == readEscaped(bytes, p)
  IN  CASE type \in {"WILL", "WONT", "DO", "DONT"} ->
             [value |-> option.value, next |-> option.next]
        [] type = "SB" ->
             IF option.tag = "eof" THEN [value |-> Eof, next |-> option.next]
             ELSE LET last == SubOptionsEnd(bytes, option.next)
                  IN  [value |-> IF last.tag = "eof" THEN Eof ELSE option.value,
                       next |-> last.next]
        [] OTHER -> [value |-> "none", next |-> p]

\* The next byte that belongs to no command, after the commands before it.
readByte(bytes, start) ==
  LET read[p \in 1 .. End(bytes)] ==
        LET After(type, through) ==
              IF through.value = Eof
              THEN [value |-> Eof, next |-> through.next, commands |-> <<>>]
              ELSE [read[through.next]
                      EXCEPT !.commands = <<Command(type, through.value)>> \o @]
            From(byte) ==
              IF byte.tag # "command"
              THEN [value |-> byte.value, next |-> byte.next, commands |-> <<>>]
              ELSE After(byte.value, ThroughCommand(bytes, byte.value, byte.next))
        IN  From(readEscaped(bytes, p))
  IN  read[start]

\* InteractiveCmdHandler: the answer to a command, if there is one.
response(c) ==
  CASE c.type \in {"DO", "DONT"} /\ c.option # "ECHO" -> <<Command("WONT", c.option)>>
    [] c.type \in {"WILL", "WONT"} /\ c.option # "LINEMODE" -> <<Command("DONT", c.option)>>
    [] OTHER -> <<>>

-------------------------------------------------------------------------------
(* terminal::KeyStream                                                     *)

KeyOf_CsiDropped(state, byte) ==
  IF byte = Eof THEN "END_OF_STREAM"
  ELSE CASE byte \in Printable -> "PRINTABLE"
         [] state = "none" /\ byte = "ESC" -> "escape"
         [] state = "none" /\ byte = "CR" -> "ENTER"
         [] OTHER -> "none"

\* The key that a byte makes, after the bytes before it ("none" of them yet):
\* a key, "none" when nextKey begins again, or the place of an escape sequence.
KeyOf(state, byte) ==
  IF byte = Eof THEN "END_OF_STREAM"
  ELSE CASE state = "none" /\ byte \in Printable -> "PRINTABLE"
         [] state = "none" /\ byte = "ESC" -> "escape"
         [] state = "none" /\ byte = "CR" -> "ENTER"
         [] state = "escape" /\ byte = "[" -> "csi"
         [] state = "csi" /\ byte \in DOMAIN Arrows -> Arrows[byte]
         [] OTHER -> "none"

Places == {"none", "escape", "csi"}

\* A key is made of as many bytes as it takes, from any place on.
KeyFrom(bytes, start) ==
  LET from[p \in 1 .. End(bytes)] ==
        LET With(byte, key) ==
              IF key \in Places
              THEN [from[byte.next][key] EXCEPT !.commands = byte.commands \o @]
              ELSE [key |-> key, next |-> byte.next, commands |-> byte.commands]
            From(byte) == [state \in Places |-> With(byte, KeyOf(state, byte.value))]
        IN  From(readByte(bytes, p))
  IN  from[start]

nextKey(bytes, p) == KeyFrom(bytes, p)["none"]

-------------------------------------------------------------------------------
(* handleUserInput                                                         *)

handleKey ==
  /\ open
  /\ \E key \in {nextKey(input, pos)} :
       /\ pos' = key.next
       /\ handled' = handled \o key.commands
       /\ sent' = sent \o FlattenSeq([i \in DOMAIN key.commands |-> response(key.commands[i])])
       /\ posted' = IF key.key \in {"ARROW_UP", "ARROW_DOWN"} THEN Append(posted, key.key)
                    ELSE posted
       /\ open' = (key.key # "END_OF_STREAM")
  /\ UNCHANGED input

-------------------------------------------------------------------------------

\* A telnet command as it is sent, every IAC in its option and sub-options doubled.
Doubled(bytes) ==
  FlattenSeq([i \in DOMAIN bytes |->
                IF bytes[i] = IAC THEN <<IAC, IAC>> ELSE <<bytes[i]>>])

AsSent(command) ==
  <<IAC, command.type>> \o Doubled(command.options)
    \o IF command.type = "SB" THEN <<IAC, "SE">> ELSE <<>>

\* Positions between two bytes that belong to no command.
BoundariesFrom(bytes, start) ==
  LET from[p \in 1 .. End(bytes)] ==
        LET After(byte) == IF byte.value = Eof THEN {} ELSE from[byte.next]
        IN  {p} \cup After(readByte(bytes, p))
  IN  from[start]

\* All keys, up to the end.
KeysFrom(bytes, start) ==
  LET from[p \in 1 .. End(bytes)] ==
        LET From(key) ==
              <<key.key>> \o IF key.key = "END_OF_STREAM" THEN <<>> ELSE from[key.next]
        IN  From(nextKey(bytes, p))
  IN  from[start]

WithCommand(command, p) ==
  SubSeq(input, 1, p - 1) \o AsSent(command) \o SubSeq(input, p, Len(input))

\* SAFETY.  Commands are invisible to the keys: wherever one comes, in the middle
\* of an escape sequence too, the keys are those of the bytes without it, and
\* nothing in its option or sub-options is taken for a key.
CommandsInvisible ==
  pos = 1 =>
    \A p \in BoundariesFrom(input, 1), command \in Commands :
      KeysFrom(WithCommand(command, p), 1) = KeysFrom(input, 1)

Up == <<"ESC", "[", "A">>

\* SAFETY.  Whatever came before, an unfinished command or escape sequence too,
\* costs the user one arrow at most: pressed twice, it is the last key there is.
\* (Only sub-options, which their sender has to end, may take more.)
ArrowsResynchronise ==
  pos = 1 /\ (\A i \in DOMAIN input : input[i] # "SB") =>
    \A keys \in {KeysFrom(input \o Up \o Up, 1)} : keys[Len(keys) - 1] = "ARROW_UP"
===============================================================================
