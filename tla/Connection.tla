------------------------------ MODULE Connection ------------------------------
(***************************************************************************)
(* The output side of a user's connection: the buffer of SystemStream      *)
(* (system-stream.h/.cc) and the writing of telnet::Stream                 *)
(* (telnet-processor.cc), used by two threads at once.                     *)
(*                                                                         *)
(*   loop   the event loop, sending screens (sendMenu)                     *)
(*   task   the connection's own thread, which reads the user's keys       *)
(*          (KeyInput) and answers the telnet commands among them, without *)
(*          the lock the event loop holds                                  *)
(*                                                                         *)
(* A thread's work is a sequence of calls of the stream; a step is one of  *)
(* a call's accesses to buffer_cursor with what depends on it.  A byte     *)
(* written outside the buffer ends the behaviour (outside).  The model     *)
(* starts when the connection has its first menu; how it comes to that,    *)
(* and how it ends, is in MenuServer.                                      *)
(***************************************************************************)
EXTENDS KeyInput

CONSTANTS BufferSize,   \* SystemStream::buffer_size
          Screens,      \* sequences of screens that may be sent, a screen being bytes
          ScreenInputs  \* what the user may send when screens are

ScreenBytes == UNION {UNION {ToSet(ss[i]) : i \in DOMAIN ss} : ss \in Screens}

ASSUME BufferSizeAssumption == BufferSize \in Nat /\ BufferSize >= 3
\* controlPacketBytesValidation keeps other bytes out of stations' names.
ASSUME ScreensAssumption == Screens \subseteq Seq(Seq(STRING \ {IAC}))

\* What the user sends may come back in an answer.
AnswerBytes == {"WONT", "DONT", "none"} \cup UNION {ToSet(bytes) : bytes \in Inputs}

\* The stream treats all bytes but IAC alike, so those of screens are given names of
\* their own, to be told from those of answers.
ASSUME NamesAssumption == ScreenBytes \cap AnswerBytes = {}

VARIABLES output_buffer,
          buffer_cursor,
          wire,      \* the bytes sent to the user
          screens,   \* the screens still to be sent
          calls,     \* the calls each thread has still to make
          loaded,    \* the cursor, or the count sent, that a call goes on with; -1: none
          begun,     \* all bytes of the screens begun so far
          expected,  \* wire, if nothing but the present answers is sent
          mixed,     \* the calls begun last met calls of the other thread
          crossed,   \* a step was taken in the middle of the other's call
          failed,    \* a write failed, or seemed to
          outside    \* a byte was written outside the buffer

outputVars == <<output_buffer, buffer_cursor, wire, loaded>>
workVars == <<screens, begun, expected, mixed>>
connectionVars == <<keyVars, outputVars, workVars, calls, crossed, failed, outside>>

Threads == {"loop", "task"}

Other(w) == CHOOSE v \in Threads : v # w

ConnectionInit ==
  /\ KeyInit
  /\ screens \in Screens
  /\ screens # <<>> => input \in ScreenInputs
  /\ output_buffer = [i \in 0 .. BufferSize - 1 |-> "none"]
  /\ buffer_cursor = 0
  /\ wire = <<>> /\ begun = <<>> /\ expected = <<>>
  /\ calls = [w \in Threads |-> <<>>]
  /\ loaded = [w \in Threads |-> -1]
  /\ mixed = FALSE /\ crossed = FALSE /\ failed = FALSE /\ outside = FALSE

-------------------------------------------------------------------------------
(* What the threads call                                                   *)

\* left is bytes_left of writeBytes.
Call(op, series) == [op |-> op, series |-> series, left |-> Len(series)]

flushOutput == Call("flushOutput", <<>>)

\* telnet::Stream::writeByte
writeByte(byte) ==
  IF byte = IAC THEN Call("writeBytes", <<IAC, IAC>>) ELSE Call("writeByte", <<byte>>)

\* Command::toBytes
commandBytes(command) == <<IAC, command.type, command.option>>

sendCommands_NoFlush(commands) ==
  [i \in DOMAIN commands |-> Call("writeBytes", commandBytes(commands[i]))]

\* The answer to one command, which may be none.
sendCommands(commands) ==
  [i \in DOMAIN commands |-> Call("writeBytes", commandBytes(commands[i]))] \o <<flushOutput>>

Begins(w, work) ==
  /\ calls[w] = <<>>
  /\ calls' = [calls EXCEPT ![w] = work]
  /\ mixed' = (calls[Other(w)] # <<>>)
  /\ UNCHANGED <<outputVars, crossed, failed, outside>>

\* sendMenu: telnet::Stream::writeBytes, which goes byte by byte, and flushOutput.
sendMenu ==
  /\ open
  /\ screens # <<>>
  /\ LET screen == Head(screens)
     IN  /\ Begins("loop", [i \in DOMAIN screen |-> writeByte(screen[i])] \o <<flushOutput>>)
         /\ begun' = begun \o screen
  /\ screens' = Tail(screens)
  /\ UNCHANGED <<keyVars, expected>>

\* The task reads the next key and, first, answers the commands before it.
readKey ==
  /\ handleKey
  /\ LET new == nextKey(input, pos).commands
         answers == [i \in DOMAIN new |-> response(new[i])]
     IN  /\ Begins("task", FlattenSeq([i \in DOMAIN answers |-> sendCommands(answers[i])]))
         /\ LET all == FlattenSeq(answers)
            IN  expected' = wire \o FlattenSeq([i \in DOMAIN all |-> commandBytes(all[i])])
  /\ UNCHANGED <<screens, begun>>

-------------------------------------------------------------------------------
(* SystemStream                                                            *)

\* A step of the call w is making; it goes on with these calls.
Goes(w, op, on) ==
  /\ calls[w] # <<>>
  /\ Head(calls[w]).op = op
  /\ calls' = [calls EXCEPT ![w] = on \o Tail(@)]
  /\ crossed' = (crossed \/ loaded[Other(w)] # -1)
  /\ UNCHANGED workVars

\* The bytes are stored from a place on, unless that goes past the end.
Store(series, at) ==
  /\ outside' = (at + Len(series) > BufferSize)
  /\ output_buffer' =
       [i \in DOMAIN output_buffer |->
          IF i \in at .. at + Len(series) - 1 THEN series[i - at + 1] ELSE output_buffer[i]]

\* writeByte, up to the address of the byte.
readCursor(w) ==
  /\ loaded[w] = -1
  /\ Goes(w, "writeByte", <<Head(calls[w])>>)
  /\ loaded' = [loaded EXCEPT ![w] = buffer_cursor]
  /\ UNCHANGED <<keyVars, output_buffer, buffer_cursor, wire, failed, outside>>

IfFull_Late(cursor) == IF cursor > BufferSize THEN <<flushOutput>> ELSE <<>>

IfFull(cursor) == IF cursor = BufferSize THEN <<flushOutput>> ELSE <<>>

\* The byte is stored and the cursor moved on; a full buffer is flushed.
storeByte(w) ==
  /\ loaded[w] # -1
  /\ Goes(w, "writeByte", IfFull(loaded[w] + 1))
  /\ Store(Head(calls[w]).series, loaded[w])
  /\ buffer_cursor' = loaded[w] + 1
  /\ loaded' = [loaded EXCEPT ![w] = -1]
  /\ UNCHANGED <<keyVars, wire, failed>>

Room == BufferSize - buffer_cursor

\* writeBytes, an iteration of its loop: as much as there is room for is copied,
\* each time from the beginning of the series, and flushed.
fillBuffer(w) ==
  LET call == Head(calls[w])
  IN  /\ Goes(w, "writeBytes", <<flushOutput, [call EXCEPT !.left = @ - Room]>>)
      /\ call.left > Room
      /\ Store(SubSeq(call.series, 1, Room), buffer_cursor)
      /\ buffer_cursor' = BufferSize
      /\ UNCHANGED <<keyVars, wire, loaded, failed>>

\* writeBytes, after its loop: the whole series is copied.
copySeries(w) ==
  LET call == Head(calls[w])
  IN  /\ Goes(w, "writeBytes", <<>>)
      /\ call.left <= Room
      /\ Store(call.series, buffer_cursor)
      /\ buffer_cursor' = buffer_cursor + Len(call.series)
      /\ UNCHANGED <<keyVars, wire, loaded, failed>>

\* flushOutput: write sends all there is up to the cursor.
write(w) ==
  /\ loaded[w] = -1
  /\ Goes(w, "flushOutput", <<flushOutput>>)
  /\ wire' = wire \o [i \in 1 .. buffer_cursor |-> output_buffer[i - 1]]
  /\ loaded' = [loaded EXCEPT ![w] = buffer_cursor]
  /\ UNCHANGED <<keyVars, output_buffer, buffer_cursor, failed, outside>>

flushed_NoReset(w) ==
  /\ loaded[w] = buffer_cursor
  /\ Goes(w, "flushOutput", <<>>)
  /\ loaded' = [loaded EXCEPT ![w] = -1]
  /\ UNCHANGED <<keyVars, output_buffer, buffer_cursor, wire, failed, outside>>

flushed(w) ==
  /\ loaded[w] = buffer_cursor
  /\ Goes(w, "flushOutput", <<>>)
  /\ buffer_cursor' = 0
  /\ loaded' = [loaded EXCEPT ![w] = -1]
  /\ UNCHANGED <<keyVars, output_buffer, wire, failed, outside>>

\* An exception ends what the thread was doing, with the cursor left where it is.  It
\* ends the task and with it the connection; sendMenu goes on with the next menu.
Throws(w) ==
  /\ calls[w] # <<>> /\ Head(calls[w]).op = "flushOutput"
  /\ calls' = [calls EXCEPT ![w] = <<>>]
  /\ loaded' = [loaded EXCEPT ![w] = -1]
  /\ failed' = TRUE
  /\ open' = (open /\ w = "loop")
  /\ UNCHANGED <<input, pos, handled, sent, posted, output_buffer, buffer_cursor,
                 workVars, crossed, outside>>

\* write sends less, or nothing.
writeFails(w) ==
  /\ loaded[w] = -1
  /\ \E count \in 0 .. buffer_cursor - 1 :
       wire' = wire \o [i \in 1 .. count |-> output_buffer[i - 1]]
  /\ Throws(w)

\* The count sent is no longer the cursor.
cursorMoved(w) ==
  /\ loaded[w] \notin {-1, buffer_cursor}
  /\ Throws(w)
  /\ UNCHANGED wire

Writes(w) ==
  \/ readCursor(w) \/ storeByte(w) \/ fillBuffer(w) \/ copySeries(w)
  \/ write(w) \/ flushed(w) \/ writeFails(w) \/ cursorMoved(w)

\* The task has ended and removed the connection.
Ended == ~open /\ calls["task"] = <<>>

ConnectionNext ==
  /\ ~Ended /\ ~outside
  /\ sendMenu \/ readKey \/ \E w \in Threads : Writes(w)

ConnectionSpec == ConnectionInit /\ [][ConnectionNext]_connectionVars

-------------------------------------------------------------------------------

\* Sent, or in the buffer.
Arrived ==
  wire \o IF \E w \in Threads : loaded[w] # -1 /\ Head(calls[w]).op = "flushOutput"
          THEN <<>>
          ELSE [i \in 1 .. buffer_cursor |-> output_buffer[i - 1]]

\* Those of the bytes that are of screens.
OfScreens(bytes) ==
  FlattenSeq([i \in DOMAIN bytes |-> IF bytes[i] \in ScreenBytes THEN <<bytes[i]>> ELSE <<>>])

ToCome ==
  FlattenSeq([i \in DOMAIN calls["loop"] |->
                IF calls["loop"][i].op = "writeByte" THEN calls["loop"][i].series ELSE <<>>])

\* SAFETY.  Wherever answers come in between, a screen of any length gets through the
\* buffer byte by byte, none lost, repeated or out of order; unless a call was made
\* right in the middle of another, or a write failed.
ScreensInOrder ==
  ~crossed /\ ~failed /\ ~outside =>
    OfScreens(Arrived) \o ToCome = begun

\* ACTION.  Answers that are made while no screen is being sent go to the user at once,
\* whole, and nothing else with them, whatever was sent before.
AnswersWhole ==
  [][calls["task"] # <<>> /\ calls'["task"] = <<>> /\ ~mixed /\ ~failed'
       => wire' = expected]_connectionVars

\* SAFETY.  A byte is written outside the buffer only when an answer meets a screen, or
\* after a failed write: alone, neither screens nor answers leave the cursor where
\* the next byte has no room.
WithinBuffer == outside => mixed \/ failed
===============================================================================
