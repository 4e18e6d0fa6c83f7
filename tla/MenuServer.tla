------------------------------ MODULE MenuServer ------------------------------
(***************************************************************************)
(* The users' connections: menuServer accepts clients and starts a task    *)
(* for each, the task makes a UserConnection, sends the menu and reads     *)
(* keys, and the event loop sends every menu to all of them (radio-menu.cc *)
(* and .h, MultiWriter in threading.cc).                                   *)
(*                                                                         *)
(* The menu is a number that goes up with every change made to it.  Locks: *)
(* radio_menu, current_channel, MultiWriter's list of writers, and one for *)
(* each writer.  The list is locked by the event loop alone for longer     *)
(* than a step.  Clients are numbered as they are accepted, and so are the *)
(* tasks.  The event loop's changes of channel are in RadioMenu: it does   *)
(* them between two sendings, with none of these locks, and they may keep  *)
(* it for ever; here nothing makes it read its next event.                 *)
(***************************************************************************)
EXTENDS Integers, Sequences

LOCAL INSTANCE SequencesExt

CONSTANTS MaxClients, \* bound on the clients accepted
          MaxMenus,   \* bound on the changes of the menu
          MaxKeys     \* bound on the arrows pressed

ASSUME MenuServerBounds == MaxClients \in Nat /\ MaxMenus \in Nat /\ MaxKeys \in Nat

Clients == 1 .. MaxClients
NoClient == 0
NoMenu == -1

VARIABLES server,         \* menuServer: "accepting", or "closing" after its loop
          new_tcp_stream, \* its variable: the client accepted last
          accepted,       \* how many clients there have been
          left,           \* clients that have hung up
          task,           \* where the task of a client is
          stream,         \* the client it talks to
          message,        \* the menu it is about to send
          streams,        \* MultiWriter: the tasks whose writers are in the list
          menu,           \* radio_menu
          menu_lock,      \* the event loop holds it
          change,         \* where the discoverer is in changing it
          events,         \* keys and MENU_CHANGE events of the event stream
          loop,           \* where the event loop is
          locks,          \* LockedMultiWriter::_locks: the tasks whose writers it holds
          text,           \* the menu it sends
          turn,           \* to which of them it writes next
          buffer,         \* of each client: the last menu in its output buffer
          screen,         \* of each client: the last menu sent
          broken,         \* clients whose buffer was left full by a failed write
          raced,          \* clients whose buffer two threads may have used at once
          short,          \* the last sending stopped at a write error
          keys,           \* counter for the bound
          outcome         \* of the process: "running", "killed", "exited", "undefined"

serverVars == <<server, new_tcp_stream, accepted>>
taskVars == <<task, stream, message, streams>>
loopVars == <<menu_lock, loop, locks, text, turn, short>>
outputVars == <<buffer, screen, broken, raced>>
vars == <<serverVars, taskVars, loopVars, outputVars, left, menu, change, events, keys,
          outcome>>

Init ==
  /\ server = "accepting"
  /\ new_tcp_stream = NoClient
  /\ accepted = 0
  /\ left = {}
  /\ task = [t \in Clients |-> "none"]
  /\ stream = [t \in Clients |-> NoClient]
  /\ message = [t \in Clients |-> NoMenu]
  /\ streams = <<>>
  /\ menu = 0
  /\ menu_lock = FALSE
  /\ change = "idle"
  /\ events = <<>>
  /\ loop = "read"
  /\ locks = <<>>
  /\ text = NoMenu
  /\ turn = 1
  /\ buffer = [c \in Clients |-> NoMenu]
  /\ screen = [c \in Clients |-> NoMenu]
  /\ broken = {}
  /\ raced = {}
  /\ short = FALSE
  /\ keys = 0
  /\ outcome = "running"

\* The list of writers is locked.
ListLocked == loop = "lock"

\* The discoverer holds current_channel.
ChannelLocked == change \in {"set", "listing", "same", "post"}

Holds_WhileReading(t) == task[t] = "locked"

\* The task holds its writer: it is about to read the menu, or to send it.
Holds(t) == task[t] \in {"locked", "message"}

-------------------------------------------------------------------------------
(* menuServer                                                              *)

\* A client is accepted, and its task started; the task will read
\* new_tcp_stream, which it captures by reference.
acceptClient ==
  /\ server = "accepting"
  /\ accepted < MaxClients
  /\ accepted' = accepted + 1
  /\ new_tcp_stream' = accepted + 1
  /\ task' = [task EXCEPT ![accepted + 1] = "ready"]
  /\ UNCHANGED <<server, stream, message, streams, loopVars, outputVars, left, menu,
                 change, events, keys, outcome>>

\* An error of accept: the locals are destroyed, new_tcp_stream first, then
\* the futures, which wait for their tasks.
acceptFails ==
  /\ server = "accepting"
  /\ server' = "closing"
  /\ new_tcp_stream' = NoClient
  /\ UNCHANGED <<accepted, taskVars, loopVars, outputVars, left, menu, change, events, keys,
                 outcome>>

\* The receiver's main catches the error and exits.
exit ==
  /\ server = "closing"
  /\ \A t \in Clients : task[t] \in {"none", "gone"}
  /\ outcome' = "exited"
  /\ UNCHANGED <<serverVars, taskVars, loopVars, outputVars, left, menu, change, events, keys>>

hangUp ==
  /\ \E c \in (1 .. accepted) \ left : left' = left \cup {c}
  /\ UNCHANGED <<serverVars, taskVars, loopVars, outputVars, menu, change, events, keys,
                 outcome>>

-------------------------------------------------------------------------------
(* The task of a client                                                    *)

\* UserConnection begins: the task takes the client that new_tcp_stream holds by
\* now, and telnet::Stream sends its first commands, which may fail.
connect(t) ==
  /\ task[t] = "ready"
  /\ IF new_tcp_stream = NoClient
     THEN outcome' = "undefined" /\ UNCHANGED <<task, stream>>
     ELSE /\ stream' = [stream EXCEPT ![t] = new_tcp_stream]
          /\ \/ task' = [task EXCEPT ![t] = "connected"] /\ UNCHANGED outcome
             \/ /\ new_tcp_stream \in left
                /\ task' = [task EXCEPT ![t] = "gone"]
                /\ outcome' \in {"running", "killed"}
  /\ UNCHANGED <<serverVars, message, streams, loopVars, outputVars, left, menu, change,
                 events, keys>>

addStream(t) ==
  /\ task[t] = "connected"
  /\ ~ListLocked
  /\ streams' = Append(streams, t)
  /\ task' = [task EXCEPT ![t] = "listed"]
  /\ UNCHANGED <<serverVars, stream, message, loopVars, outputVars, left, menu, change,
                 events, keys, outcome>>

lockWriter(t) ==
  /\ task[t] = "listed"
  /\ ~Contains(locks, t)
  /\ task' = [task EXCEPT ![t] = "locked"]
  /\ UNCHANGED <<serverVars, stream, message, streams, loopVars, outputVars, left, menu,
                 change, events, keys, outcome>>

\* menuToString, with the lock of radio_menu held for it.
readMenu(t) ==
  /\ task[t] = "locked"
  /\ ~menu_lock
  /\ message' = [message EXCEPT ![t] = menu]
  /\ task' = [task EXCEPT ![t] = "message"]
  /\ UNCHANGED <<serverVars, stream, streams, loopVars, outputVars, left, menu, change,
                 events, keys, outcome>>

\* The first menu.  A write error leaves the task by ~UserConnection; SIGPIPE,
\* which is not ignored, ends the process.
sendFirst(t) ==
  /\ task[t] = "message"
  /\ \/ /\ screen' = [screen EXCEPT ![stream[t]] = message[t]]
        /\ buffer' = [buffer EXCEPT ![stream[t]] = NoMenu]
        /\ task' = [task EXCEPT ![t] = "input"]
        /\ UNCHANGED <<broken, outcome>>
     \/ /\ stream[t] \in left
        /\ broken' = broken \cup {stream[t]}
        /\ task' = [task EXCEPT ![t] = "leaving"]
        /\ outcome' \in {"running", "killed"}
        /\ UNCHANGED <<screen, buffer>>
  /\ message' = [message EXCEPT ![t] = NoMenu]
  /\ UNCHANGED <<serverVars, stream, streams, loopVars, raced, left, menu, change,
                 events, keys>>

pressKey(t) ==
  /\ task[t] = "input"
  /\ keys < MaxKeys
  /\ keys' = keys + 1
  /\ events' = Append(events, "key")
  /\ UNCHANGED <<serverVars, taskVars, loopVars, outputVars, left, menu, change, outcome>>

\* The answer to a telnet command: written and flushed without the writer's
\* lock, together with what is in the buffer.
sendCommands(t) ==
  LET c == stream[t]
  IN  /\ task[t] = "input"
      /\ c \notin left
      /\ IF buffer[c] = NoMenu THEN UNCHANGED <<screen, buffer>>
         ELSE /\ screen' = [screen EXCEPT ![c] = buffer[c]]
              /\ buffer' = [buffer EXCEPT ![c] = NoMenu]
      /\ raced' = IF loop \in {"write", "flush"} /\ Contains(locks, t) THEN raced \cup {c}
                  ELSE raced
      /\ UNCHANGED <<serverVars, taskVars, loopVars, broken, left, menu, change, events, keys,
                     outcome>>

\* handleUserInput ends, at the end of the stream or by an error: of reading, or of
\* answering a last command, where SIGPIPE ends the process.
endInput(t) ==
  /\ task[t] = "input"
  /\ stream[t] \in left
  /\ task' = [task EXCEPT ![t] = "leaving"]
  /\ outcome' \in {"running", "killed"}
  /\ UNCHANGED <<serverVars, stream, message, streams, loopVars, outputVars, left, menu,
                 change, events, keys>>

\* ~UserConnection: out of the list, then the writer is destroyed, though the
\* event loop may hold its lock.
removeStream(t) ==
  /\ task[t] = "leaving"
  /\ ~ListLocked
  /\ \E i \in DOMAIN streams : streams[i] = t /\ streams' = RemoveAt(streams, i)
  /\ task' = [task EXCEPT ![t] = "gone"]
  /\ outcome' = IF Contains(locks, t) THEN "undefined" ELSE outcome
  /\ UNCHANGED <<serverVars, stream, message, loopVars, outputVars, left, menu, change,
                 events, keys>>

TaskGoesOn(t) ==
  addStream(t) \/ lockWriter(t) \/ readMenu(t) \/ endInput(t) \/ removeStream(t)

-------------------------------------------------------------------------------
(* The menu changes                                                        *)

menuStays == UNCHANGED <<serverVars, taskVars, loopVars, outputVars, left, keys, outcome>>

\* setNewMenu of the discoverer: current_channel is locked, and held to the end; ...
lockChannel ==
  /\ change = "idle" /\ menu < MaxMenus
  /\ change' = "set"
  /\ UNCHANGED <<menu, events>>
  /\ menuStays

\* ... another listing, with radio_menu locked; its active index, with no lock; then the
\* event.  Either changes what is sent; when none does there is nothing to tell.
setListing ==
  /\ change = "set" /\ ~menu_lock
  /\ \/ menu < MaxMenus /\ menu' = menu + 1 /\ change' = "listing"
     \/ menu' = menu /\ change' = "same"
  /\ UNCHANGED events
  /\ menuStays

\* Without stations current_channel is not locked.
setNoMenu ==
  /\ change = "idle" /\ ~menu_lock /\ menu < MaxMenus
  /\ menu' = menu + 1
  /\ change' = "none"
  /\ UNCHANGED events
  /\ menuStays

setActiveIndex ==
  /\ change \in {"listing", "same"}
  /\ \/ (change = "listing" \/ menu = MaxMenus) /\ menu' = menu
     \/ menu < MaxMenus /\ menu' = menu + 1
  /\ change' = "post"
  /\ UNCHANGED events
  /\ menuStays

postMenuChange ==
  /\ change \in {"post", "none"}
  /\ change' = "idle"
  /\ events' = Append(events, "menu")
  /\ UNCHANGED menu
  /\ menuStays

-------------------------------------------------------------------------------
(* The event loop: keys                                                    *)

\* An event is read.  A key takes radio_menu until it is handled.
readEvent ==
  /\ loop = "read"
  /\ events # <<>>
  /\ events' = Tail(events)
  /\ \/ Head(events) = "key" /\ loop' = "key" /\ menu_lock' = TRUE
     \/ Head(events) = "menu" /\ loop' = "send" /\ UNCHANGED menu_lock
  /\ UNCHANGED <<serverVars, taskVars, locks, text, turn, short, outputVars, left, menu,
                 change, keys, outcome>>

\* up and down: the active option becomes another, which is entered, or there is none
\* that way.
moveActive ==
  /\ loop = "key"
  /\ \/ menu < MaxMenus /\ menu' = menu + 1 /\ loop' = "change" /\ UNCHANGED menu_lock
     \/ menu_lock' = FALSE /\ loop' = "send" /\ UNCHANGED menu
  /\ UNCHANGED <<serverVars, taskVars, locks, text, turn, short, outputVars, left, change,
                 events, keys, outcome>>

\* The option's action waits for current_channel, and sets it.
changeChannel ==
  /\ loop = "change"
  /\ ~ChannelLocked
  /\ menu_lock' = FALSE
  /\ loop' = "send"
  /\ UNCHANGED <<serverVars, taskVars, locks, text, turn, short, outputVars, left, menu,
                 change, events, keys, outcome>>

-------------------------------------------------------------------------------
(* The event loop: sendMenu                                                *)

\* sendMenu locks radio_menu, and MultiWriter::lock its list.
lockMenu ==
  /\ loop = "send"
  /\ menu_lock' = TRUE
  /\ loop' = "lock"
  /\ UNCHANGED <<serverVars, taskVars, locks, text, turn, short, outputVars, left, menu,
                 change, events, keys, outcome>>

NextWriter == streams[Len(locks) + 1]

lockNext_TryLock ==
  /\ loop = "lock"
  /\ locks = <<>> /\ streams # <<>>
  /\ locks' = SelectSeq(streams, LAMBDA t : ~Holds(t))
  /\ text' = menu
  /\ loop' = "write"
  /\ UNCHANGED <<serverVars, taskVars, menu_lock, turn, short, outputVars, left, menu,
                 change, events, keys, outcome>>

\* MultiWriter::lock: the next writer of the list, when its task lets go of it.
lockNext ==
  /\ loop = "lock"
  /\ Len(locks) < Len(streams)
  /\ ~Holds(NextWriter)
  /\ locks' = Append(locks, NextWriter)
  /\ UNCHANGED <<serverVars, taskVars, menu_lock, loop, text, turn, short, outputVars, left,
                 menu, change, events, keys, outcome>>

\* All are locked, and the list is let go; the message is made.
makeMessage ==
  /\ loop = "lock"
  /\ Len(locks) = Len(streams)
  /\ text' = menu
  /\ loop' = "write"
  /\ UNCHANGED <<serverVars, taskVars, menu_lock, locks, turn, short, outputVars, left, menu,
                 change, events, keys, outcome>>

Receiver == stream[locks[turn]]

\* LockedMultiWriter::writeBytes, for one writer.  A buffer left full is written
\* past its end.
writeNext ==
  /\ loop = "write"
  /\ turn <= Len(locks)
  /\ buffer' = [buffer EXCEPT ![Receiver] = text]
  /\ turn' = turn + 1
  /\ outcome' \in {outcome} \cup {o \in {"undefined"} : Receiver \in broken}
  /\ UNCHANGED <<serverVars, taskVars, menu_lock, loop, locks, text, short, screen, broken,
                 raced, left, menu, change, events, keys>>

\* LockedMultiWriter::flushOutput, for one writer.
flushNext ==
  /\ loop = "flush"
  /\ turn <= Len(locks)
  /\ screen' = [screen EXCEPT ![Receiver] = IF buffer[Receiver] = NoMenu THEN @
                                            ELSE buffer[Receiver]]
  /\ buffer' = [buffer EXCEPT ![Receiver] = NoMenu]
  /\ turn' = turn + 1
  /\ UNCHANGED <<serverVars, taskVars, menu_lock, loop, locks, text, short, broken, raced,
                 left, menu, change, events, keys, outcome>>

beginFlush ==
  /\ loop = "write"
  /\ turn > Len(locks)
  /\ loop' = "flush"
  /\ turn' = 1
  /\ UNCHANGED <<serverVars, taskVars, menu_lock, locks, text, short, outputVars, left, menu,
                 change, events, keys, outcome>>

\* sendMenu returns, and lets go of the writers and of radio_menu.
Returns ==
  /\ loop' = "read"
  /\ locks' = <<>>
  /\ turn' = 1
  /\ text' = NoMenu
  /\ menu_lock' = FALSE
  /\ UNCHANGED <<serverVars, taskVars, screen, buffer, raced, left, menu, change, events,
                 keys>>

endSend ==
  /\ loop = "flush"
  /\ turn > Len(locks)
  /\ short' = FALSE
  /\ UNCHANGED <<broken, outcome>>
  /\ Returns

writeError_KeepsLock ==
  /\ loop \in {"write", "flush"}
  /\ turn <= Len(locks)
  /\ Receiver \in left
  /\ short' = TRUE
  /\ loop' = "read"
  /\ locks' = <<>>
  /\ turn' = 1
  /\ text' = NoMenu
  /\ UNCHANGED <<serverVars, taskVars, menu_lock, outputVars, left, menu, change, events,
                 keys, outcome>>

\* A client that has hung up: sendMenu catches the error and leaves out the
\* clients that come after; SIGPIPE ends the process.
writeError ==
  /\ loop \in {"write", "flush"}
  /\ turn <= Len(locks)
  /\ Receiver \in left
  /\ short' = TRUE
  /\ broken' = broken \cup {Receiver}
  /\ outcome' \in {"running", "killed"}
  /\ Returns

LoopGoesOn ==
  moveActive \/ changeChannel \/ lockMenu \/ lockNext \/ makeMessage \/ beginFlush \/ endSend

MenuGoesOn == setListing \/ setActiveIndex \/ postMenuChange

-------------------------------------------------------------------------------

Done == outcome # "running" /\ UNCHANGED vars

Next ==
  \/ /\ outcome = "running"
     /\ \/ acceptClient \/ acceptFails \/ exit \/ hangUp
        \/ \E t \in Clients :
             connect(t) \/ sendFirst(t) \/ pressKey(t) \/ sendCommands(t) \/ TaskGoesOn(t)
        \/ lockChannel \/ setNoMenu \/ MenuGoesOn
        \/ readEvent \/ writeNext \/ flushNext \/ writeError \/ LoopGoesOn
  \/ Done

\* Nobody has to come, to leave, to press anything or to take what is written to him,
\* and menus need not change.  A thread that waits for a mutex goes on once it can; one
\* that writes to a client may wait for ever, since nothing limits it.
Spec ==
  /\ Init
  /\ [][Next]_vars
  /\ \A t \in Clients : WF_vars(outcome = "running" /\ TaskGoesOn(t))
  /\ WF_vars(outcome = "running" /\ MenuGoesOn)
  /\ WF_vars(outcome = "running" /\ LoopGoesOn)

-------------------------------------------------------------------------------

Listed == {t \in Clients : task[t] \in {"listed", "locked", "message", "input", "leaving"}}

\* TYPES.  The list has the writers that exist, once each; locks are held where
\* the code is inside their scope.
TypeOK ==
  /\ server \in {"accepting", "closing"}
  /\ new_tcp_stream \in {NoClient, accepted}
  /\ task \in [Clients -> {"none", "ready", "connected", "listed", "locked", "message",
                           "input", "leaving", "gone"}]
  /\ stream \in [Clients -> Clients \cup {NoClient}]
  /\ ToSet(streams) = Listed /\ IsInjective(streams)
  /\ menu_lock = (loop \in {"key", "change", "lock", "write", "flush"})
  /\ outcome = "running" => ToSet(locks) \subseteq Listed /\ IsInjective(locks)
  /\ outcome = "running" => \A t \in ToSet(locks) : ~Holds(t)
  /\ \A c \in Clients : {buffer[c], screen[c]} \subseteq NoMenu .. menu
  /\ broken \subseteq left

\* A client that two tasks have taken, the second accepted before the first
\* had read new_tcp_stream.
Shared(c) == \E t, u \in Clients : t # u /\ stream[t] = c /\ stream[u] = c

Quiet == loop = "read" /\ events = <<>> /\ change = "idle" /\ outcome = "running"

\* SAFETY.  When no menu is on the way any more, every user who has had a first
\* menu has the present one, however joining met with changing and sending: no
\* one falls between the list of writers and the first menu.  (Not after a
\* sending that a write error cut short.)
ScreensAreCurrent ==
  Quiet /\ ~short =>
    \A t \in Clients :
      task[t] = "input" /\ stream[t] \notin left \cup raced /\ ~Shared(stream[t])
        => screen[stream[t]] = menu

\* ACTION.  The menus a user is sent are newer and newer: the first menu, made by the
\* task, never comes after a later one of the event loop, nor does a menu that
\* an earlier sending left in the buffer.
ScreensMoveForward ==
  [][\A c \in Clients : ~Shared(c)' => screen'[c] >= screen[c]]_vars

\* What can keep the locks for ever.  The event loop holds radio_menu and waits for a
\* writer whose task waits for radio_menu; ...
Deadlocked ==
  /\ loop = "lock"
  /\ Len(locks) < Len(streams)
  /\ task[NextWriter] = "locked"

\* ... a key holds radio_menu and waits for current_channel, which the discoverer holds
\* that waits for radio_menu; ...
KeyDeadlocked == loop = "change" /\ change = "set"

\* ... the event loop, with radio_menu and all the writers, writes to a client that takes
\* no more, or a task does with its first menu, whose writer the event loop will wait for.
WriteBlocks ==
  loop \in {"write", "flush"} \/ \E t \in Clients : task[t] = "message"

\* LIVENESS.  Who is in the list gets a first menu, unless one of these lasts for ever:
\* no other order in which the four kinds of locks are taken keeps a newcomer waiting.
ListedAreServed ==
  \/ \A t \in Clients : task[t] = "listed" ~> task[t] \in {"input", "leaving", "gone"}
  \/ <>[]Deadlocked
  \/ <>[]KeyDeadlocked
  \/ <>[]WriteBlocks
  \/ <>(outcome # "running")
===============================================================================
