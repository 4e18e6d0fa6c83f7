--------------------------- MODULE MenuServerProofs --------------------------
(***************************************************************************)
(* Proofs about MenuServer, for any number of clients, of changes of the   *)
(* menu and of keys: who has had a first menu has the present one when     *)
(* none is on the way, and no user is sent an older menu after a newer.    *)
(***************************************************************************)
EXTENDS MenuServer, SequenceTheorems, TLAPS

LOCAL INSTANCE SequencesExt

ListedStates == {"listed", "locked", "message", "input", "leaving"}

\* The event loop is in sendMenu, with radio_menu locked.
Inside == {"lock", "write", "flush"}

\* The event loop is between two sendings, perhaps with a key.
Between == {"read", "key", "change", "send"}

\* The types the proofs need; and radio_menu's lock.
StateInv ==
  /\ accepted \in 0 .. MaxClients
  /\ new_tcp_stream \in 0 .. accepted
  /\ task \in [Clients -> {"none", "ready", "connected", "gone"} \cup ListedStates]
  /\ stream \in [Clients -> 0 .. MaxClients]
  /\ message \in [Clients -> Int]
  /\ buffer \in [Clients -> Int]
  /\ screen \in [Clients -> Int]
  /\ streams \in Seq(Clients)
  /\ locks \in Seq(Clients)
  /\ events \in Seq({"key", "menu"})
  /\ menu \in Nat
  /\ text \in Nat \cup {NoMenu}
  /\ turn \in Nat \ {0}
  /\ change \in {"idle", "set", "listing", "same", "none", "post"}
  /\ loop \in Inside \cup Between
  /\ menu_lock <=> loop \in Inside \cup {"key", "change"}

InList(t) == \E i \in DOMAIN streams : streams[i] = t
InLocks(t) == \E i \in DOMAIN locks : locks[i] = t

\* MultiWriter's list has the writer of every task from addStream to removeStream,
\* and a task that has got that far has a client; there are as many tasks as were
\* accepted.
ListInv ==
  /\ \A t \in Clients : t > accepted => task[t] = "none"
  /\ \A t \in Clients : task[t] \in ListedStates => InList(t)
  /\ \A t \in Clients : task[t] \in {"none", "ready"} <=> stream[t] = NoClient
  /\ \A t \in Clients :
       InList(t) \/ InLocks(t) => task[t] \notin {"none", "ready", "connected"}
  /\ \A i, j \in DOMAIN streams : streams[i] = streams[j] => i = j

\* The writers are locked in the order of the list, none that its task holds; once
\* the message is made, the writer of everyone is who has had a first menu: no one
\* can have got it since, for the menu is locked.
LocksInv ==
  /\ loop \in Between => locks = <<>>
  /\ loop \in Between \cup {"lock"} => turn = 1
  /\ loop = "lock" => /\ Len(locks) <= Len(streams)
                      /\ \A i \in DOMAIN locks : locks[i] = streams[i]
  /\ \A i, j \in DOMAIN locks : locks[i] = locks[j] => i = j
  /\ \A t \in Clients : InLocks(t) => ~Holds(t)
  /\ loop \in {"write", "flush"} =>
       \A t \in Clients : task[t] \in {"message", "input", "leaving"} => InLocks(t)

\* The event loop has read all there is to know of the menu's changes.
Told == change = "idle" /\ events = <<>>

\* No menu is newer than the present one.  The one that is sent is newer than all
\* that have been before, and the present one if no change is under way; a task that
\* holds its writer has the present menu unless the event loop will wait for it.
NewestInv ==
  /\ \A c \in Clients : screen[c] <= menu /\ buffer[c] <= menu
  /\ \A t \in Clients : message[t] <= menu
  /\ loop \in {"write", "flush"} =>
       /\ text \in 0 .. menu
       /\ Told => text = menu
       /\ \A c \in Clients : screen[c] <= text /\ buffer[c] <= text
  /\ \A t \in Clients : task[t] = "message" /\ Told /\ loop = "read" => message[t] = menu

\* What is about to be sent to a client of one task is no older than its screen.
ForwardInv ==
  /\ \A c \in Clients : ~Shared(c) => buffer[c] = NoMenu \/ screen[c] <= buffer[c]
  /\ \A t \in Clients :
       task[t] = "message" /\ ~Shared(stream[t]) => screen[stream[t]] <= message[t]

\* The tasks ScreensAreCurrent is about.
Counts(t) == task[t] = "input" /\ stream[t] \notin left \cup raced /\ ~Shared(stream[t])

\* Between two sendings their clients' buffers are empty and, if nothing has changed since,
\* their screens current; in a sending, those that have had their turn have the text.
Served(t) ==
  /\ loop \in Between \cup {"lock"} /\ ~short =>
       /\ buffer[stream[t]] = NoMenu
       /\ Told /\ loop = "read" => screen[stream[t]] = menu
  /\ \A i \in DOMAIN locks : locks[i] = t =>
       /\ loop = "write" /\ i < turn => buffer[stream[t]] = text
       /\ loop = "flush" /\ i >= turn => buffer[stream[t]] = text
       /\ loop = "flush" /\ i < turn =>
            buffer[stream[t]] = NoMenu /\ screen[stream[t]] = text

ScreenInv == \A t \in Clients : Counts(t) => Served(t)

\* The inductive invariant: what holds while the process runs.
Inv == StateInv /\ ListInv /\ LocksInv /\ NewestInv /\ ForwardInv /\ ScreenInv
IInv == outcome = "running" => Inv

LEMMA InitInv == Init => IInv
<1> SUFFICES ASSUME Init PROVE Inv
  BY DEF IInv
<1>1. StateInv
  <2>1. MaxClients \in Nat
    BY MenuServerBounds
  <2>2. QED  BY <2>1 DEF Init, StateInv, Clients, NoClient, NoMenu, Inside, Between
<1>2. ListInv
  BY DEF Init, ListInv, InList, InLocks, ListedStates, NoClient
<1>3. LocksInv
  BY DEF Init, LocksInv, InLocks, Holds
<1>4. NewestInv
  BY DEF Init, NewestInv, NoMenu
<1>5. ForwardInv
  BY DEF Init, ForwardInv
<1>6. ScreenInv
  BY DEF Init, ScreenInv, Counts
<1>7. QED  BY <1>1, <1>2, <1>3, <1>4, <1>5, <1>6 DEF Inv

-------------------------------------------------------------------------------
(* Steps                                                                   *)

\* LEMMA.  What is left of a sequence without one of its places.
LEMMA RemoveAtFacts ==
  ASSUME NEW S, NEW s \in Seq(S), NEW i \in DOMAIN s
  PROVE  /\ RemoveAt(s, i) \in Seq(S)
         /\ Len(RemoveAt(s, i)) = Len(s) - 1
         /\ \A j \in 1 .. Len(s) - 1 : RemoveAt(s, i)[j] = IF j < i THEN s[j] ELSE s[j + 1]
<1> DEFINE front == SubSeq(s, 1, i - 1)
           back == SubSeq(s, i + 1, Len(s))
<1>1. i \in 1 .. Len(s) /\ Len(s) \in Nat
  OBVIOUS
<1>2. /\ front \in Seq(S) /\ Len(front) = i - 1
      /\ \A j \in 1 .. i - 1 : front[j] = s[j]
  BY <1>1
<1>3. /\ back \in Seq(S) /\ Len(back) = Len(s) - i
      /\ \A j \in 1 .. Len(s) - i : back[j] = s[j + i]
  BY <1>1
<1>4. RemoveAt(s, i) = front \o back
  BY DEF RemoveAt
<1> HIDE DEF front, back
<1>5. /\ front \o back \in Seq(S)
      /\ Len(front \o back) = Len(front) + Len(back)
      /\ \A j \in 1 .. Len(front) + Len(back) :
           (front \o back)[j] = IF j <= Len(front) THEN front[j] ELSE back[j - Len(front)]
  BY <1>2, <1>3, ConcatProperties
<1>6. Len(front \o back) = Len(s) - 1
  BY <1>1, <1>2, <1>3, <1>5
<1>7. ASSUME NEW j \in 1 .. Len(s) - 1
      PROVE  (front \o back)[j] = IF j < i THEN s[j] ELSE s[j + 1]
  <2>1. (front \o back)[j] = IF j <= i - 1 THEN front[j] ELSE back[j - (i - 1)]
    <3>1. j \in 1 .. Len(front) + Len(back)
      BY <1>5, <1>6
    <3>2. (front \o back)[j] = IF j <= Len(front) THEN front[j] ELSE back[j - Len(front)]
      BY <1>5, <3>1
    <3>3. Len(front) = i - 1
      BY <1>2
    <3>4. QED  BY ONLY <3>2, <3>3
  <2>2. CASE j < i
    BY <1>1, <1>2, <2>1, <2>2
  <2>3. CASE ~(j < i)
    <3>1. j - (i - 1) \in 1 .. Len(s) - i /\ j - (i - 1) + i = j + 1
      BY <1>1, <2>3
    <3>2. QED  BY <1>1, <1>3, <2>1, <2>3, <3>1
  <2>4. QED  BY <2>2, <2>3
<1>8. QED  BY <1>4, <1>5, <1>6, <1>7

\* LEMMA.  A step while the process runs is one of these.
LEMMA Steps ==
  ASSUME [Next]_vars, outcome = "running"
  PROVE  \/ acceptClient \/ acceptFails \/ exit \/ hangUp
         \/ \E t \in Clients : \/ connect(t) \/ addStream(t) \/ lockWriter(t) \/ readMenu(t)
                               \/ sendFirst(t) \/ endInput(t) \/ removeStream(t)
                               \/ pressKey(t) \/ sendCommands(t)
         \/ lockChannel \/ setListing \/ setNoMenu \/ setActiveIndex \/ postMenuChange
         \/ readEvent \/ moveActive \/ changeChannel \/ lockMenu \/ lockNext \/ makeMessage
         \/ writeNext \/ beginFlush \/ flushNext \/ endSend \/ writeError
         \/ UNCHANGED vars
  BY DEF Next, TaskGoesOn, LoopGoesOn, MenuGoesOn, Done

\* LEMMA.  Which steps change what.
LEMMA Changes ==
  ASSUME [Next]_vars, outcome = "running"
  PROVE  /\ task' = task \/ acceptClient
              \/ \E t \in Clients : \/ connect(t) \/ addStream(t) \/ lockWriter(t) \/ readMenu(t)
                                    \/ sendFirst(t) \/ endInput(t) \/ removeStream(t)
         /\ accepted' = accepted \/ acceptClient
         /\ new_tcp_stream' = new_tcp_stream \/ acceptClient \/ acceptFails
         /\ stream' = stream \/ \E t \in Clients : connect(t)
         /\ message' = message \/ \E t \in Clients : readMenu(t) \/ sendFirst(t)
         /\ streams' = streams \/ \E t \in Clients : addStream(t) \/ removeStream(t)
         /\ locks' = locks \/ lockNext \/ endSend \/ writeError
         /\ loop' = loop \/ readEvent \/ moveActive \/ changeChannel \/ lockMenu \/ makeMessage
              \/ beginFlush \/ endSend \/ writeError
         /\ menu_lock' = menu_lock \/ readEvent \/ moveActive \/ changeChannel \/ lockMenu
              \/ endSend \/ writeError
         /\ text' = text \/ makeMessage \/ endSend \/ writeError
         /\ turn' = turn \/ writeNext \/ flushNext \/ beginFlush \/ endSend \/ writeError
         /\ short' = short \/ endSend \/ writeError
         /\ buffer' = buffer \/ writeNext \/ flushNext \/ \E t \in Clients : sendFirst(t) \/ sendCommands(t)
         /\ screen' = screen \/ flushNext \/ \E t \in Clients : sendFirst(t) \/ sendCommands(t)
         /\ raced' = raced \/ \E t \in Clients : sendCommands(t)
         /\ left' = left \/ hangUp
         /\ menu' = menu \/ setListing \/ setNoMenu \/ setActiveIndex \/ moveActive
         /\ change' = change \/ lockChannel \/ setListing \/ setNoMenu \/ setActiveIndex \/ postMenuChange
         /\ events' = events \/ postMenuChange \/ readEvent \/ \E t \in Clients : pressKey(t)
<1> USE DEF serverVars, taskVars, loopVars, outputVars, Returns, menuStays, vars,
      acceptClient, acceptFails, exit, hangUp, connect, addStream, lockWriter, readMenu,
      sendFirst, endInput, removeStream, pressKey, sendCommands, lockChannel, setListing,
      setNoMenu, setActiveIndex, postMenuChange, readEvent, moveActive, changeChannel,
      lockMenu, lockNext, makeMessage, writeNext, beginFlush, flushNext, endSend, writeError
<1>1. task' = task \/ acceptClient
      \/ \E t \in Clients : \/ connect(t) \/ addStream(t) \/ lockWriter(t) \/ readMenu(t)
                            \/ sendFirst(t) \/ endInput(t) \/ removeStream(t)
  <2>1. CASE \/ acceptClient
             \/ \E t \in Clients : \/ connect(t) \/ addStream(t) \/ lockWriter(t) \/ readMenu(t)
                                   \/ sendFirst(t) \/ endInput(t) \/ removeStream(t)
    BY ONLY <2>1
  <2>2. CASE \/ acceptFails \/ exit \/ hangUp
             \/ \E t \in Clients : pressKey(t) \/ sendCommands(t)
             \/ lockChannel \/ setListing \/ setNoMenu \/ setActiveIndex \/ postMenuChange
             \/ UNCHANGED vars
    BY <2>2
  <2>3. CASE \/ readEvent \/ moveActive \/ changeChannel \/ lockMenu \/ lockNext \/ makeMessage
             \/ writeNext \/ beginFlush \/ flushNext \/ endSend \/ writeError
    BY <2>3
  <2>4. QED  BY ONLY Steps, [Next]_vars, outcome = "running", <2>1, <2>2, <2>3
<1>2. accepted' = accepted \/ acceptClient
  BY Steps
<1>3. new_tcp_stream' = new_tcp_stream \/ acceptClient \/ acceptFails
  BY Steps
<1>4. stream' = stream \/ \E t \in Clients : connect(t)
  BY Steps
<1>5. message' = message \/ \E t \in Clients : readMenu(t) \/ sendFirst(t)
  BY Steps
<1>6. streams' = streams \/ \E t \in Clients : addStream(t) \/ removeStream(t)
  BY Steps
<1>7. locks' = locks \/ lockNext \/ endSend \/ writeError
  BY Steps
<1>8. loop' = loop \/ readEvent \/ moveActive \/ changeChannel \/ lockMenu \/ makeMessage
      \/ beginFlush \/ endSend \/ writeError
  BY Steps
<1>9. menu_lock' = menu_lock \/ readEvent \/ moveActive \/ changeChannel \/ lockMenu
      \/ endSend \/ writeError
  BY Steps
<1>10. text' = text \/ makeMessage \/ endSend \/ writeError
  BY Steps
<1>11. turn' = turn \/ writeNext \/ flushNext \/ beginFlush \/ endSend \/ writeError
  BY Steps
<1>12. short' = short \/ endSend \/ writeError
  BY Steps
<1>13. buffer' = buffer \/ writeNext \/ flushNext \/ \E t \in Clients : sendFirst(t) \/ sendCommands(t)
  BY Steps
<1>14. screen' = screen \/ flushNext \/ \E t \in Clients : sendFirst(t) \/ sendCommands(t)
  BY Steps
<1>15. raced' = raced \/ \E t \in Clients : sendCommands(t)
  BY Steps
<1>16. left' = left \/ hangUp
  BY Steps
<1>17. menu' = menu \/ setListing \/ setNoMenu \/ setActiveIndex \/ moveActive
  BY Steps
<1>18. change' = change \/ lockChannel \/ setListing \/ setNoMenu \/ setActiveIndex \/ postMenuChange
  BY Steps
<1>19. events' = events \/ postMenuChange \/ readEvent \/ \E t \in Clients : pressKey(t)
  BY Steps
<1>20. QED
  BY <1>1, <1>2, <1>3, <1>4, <1>5, <1>6, <1>7, <1>8, <1>9, <1>10, <1>11, <1>12, <1>13, <1>14,
     <1>15, <1>16, <1>17, <1>18, <1>19

LEMMA StateStep ==
  ASSUME Inv, [Next]_vars, outcome = "running"
  PROVE  StateInv'
<1>0. StateInv /\ ListInv
  BY DEF Inv
<1>1. (accepted \in 0 .. MaxClients /\ new_tcp_stream \in 0 .. accepted)'
  <2>1. CASE acceptClient
    BY <1>0, <2>1, MenuServerBounds DEF StateInv, acceptClient
  <2>2. CASE acceptFails
    BY <1>0, <2>2, MenuServerBounds DEF StateInv, acceptFails, NoClient
  <2>3. QED  BY <1>0, <2>1, <2>2, Changes DEF StateInv
<1>2. (task \in [Clients -> {"none", "ready", "connected", "gone"} \cup ListedStates])'
  <2> DEFINE States == {"none", "ready", "connected", "gone"} \cup ListedStates
  <2>1. task \in [Clients -> States]
    BY <1>0 DEF StateInv
  <2>2. task' = task \/ \E t \in Clients, at \in States : task' = [task EXCEPT ![t] = at]
    <3>1. CASE acceptClient
      <4>1. task' = [task EXCEPT ![accepted + 1] = "ready"]
        BY <3>1 DEF acceptClient
      <4>2. accepted + 1 \in Clients
        BY <1>0, <3>1, MenuServerBounds DEF StateInv, acceptClient, Clients
      <4>3. QED  BY <4>1, <4>2
    <3>2. QED
      BY <3>1, Changes DEF ListedStates, connect, addStream, lockWriter, readMenu, sendFirst,
         endInput, removeStream
  <2> HIDE DEF States
  <2>3. task' \in [Clients -> States]
    BY <2>1, <2>2
  <2>4. QED  BY <2>3 DEF States
<1>3. (stream \in [Clients -> 0 .. MaxClients])'
  <2>1. ASSUME NEW t \in Clients, connect(t)
        PROVE  (stream \in [Clients -> 0 .. MaxClients])'
    <3>1. new_tcp_stream \in 0 .. MaxClients /\ stream \in [Clients -> 0 .. MaxClients]
      BY <1>0, MenuServerBounds DEF StateInv
    <3>2. stream' = stream \/ stream' = [stream EXCEPT ![t] = new_tcp_stream]
      BY <2>1 DEF connect
    <3>3. QED  BY ONLY <3>1, <3>2
  <2>2. QED  BY <1>0, <2>1, Changes DEF StateInv
<1>4. (message \in [Clients -> Int])'
  <2>1. message \in [Clients -> Int] /\ menu \in Int
    BY <1>0 DEF StateInv
  <2>2. ASSUME NEW t \in Clients, readMenu(t) \/ sendFirst(t)
        PROVE  (message \in [Clients -> Int])'
    <3>1. \E m \in Int : message' = [message EXCEPT ![t] = m]
      BY <2>1, <2>2 DEF readMenu, sendFirst, NoMenu
    <3>2. QED  BY ONLY <2>1, <3>1
  <2>3. QED  BY <2>1, <2>2, Changes
<1>5. (buffer \in [Clients -> Int])'
  <2>1. buffer \in [Clients -> Int] /\ text \in Int
    BY <1>0 DEF StateInv, NoMenu
  <2>2. CASE writeNext
    <3>1. buffer' = [buffer EXCEPT ![Receiver] = text]
      BY <2>2 DEF writeNext
    <3>2. QED  BY ONLY <2>1, <3>1
  <2>3. CASE flushNext
    <3>1. buffer' = [buffer EXCEPT ![Receiver] = NoMenu] /\ NoMenu \in Int
      BY <2>3 DEF flushNext, NoMenu
    <3>2. QED  BY ONLY <2>1, <3>1
  <2>4. ASSUME NEW t \in Clients, sendFirst(t) \/ sendCommands(t)
        PROVE  (buffer \in [Clients -> Int])'
    <3>1. buffer' = buffer \/ buffer' = [buffer EXCEPT ![stream[t]] = NoMenu]
      BY <2>4 DEF sendFirst, sendCommands
    <3>2. NoMenu \in Int
      BY DEF NoMenu
    <3>3. QED  BY ONLY <2>1, <3>1, <3>2
  <2>5. QED  BY <2>1, <2>2, <2>3, <2>4, Changes
<1>6. (screen \in [Clients -> Int])'
  <2>1. screen \in [Clients -> Int] /\ buffer \in [Clients -> Int] /\ message \in [Clients -> Int]
    BY <1>0 DEF StateInv
  <2>2. CASE flushNext
    <3>1. locks \in Seq(Clients) /\ turn \in 1 .. Len(locks)
      BY <1>0, <2>2 DEF flushNext, StateInv
    <3>2. locks[turn] \in Clients
      BY <3>1
    <3>3. Receiver \in Clients
      <4>1. InLocks(locks[turn]) /\ locks[turn] \in Clients
        BY <3>1, <3>2 DEF InLocks
      <4>2. stream[locks[turn]] \in 0 .. MaxClients /\ stream[locks[turn]] # NoClient
        BY <1>0, <4>1 DEF StateInv, ListInv
      <4>3. QED  BY ONLY <4>2, MenuServerBounds DEF Receiver, NoClient, Clients
    <3>4. \E m \in Int : screen' = [screen EXCEPT ![Receiver] = m]
      BY <2>1, <2>2, <3>3 DEF flushNext
    <3>5. QED  BY ONLY <2>1, <3>4
  <2>3. ASSUME NEW t \in Clients, sendFirst(t) \/ sendCommands(t)
        PROVE  (screen \in [Clients -> Int])'
    <3>1. stream[t] \in Clients
      <4>1. task[t] \in {"message", "input"}
        BY <2>3 DEF sendFirst, sendCommands
      <4>2. stream[t] \in 0 .. MaxClients /\ stream[t] # 0
        BY <1>0, <4>1 DEF StateInv, ListInv, NoClient
      <4>3. QED  BY <4>2 DEF Clients
    <3>2. screen' = screen \/ \E m \in Int : screen' = [screen EXCEPT ![stream[t]] = m]
      BY <2>1, <2>3, <3>1 DEF sendFirst, sendCommands
    <3>3. QED  BY ONLY <2>1, <3>2
  <2>4. QED  BY <2>1, <2>2, <2>3, Changes
<1>7. (streams \in Seq(Clients))'
  <2>1. streams \in Seq(Clients)
    BY <1>0 DEF StateInv
  <2>2. ASSUME NEW t \in Clients, addStream(t)
        PROVE  (streams \in Seq(Clients))'
    <3>1. streams' = Append(streams, t) /\ t \in Clients
      BY <2>2 DEF addStream
    <3>2. QED  BY ONLY <2>1, <3>1
  <2>3. ASSUME NEW t \in Clients, removeStream(t)
        PROVE  (streams \in Seq(Clients))'
    <3>1. PICK i \in DOMAIN streams : streams' = RemoveAt(streams, i)
      BY <2>3 DEF removeStream
    <3>2. QED  BY <2>1, <3>1, RemoveAtFacts
  <2>4. QED  BY <2>1, <2>2, <2>3, Changes
<1>8. (locks \in Seq(Clients))'
  <2>1. locks \in Seq(Clients)
    BY <1>0 DEF StateInv
  <2>2. CASE lockNext
    <3>1. Len(locks) + 1 \in 1 .. Len(streams) /\ streams \in Seq(Clients)
      <4>1. Len(locks) < Len(streams)
        BY <2>2 DEF lockNext
      <4>2. locks \in Seq(Clients) /\ streams \in Seq(Clients)
        BY <1>0 DEF StateInv
      <4>3. QED  BY ONLY <4>1, <4>2
    <3>2. NextWriter \in Clients
      BY <3>1 DEF NextWriter
    <3>3. locks' = Append(locks, NextWriter)
      BY <2>2 DEF lockNext
    <3>4. QED  BY ONLY <2>1, <3>2, <3>3
  <2>3. CASE endSend \/ writeError
    <3>1. locks' = <<>>
      BY <2>3 DEF endSend, writeError, Returns
    <3>2. QED  BY ONLY <3>1
  <2>4. QED  BY <2>1, <2>2, <2>3, Changes
<1>9. (menu \in Nat)'
  <2>1. menu' \in {menu, menu + 1}
    BY Changes DEF setListing, setNoMenu, setActiveIndex, moveActive
  <2>2. menu \in Nat
    BY <1>0 DEF StateInv
  <2>3. QED  BY ONLY <2>1, <2>2
<1>10. (text \in Nat \cup {NoMenu})'
  <2>1. text' \in {text, menu, NoMenu}
    BY Changes DEF makeMessage, endSend, writeError, Returns
  <2>2. text \in Nat \cup {NoMenu} /\ menu \in Nat
    BY <1>0 DEF StateInv
  <2>3. QED  BY <2>1, <2>2
<1>11. (turn \in Nat \ {0})'
  <2>1. turn' \in {turn, turn + 1, 1}
    BY Changes DEF writeNext, flushNext, beginFlush, endSend, writeError, Returns
  <2>2. turn \in Nat \ {0}
    BY <1>0 DEF StateInv
  <2>3. QED  BY ONLY <2>1, <2>2
<1>12. (change \in {"idle", "set", "listing", "same", "none", "post"})'
  BY <1>0, Changes DEF StateInv, lockChannel, setListing, setNoMenu, setActiveIndex,
     postMenuChange
<1>13. (loop \in Inside \cup Between)'
  BY <1>0, Changes DEF StateInv, Inside, Between, readEvent, moveActive, changeChannel,
     lockMenu, makeMessage, beginFlush, endSend, writeError, Returns
<1>14. (menu_lock <=> loop \in Inside \cup {"key", "change"})'
  <2>1. menu_lock <=> loop \in Inside \cup {"key", "change"}
    BY <1>0 DEF StateInv
  <2>2. CASE readEvent \/ moveActive \/ changeChannel \/ lockMenu
    BY <2>1, <2>2 DEF readEvent, moveActive, changeChannel, lockMenu, Inside
  <2>3. CASE endSend \/ writeError
    BY <2>3 DEF endSend, writeError, Returns, Inside
  <2>4. CASE menu_lock' = menu_lock /\ (makeMessage \/ beginFlush)
    BY <2>1, <2>4 DEF makeMessage, beginFlush, Inside
  <2>5. CASE UNCHANGED <<menu_lock, loop>>
    BY <2>1, <2>5
  <2>6. QED  BY <2>2, <2>3, <2>4, <2>5, Changes
<1>15. (events \in Seq({"key", "menu"}))'
  <2>1. events \in Seq({"key", "menu"})
    BY <1>0 DEF StateInv
  <2>2. events' = events \/ events' = Append(events, "menu") \/ events' = Append(events, "key")
        \/ (events # <<>> /\ events' = Tail(events))
    BY Changes DEF postMenuChange, pressKey, readEvent
  <2>3. QED  BY ONLY <2>1, <2>2
<1>16. QED
  BY <1>15, <1>1, <1>2, <1>3, <1>4, <1>5, <1>6, <1>7, <1>8, <1>9, <1>10, <1>11, <1>12, <1>13,
     <1>14
     DEF StateInv

\* LEMMA.  Where the tasks of these states come from.
LEMMA TaskSteps ==
  ASSUME Inv, [Next]_vars, outcome = "running", NEW t \in Clients
  PROVE  /\ task'[t] = "none" => task[t] = "none"
         /\ task'[t] = "listed" => task[t] = "listed" \/ addStream(t)
         /\ task'[t] = "locked" => task[t] = "locked" \/ lockWriter(t)
         /\ task'[t] = "message" => task[t] = "message" \/ readMenu(t)
         /\ task'[t] = "input" => task[t] = "input" \/ sendFirst(t)
         /\ task'[t] = "leaving" => task[t] \in {"leaving", "message", "input"}
         /\ task[t] \notin {"none", "ready", "connected"} =>
              task'[t] \notin {"none", "ready", "connected"}
<1>1. task \in [Clients -> {"none", "ready", "connected", "gone"} \cup ListedStates]
  BY DEF Inv, StateInv
<1>2. CASE acceptClient
  <2>1. task' = [task EXCEPT ![accepted + 1] = "ready"]
    BY <1>2 DEF acceptClient
  <2>2. accepted \in Nat /\ accepted + 1 \in Clients
    BY <1>2, MenuServerBounds DEF Inv, StateInv, acceptClient, Clients
  <2>3. task[accepted + 1] = "none"
    BY <2>2 DEF Inv, ListInv
  <2>4. QED  BY <1>1, <2>1, <2>2, <2>3
<1>3. ASSUME NEW u \in Clients,
             \/ connect(u) \/ addStream(u) \/ lockWriter(u) \/ readMenu(u)
             \/ sendFirst(u) \/ endInput(u) \/ removeStream(u)
      PROVE  /\ task'[t] = "none" => task[t] = "none"
             /\ task'[t] = "listed" => task[t] = "listed" \/ addStream(t)
             /\ task'[t] = "locked" => task[t] = "locked" \/ lockWriter(t)
             /\ task'[t] = "message" => task[t] = "message" \/ readMenu(t)
             /\ task'[t] = "input" => task[t] = "input" \/ sendFirst(t)
             /\ task'[t] = "leaving" => task[t] \in {"leaving", "message", "input"}
             /\ task[t] \notin {"none", "ready", "connected"} =>
              task'[t] \notin {"none", "ready", "connected"}
  BY <1>1, <1>3 DEF connect, addStream, lockWriter, readMenu, sendFirst, endInput,
     removeStream
<1>4. QED  BY <1>2, <1>3, Changes

LEMMA ListStep ==
  ASSUME Inv, [Next]_vars, outcome = "running", outcome' = "running"
  PROVE  ListInv'
<1>0. StateInv /\ ListInv /\ StateInv'
  BY StateStep DEF Inv
<1>1. /\ task \in [Clients -> {"none", "ready", "connected", "gone"} \cup ListedStates]
      /\ stream \in [Clients -> 0 .. MaxClients]
      /\ streams \in Seq(Clients) /\ locks \in Seq(Clients)
  BY <1>0 DEF StateInv
<1>2. ASSUME NEW t \in Clients, t > accepted'
      PROVE  task'[t] = "none"
  <2>1. t > accepted /\ task[t] = "none"
    BY <1>0, <1>2, Changes DEF StateInv, ListInv, Clients, acceptClient
  <2>2. CASE acceptClient
    BY <1>0, <1>1, <1>2, <2>1, <2>2 DEF acceptClient, StateInv, Clients
  <2>3. CASE ~acceptClient
    BY <1>1, <2>1, <2>3, Changes DEF connect, addStream, lockWriter, readMenu, sendFirst,
       endInput, removeStream
  <2>4. QED  BY <2>2, <2>3
<1>3. ASSUME NEW t \in Clients, task'[t] \in ListedStates
      PROVE  InList(t)'
  <2>1. CASE addStream(t)
    <3>1. streams' = Append(streams, t)
      BY <2>1 DEF addStream
    <3>2. Len(streams) + 1 \in DOMAIN streams' /\ streams'[Len(streams) + 1] = t
      BY ONLY <1>1, <3>1
    <3>3. QED  BY <3>2 DEF InList
  <2>2. CASE ~addStream(t)
    <3>1. task[t] \in ListedStates
      BY <1>3, <2>2, TaskSteps DEF ListedStates, lockWriter, readMenu, sendFirst
    <3>2. PICK i \in DOMAIN streams : streams[i] = t
      BY <1>0, <3>1 DEF ListInv, InList
    <3>3. CASE streams' = streams
      BY <3>2, <3>3 DEF InList
    <3>4. ASSUME NEW u \in Clients, addStream(u)
          PROVE  InList(t)'
      <4>1. streams' = Append(streams, u)
        BY <3>4 DEF addStream
      <4>2. i \in DOMAIN streams' /\ streams'[i] = t
        BY ONLY <1>1, <3>2, <4>1, u \in Clients
      <4>3. QED  BY <4>2 DEF InList
    <3>5. ASSUME NEW u \in Clients, removeStream(u)
          PROVE  InList(t)'
      <4>1. PICK j \in DOMAIN streams : streams[j] = u /\ streams' = RemoveAt(streams, j)
        BY <3>5 DEF removeStream
      <4>2. t # u
        BY <1>1, <1>3, <3>5 DEF removeStream, ListedStates
      <4>3. /\ streams' \in Seq(Clients) /\ Len(streams') = Len(streams) - 1
            /\ \A k \in 1 .. Len(streams) - 1 :
                 streams'[k] = IF k < j THEN streams[k] ELSE streams[k + 1]
        BY <1>1, <4>1, RemoveAtFacts
      <4>4. /\ i \in 1 .. Len(streams) /\ j \in 1 .. Len(streams) /\ Len(streams) \in Nat
            /\ i # j /\ DOMAIN streams' = 1 .. Len(streams) - 1
        BY <1>1, <3>2, <4>1, <4>2, <4>3
      <4>5. CASE i < j
        <5>1. i \in 1 .. Len(streams) - 1
          BY <4>4, <4>5
        <5>2. QED  BY <3>2, <4>3, <4>4, <4>5, <5>1 DEF InList
      <4>6. CASE i > j
        <5>1. i - 1 \in 1 .. Len(streams) - 1 /\ ~(i - 1 < j) /\ i - 1 + 1 = i
          BY <4>4, <4>6
        <5>2. QED  BY <3>2, <4>3, <4>4, <5>1 DEF InList
      <4>7. QED  BY <4>4, <4>5, <4>6
    <3>6. QED  BY <3>3, <3>4, <3>5, Changes
  <2>3. QED  BY <2>1, <2>2
<1>4. ASSUME NEW t \in Clients
      PROVE  task'[t] \in {"none", "ready"} <=> stream'[t] = NoClient
  <2>0. task[t] \in {"none", "ready"} <=> stream[t] = NoClient
    BY <1>0 DEF ListInv
  <2>1. CASE acceptClient
    <3>1. task' = [task EXCEPT ![accepted + 1] = "ready"] /\ stream' = stream
      BY <2>1 DEF acceptClient, taskVars
    <3>2. accepted \in Nat /\ accepted + 1 \in Clients
      BY <1>0, <2>1, MenuServerBounds DEF StateInv, acceptClient, Clients
    <3>3. task[accepted + 1] = "none"
      BY <1>0, <3>2 DEF ListInv
    <3>4. QED  BY <1>1, <2>0, <3>1, <3>3
  <2>2. ASSUME NEW u \in Clients, connect(u)
        PROVE  task'[t] \in {"none", "ready"} <=> stream'[t] = NoClient
    BY <1>1, <2>0, <2>2 DEF connect
  <2>3. CASE ~acceptClient /\ ~\E u \in Clients : connect(u)
    <3>1. stream' = stream
      BY <2>3, Changes
    <3>2. task'[t] \in {"none", "ready"} <=> task[t] \in {"none", "ready"}
      BY <1>1, <2>3, Changes DEF addStream, lockWriter, readMenu, sendFirst, endInput,
         removeStream
    <3>3. QED  BY <2>0, <3>1, <3>2
  <2>4. QED  BY <2>1, <2>2, <2>3
<1>5. ASSUME NEW t \in Clients, InList(t)'
      PROVE  task'[t] \notin {"none", "ready", "connected"}
  <2>1. CASE InList(t)
    BY <1>0, <2>1, TaskSteps DEF ListInv
  <2>2. CASE ~InList(t)
    <3>1. PICK i \in DOMAIN streams' : streams'[i] = t
      BY <1>5 DEF InList
    <3>2. streams' # streams
      BY <2>2, <3>1 DEF InList
    <3>3. ASSUME NEW u \in Clients, removeStream(u)
          PROVE  FALSE
      <4>1. PICK j \in DOMAIN streams : streams[j] = u /\ streams' = RemoveAt(streams, j)
        BY <3>3 DEF removeStream
      <4>2. /\ streams' \in Seq(Clients) /\ Len(streams') = Len(streams) - 1
            /\ \A k \in 1 .. Len(streams) - 1 :
                 streams'[k] = IF k < j THEN streams[k] ELSE streams[k + 1]
        BY <1>1, <4>1, RemoveAtFacts
      <4>3. i \in 1 .. Len(streams) - 1 /\ Len(streams) \in Nat
        <5>1. i \in 1 .. Len(streams')
          BY ONLY <3>1, <4>2
        <5>2. Len(streams) \in Nat
          BY ONLY <1>1
        <5>3. QED  BY ONLY <4>2, <5>1, <5>2
      <4>4. i \in DOMAIN streams /\ i + 1 \in DOMAIN streams
        BY <1>1, <4>3
      <4>5. QED  BY <2>2, <3>1, <4>2, <4>3, <4>4 DEF InList
    <3>4. ASSUME NEW u \in Clients, addStream(u)
          PROVE  task'[t] \notin {"none", "ready", "connected"}
      <4>1. streams' = Append(streams, u) /\ task' = [task EXCEPT ![u] = "listed"]
        BY <3>4 DEF addStream
      <4>2. i = Len(streams) + 1 \/ (i \in DOMAIN streams /\ streams[i] = t)
        BY ONLY <1>1, <3>1, <4>1, u \in Clients
      <4>3. streams'[Len(streams) + 1] = u
        BY ONLY <1>1, <4>1, u \in Clients
      <4>4. t = u
        BY <2>2, <3>1, <4>2, <4>3 DEF InList
      <4>5. QED  BY <1>1, <4>1, <4>4
    <3>5. QED  BY <3>2, <3>3, <3>4, Changes
  <2>3. QED  BY <2>1, <2>2
<1>6. ASSUME NEW t \in Clients, InLocks(t)'
      PROVE  task'[t] \notin {"none", "ready", "connected"}
  <2>1. CASE InLocks(t)
    BY <1>0, <2>1, TaskSteps DEF ListInv
  <2>2. CASE ~InLocks(t)
    <3>1. PICK i \in DOMAIN locks' : locks'[i] = t
      BY <1>6 DEF InLocks
    <3>2. locks' # locks
      BY <2>2, <3>1 DEF InLocks
    <3>3. CASE endSend \/ writeError
      <4>1. locks' = <<>>
        BY <3>3 DEF endSend, writeError, Returns
      <4>2. QED  BY <3>1, <4>1
    <3>4. CASE lockNext
      <4>1. /\ locks' = Append(locks, NextWriter) /\ Len(locks) + 1 \in 1 .. Len(streams)
            /\ UNCHANGED task
        BY <1>1, <3>4 DEF lockNext, taskVars
      <4>2. NextWriter \in Clients /\ InList(NextWriter)
        BY <1>1, <4>1 DEF NextWriter, InList
      <4>3. (i = Len(locks) + 1 /\ locks'[i] = NextWriter)
             \/ (i \in DOMAIN locks /\ locks'[i] = locks[i])
        BY ONLY <1>1, <3>1, <4>1, <4>2
      <4>4. t = NextWriter
        BY <2>2, <3>1, <4>3 DEF InLocks
      <4>5. QED  BY <1>0, <4>1, <4>2, <4>4 DEF ListInv
    <3>5. QED  BY <3>2, <3>3, <3>4, Changes
  <2>3. QED  BY <2>1, <2>2
<1>7. (\A i, j \in DOMAIN streams : streams[i] = streams[j] => i = j)'
  <2>1. \A i, j \in DOMAIN streams : streams[i] = streams[j] => i = j
    BY <1>0 DEF ListInv
  <2>2. ASSUME NEW u \in Clients, addStream(u)
        PROVE  (\A i, j \in DOMAIN streams : streams[i] = streams[j] => i = j)'
    <3>1. streams' = Append(streams, u)
      BY <2>2 DEF addStream
    <3>2. \A i \in DOMAIN streams : streams[i] # u
      BY <1>0, <2>2 DEF addStream, ListInv, InList
    <3>3. QED  BY ONLY <1>1, <2>1, <3>1, <3>2, u \in Clients
  <2>3. ASSUME NEW u \in Clients, removeStream(u)
        PROVE  (\A i, j \in DOMAIN streams : streams[i] = streams[j] => i = j)'
    <3>1. PICK k \in DOMAIN streams : streams[k] = u /\ streams' = RemoveAt(streams, k)
      BY <2>3 DEF removeStream
    <3>2. /\ streams' \in Seq(Clients) /\ Len(streams') = Len(streams) - 1
          /\ \A i \in 1 .. Len(streams) - 1 :
               streams'[i] = IF i < k THEN streams[i] ELSE streams[i + 1]
      BY <1>1, <3>1, RemoveAtFacts
    <3> SUFFICES ASSUME NEW i \in DOMAIN streams', NEW j \in DOMAIN streams',
                        streams'[i] = streams'[j]
                 PROVE  i = j
      OBVIOUS
    <3> DEFINE was(n) == IF n < k THEN n ELSE n + 1
    <3>3. DOMAIN streams = 1 .. Len(streams) /\ Len(streams) \in Nat /\ k \in 1 .. Len(streams)
      BY <1>1, <3>1
    <3>4. i \in 1 .. Len(streams) - 1 /\ j \in 1 .. Len(streams) - 1
      BY <3>2
    <3>5. /\ was(i) \in DOMAIN streams /\ streams'[i] = streams[was(i)]
          /\ was(j) \in DOMAIN streams /\ streams'[j] = streams[was(j)]
      BY <3>2, <3>3, <3>4
    <3>6. was(i) = was(j)
      <4> HIDE DEF was
      <4>1. QED  BY <2>1, <3>5
    <3>7. QED  BY <3>3, <3>4, <3>6
  <2>4. QED  BY <2>1, <2>2, <2>3, Changes
<1>8. QED  BY <1>2, <1>3, <1>4, <1>5, <1>6, <1>7 DEF ListInv

\* LEMMA.  What lockNext makes of the locks.
LEMMA LockNextFacts ==
  ASSUME Inv, lockNext
  PROVE  /\ Len(locks') = Len(locks) + 1 /\ DOMAIN locks' = 1 .. Len(locks) + 1
         /\ locks'[Len(locks) + 1] = NextWriter
         /\ \A i \in 1 .. Len(locks) : locks'[i] = locks[i]
         /\ Len(locks) \in Nat /\ DOMAIN locks = 1 .. Len(locks)
         /\ NextWriter \in Clients
<1>1. locks \in Seq(Clients) /\ streams \in Seq(Clients)
  BY DEF Inv, StateInv
<1>2. locks' = Append(locks, NextWriter) /\ Len(locks) + 1 \in 1 .. Len(streams)
  BY <1>1 DEF lockNext
<1>3. NextWriter \in Clients
  BY <1>1, <1>2 DEF NextWriter
<1>4. QED  BY ONLY <1>1, <1>2, <1>3

LEMMA LocksStep ==
  ASSUME Inv, [Next]_vars, outcome = "running", outcome' = "running"
  PROVE  LocksInv'
<1>0. StateInv /\ ListInv /\ LocksInv /\ StateInv'
  BY StateStep DEF Inv
<1>1. /\ loop \in Inside \cup Between
      /\ streams \in Seq(Clients) /\ locks \in Seq(Clients)
      /\ menu_lock <=> loop \in Inside \cup {"key", "change"}
  BY <1>0 DEF StateInv
<1>2. (loop \in Between => locks = <<>>)'
  <2>1. CASE endSend \/ writeError
    BY <2>1 DEF endSend, writeError, Returns
  <2>2. CASE ~endSend /\ ~writeError
    <3>1. loop' \in Between => loop \in Between
      BY <1>1, <2>2, Changes DEF readEvent, moveActive, changeChannel, lockMenu, makeMessage,
         beginFlush, Between, Inside
    <3>2. locks' = locks \/ lockNext
      BY <2>2, Changes
    <3>3. lockNext => loop' = "lock"
      BY DEF lockNext
    <3>4. QED  BY <1>0, <3>1, <3>2, <3>3 DEF LocksInv, Between, Inside
  <2>3. QED  BY <2>1, <2>2
<1>3. (loop \in Between \cup {"lock"} => turn = 1)'
  <2>1. CASE endSend \/ writeError
    BY <2>1 DEF endSend, writeError, Returns
  <2>2. CASE ~endSend /\ ~writeError
    <3>1. loop' \in Between \cup {"lock"} => loop \in Between \cup {"lock"}
      BY <1>1, <2>2, Changes DEF readEvent, moveActive, changeChannel, lockMenu, makeMessage,
         beginFlush, Between, Inside
    <3>2. turn' = turn \/ writeNext \/ flushNext \/ beginFlush
      BY <2>2, Changes
    <3>3. writeNext \/ flushNext \/ beginFlush => loop' \in {"write", "flush"}
      BY DEF writeNext, flushNext, beginFlush
    <3>4. QED  BY <1>0, <3>1, <3>2, <3>3 DEF LocksInv, Between, Inside
  <2>3. QED  BY <2>1, <2>2
<1>4. (loop = "lock" => /\ Len(locks) <= Len(streams)
                        /\ \A i \in DOMAIN locks : locks[i] = streams[i])'
  <2>1. CASE lockMenu
    <3>1. locks' = <<>> /\ streams' \in Seq(Clients)
      BY <1>0, <2>1 DEF lockMenu, LocksInv, StateInv, Between, Inside
    <3>2. QED  BY ONLY <3>1
  <2>2. CASE lockNext
    <3>1. /\ streams' = streams /\ loop = "lock" /\ NextWriter = streams[Len(locks) + 1]
          /\ Len(locks) < Len(streams)
      BY <2>2 DEF lockNext, taskVars, NextWriter
    <3>2. \A i \in DOMAIN locks : locks[i] = streams[i]
      BY <1>0, <3>1 DEF LocksInv
    <3>3. QED  BY <1>1, <2>2, <3>1, <3>2, LockNextFacts
  <2>3. CASE loop' = "lock" /\ loop = "lock" /\ ~lockNext
    <3>1. locks' = locks
      BY <2>3, Changes DEF endSend, writeError
    <3>2. streams' = streams
      BY <2>3, Changes DEF addStream, removeStream, ListLocked
    <3>3. QED  BY <1>0, <2>3, <3>1, <3>2 DEF LocksInv
  <2>4. CASE loop' = "lock" /\ loop # "lock" /\ ~lockMenu
    BY <2>4, Changes DEF readEvent, moveActive, changeChannel, makeMessage, beginFlush,
       endSend, writeError, Returns, Between, Inside
  <2>5. QED  BY <2>1, <2>2, <2>3, <2>4
<1>5. ASSUME NEW t \in Clients, InLocks(t)'
      PROVE  ~Holds(t)'
  <2>1. CASE ~InLocks(t)
    <3>1. PICK i \in DOMAIN locks' : locks'[i] = t
      BY <1>5 DEF InLocks
    <3>2. lockNext
      <4>1. locks' # locks
        BY <2>1, <3>1 DEF InLocks
      <4>2. endSend \/ writeError => locks' = <<>>
        BY DEF endSend, writeError, Returns
      <4>3. QED  BY <3>1, <4>1, <4>2, Changes
    <3>3. t = NextWriter
      BY <2>1, <3>1, <3>2, LockNextFacts DEF InLocks
    <3>4. ~Holds(NextWriter) /\ UNCHANGED task
      BY <3>2 DEF lockNext, taskVars
    <3>5. QED  BY <3>3, <3>4 DEF Holds
  <2>2. CASE InLocks(t)
    <3>1. ~Holds(t)
      BY <1>0, <2>2 DEF LocksInv
    <3>2. Contains(locks, t)
      BY <1>1, <2>2 DEF InLocks, Contains
    <3>3. ~lockWriter(t)
      BY <3>2 DEF lockWriter
    <3>4. ~readMenu(t)
      BY <3>1 DEF readMenu, Holds
    <3>5. QED  BY <3>1, <3>3, <3>4, TaskSteps DEF Holds
  <2>3. QED  BY <2>1, <2>2
<1>6. ASSUME loop' \in {"write", "flush"}, NEW t \in Clients,
             task'[t] \in {"message", "input", "leaving"}
      PROVE  InLocks(t)'
  <2>1. CASE makeMessage
    <3>1. /\ loop = "lock" /\ Len(locks) = Len(streams)
          /\ UNCHANGED <<task, locks>>
      BY <2>1 DEF makeMessage, taskVars
    <3>2. PICK i \in DOMAIN streams : streams[i] = t
      BY <1>0, <1>6, <3>1 DEF ListInv, InList, ListedStates
    <3>3. i \in DOMAIN locks /\ locks[i] = streams[i]
      BY <1>0, <1>1, <3>1, <3>2 DEF LocksInv
    <3>4. QED  BY <3>1, <3>2, <3>3 DEF InLocks
  <2>2. CASE ~makeMessage
    <3>1. loop \in {"write", "flush"}
      BY <1>1, <1>6, <2>2, Changes DEF readEvent, moveActive, changeChannel, lockMenu,
         beginFlush, endSend, writeError, Returns
    <3>2. menu_lock
      BY <1>1, <3>1 DEF Inside
    <3>3. task[t] \in {"message", "input", "leaving"}
      BY <1>6, <3>2, TaskSteps DEF readMenu, sendFirst
    <3>4. InLocks(t)
      BY <1>0, <3>1, <3>3 DEF LocksInv
    <3>5. locks' = locks
      BY <1>6, <3>1, Changes DEF lockNext, endSend, writeError, Returns
    <3>6. QED  BY <3>4, <3>5 DEF InLocks
  <2>3. QED  BY <2>1, <2>2
<1>7. (\A i, j \in DOMAIN locks : locks[i] = locks[j] => i = j)'
  <2>1. \A i, j \in DOMAIN locks : locks[i] = locks[j] => i = j
    BY <1>0 DEF LocksInv
  <2>2. CASE endSend \/ writeError
    <3>1. locks' = <<>>
      BY <2>2 DEF endSend, writeError, Returns
    <3>2. QED  BY <3>1
  <2>3. CASE lockNext
    <3>1. loop' = "lock" /\ streams' = streams
      BY <2>3 DEF lockNext, taskVars
    <3>2. \A i \in DOMAIN locks' : locks'[i] = streams[i] /\ i \in DOMAIN streams
      <4>1. Len(locks') <= Len(streams') /\ \A i \in DOMAIN locks' : locks'[i] = streams'[i]
        BY <1>4, <3>1
      <4>2. locks' \in Seq(Clients)
        BY <1>0 DEF StateInv
      <4>3. QED  BY <1>1, <3>1, <4>1, <4>2
    <3>3. \A i, j \in DOMAIN streams : streams[i] = streams[j] => i = j
      BY <1>0 DEF ListInv
    <3>4. QED  BY <3>2, <3>3
  <2>4. QED  BY <2>1, <2>2, <2>3, Changes
<1>8. QED  BY <1>2, <1>3, <1>4, <1>5, <1>6, <1>7 DEF LocksInv

\* LEMMA.  The client a sending has got to, and its task.
LEMMA ReceiverFacts ==
  ASSUME Inv, turn <= Len(locks)
  PROVE  /\ turn \in DOMAIN locks /\ locks[turn] \in Clients /\ InLocks(locks[turn])
         /\ Receiver = stream[locks[turn]] /\ Receiver \in Clients
<1>1. locks \in Seq(Clients) /\ turn \in Nat \ {0} /\ stream \in [Clients -> 0 .. MaxClients]
  BY DEF Inv, StateInv
<1>2. turn \in DOMAIN locks /\ locks[turn] \in Clients
  BY <1>1
<1>3. InLocks(locks[turn])
  BY <1>2 DEF InLocks
<1>4. stream[locks[turn]] # NoClient
  BY <1>2, <1>3 DEF Inv, ListInv
<1>5. QED  BY <1>1, <1>2, <1>3, <1>4 DEF Receiver, Clients, NoClient

\* LEMMA.  A task that sends or has sent the first menu has a client.
LEMMA ClientFacts ==
  ASSUME Inv, NEW t \in Clients, task[t] \in ListedStates
  PROVE  stream[t] \in Clients
BY DEF Inv, StateInv, ListInv, ListedStates, Clients, NoClient

\* LEMMA.  A client that two tasks have taken stays so, and a task its client.
LEMMA SharedStep ==
  ASSUME Inv, [Next]_vars, outcome = "running"
  PROVE  /\ \A c \in Clients : Shared(c) => Shared(c)'
         /\ \A t \in Clients : task[t] # "ready" => stream'[t] = stream[t]
<1>1. stream \in [Clients -> 0 .. MaxClients]
  BY DEF Inv, StateInv
<1>2. \A t \in Clients : task[t] = "ready" => stream[t] = NoClient
  BY DEF Inv, ListInv
<1>3. \A t \in Clients : task[t] # "ready" => stream'[t] = stream[t]
  BY <1>1, Changes DEF connect
<1>4. \A c \in Clients : c # NoClient
  BY DEF Clients, NoClient
<1>5. \A c \in Clients, t \in Clients : stream[t] = c => stream'[t] = c
  BY <1>2, <1>3, <1>4
<1>6. QED  BY <1>3, <1>5 DEF Shared

\* LEMMA.  What has been told stays so only while the menu does.
LEMMA ToldStep ==
  ASSUME Inv, [Next]_vars, outcome = "running", Told'
  PROVE  readEvent \/ moveActive \/ (Told /\ menu' = menu)
<1>1. events \in Seq({"key", "menu"})
  BY DEF Inv, StateInv
<1>2. ~postMenuChange
  <2> SUFFICES ASSUME postMenuChange PROVE FALSE
    OBVIOUS
  <2>1. events' = Append(events, "menu") /\ events' = <<>>
    BY DEF postMenuChange, Told
  <2>2. QED  BY ONLY <1>1, <2>1
<1>3. ASSUME NEW t \in Clients, pressKey(t)
      PROVE  FALSE
  <2>1. events' = Append(events, "key") /\ events' = <<>>
    BY <1>3 DEF pressKey, Told
  <2>2. QED  BY ONLY <1>1, <2>1
<1>4. ~lockChannel /\ ~setListing /\ ~setNoMenu /\ ~setActiveIndex
  BY DEF lockChannel, setListing, setNoMenu, setActiveIndex, Told
<1>5. QED  BY <1>2, <1>3, <1>4, Changes DEF Told

LEMMA NewestStep ==
  ASSUME Inv, [Next]_vars, outcome = "running", outcome' = "running"
  PROVE  NewestInv'
<1>0. StateInv /\ ListInv /\ LocksInv /\ NewestInv /\ StateInv'
  BY StateStep DEF Inv
<1>1. /\ screen \in [Clients -> Int] /\ buffer \in [Clients -> Int]
      /\ message \in [Clients -> Int] /\ menu \in Nat
      /\ text \in Nat \cup {NoMenu} /\ NoMenu = -1
      /\ loop \in Inside \cup Between
      /\ menu_lock <=> loop \in Inside \cup {"key", "change"}
  BY <1>0 DEF StateInv, NoMenu
<1>2. menu' \in {menu, menu + 1}
  BY Changes DEF setListing, setNoMenu, setActiveIndex, moveActive
<1>3. /\ \A c \in Clients : screen[c] <= menu /\ buffer[c] <= menu
      /\ \A t \in Clients : message[t] <= menu
      /\ loop \in {"write", "flush"} =>
           text \in 0 .. menu /\ \A c \in Clients : screen[c] <= text /\ buffer[c] <= text
  BY <1>0 DEF NewestInv
<1>4. ASSUME NEW c \in Clients
      PROVE  screen'[c] <= menu' /\ buffer'[c] <= menu'
  <2>1. screen'[c] \in {screen[c], buffer[c]} \cup {message[t] : t \in Clients}
    BY <1>1, Changes, SMTT(30) DEF sendFirst, sendCommands, flushNext
  <2>2. buffer'[c] \in {buffer[c], NoMenu} \/ (loop = "write" /\ buffer'[c] = text)
    BY <1>1, Changes DEF sendFirst, sendCommands, flushNext, writeNext
  <2>3. screen'[c] <= menu /\ buffer'[c] <= menu
    BY <1>1, <1>3, <2>1, <2>2
  <2>4. screen'[c] \in Int /\ buffer'[c] \in Int
    BY <1>0 DEF StateInv
  <2>5. QED  BY <1>1, <1>2, <2>3, <2>4
<1>5. ASSUME NEW t \in Clients
      PROVE  message'[t] <= menu'
  <2>1. message'[t] \in {message[t], menu, NoMenu}
    BY <1>1, Changes DEF readMenu, sendFirst
  <2>2. QED  BY <1>1, <1>2, <1>3, <2>1
<1>6. ASSUME loop' \in {"write", "flush"}
      PROVE  /\ text' \in 0 .. menu'
             /\ Told' => text' = menu'
             /\ \A c \in Clients : screen'[c] <= text' /\ buffer'[c] <= text'
  <2>1. CASE makeMessage
    <3>1. text' = menu /\ UNCHANGED <<menu, screen, buffer>>
      BY <2>1 DEF makeMessage, outputVars
    <3>2. QED  BY <1>1, <1>3, <3>1
  <2>2. CASE ~makeMessage
    <3>1. loop \in {"write", "flush"}
      BY <1>1, <1>6, <2>2, Changes DEF readEvent, moveActive, changeChannel, lockMenu,
         beginFlush, endSend, writeError, Returns
    <3>2. ~endSend /\ ~writeError /\ ~readEvent /\ ~moveActive
      BY <1>6, <3>1 DEF endSend, writeError, readEvent, moveActive, Returns
    <3>3. text' = text
      BY <2>2, <3>2, Changes
    <3>4. \A t \in Clients : task[t] # "message"
      BY <1>0, <3>1 DEF LocksInv, Holds
    <3>5. ASSUME NEW c \in Clients
          PROVE  screen'[c] <= text /\ buffer'[c] <= text
      <4>1. screen'[c] \in {screen[c], buffer[c]}
        BY <1>1, <3>4, Changes, SMTT(30) DEF sendFirst, sendCommands, flushNext
      <4>2. buffer'[c] \in {buffer[c], NoMenu, text}
        BY <1>1, Changes, SMTT(30) DEF sendFirst, sendCommands, flushNext, writeNext
      <4>3. QED  BY <1>1, <1>3, <3>1, <4>1, <4>2
    <3>6. Told' => text' = menu'
      BY <1>0, <3>1, <3>2, <3>3, ToldStep DEF NewestInv
    <3>7. QED  BY <1>1, <1>2, <1>3, <3>1, <3>3, <3>5, <3>6
  <2>3. QED  BY <2>1, <2>2
<1>7. ASSUME NEW t \in Clients, task'[t] = "message", Told', loop' = "read"
      PROVE  message'[t] = menu'
  <2>1. CASE readMenu(t)
    BY <1>1, <2>1 DEF readMenu
  <2>2. CASE ~readMenu(t)
    <3>1. task[t] = "message"
      BY <1>7, <2>2, TaskSteps
    <3>2. loop = "read"
      <4>1. endSend \/ writeError => InLocks(t)
        BY <1>0, <3>1 DEF LocksInv, endSend, writeError
      <4>2. ~InLocks(t)
        BY <1>0, <3>1 DEF LocksInv, Holds
      <4>3. QED
        BY <1>1, <1>7, <4>1, <4>2, Changes DEF readEvent, moveActive, changeChannel,
           lockMenu, makeMessage, beginFlush
    <3>3. ~readEvent /\ ~moveActive
      BY <1>7 DEF readEvent, moveActive
    <3>4. Told /\ menu' = menu
      BY <1>7, <3>3, ToldStep
    <3>5. message[t] = menu
      BY <1>0, <3>1, <3>2, <3>4 DEF NewestInv
    <3>6. task \in [Clients -> {"none", "ready", "connected", "gone"} \cup ListedStates]
      BY <1>0 DEF StateInv
    <3>7. ~sendFirst(t)
      BY <1>7, <3>6 DEF sendFirst
    <3>8. message'[t] = message[t]
      BY <1>1, <2>2, <3>7, Changes DEF readMenu, sendFirst
    <3>9. QED  BY <3>4, <3>5, <3>8
  <2>3. QED  BY <2>1, <2>2
<1>8. QED  BY <1>4, <1>5, <1>6, <1>7 DEF NewestInv

\* LEMMA.  The screen and the buffer of a client of one task, c, change only by what is
\* done for that task.
LEMMA OwnStep ==
  ASSUME Inv, [Next]_vars, outcome = "running", NEW t \in Clients,
         task[t] \in ListedStates, ~Shared(stream[t])
  PROVE  /\ \/ screen'[stream[t]] = screen[stream[t]] /\ buffer'[stream[t]] = buffer[stream[t]]
            \/ sendFirst(t) \/ sendCommands(t)
            \/ /\ writeNext \/ flushNext
               /\ turn \in DOMAIN locks /\ locks[turn] = t /\ Receiver = stream[t]
         /\ \A u \in Clients : stream[u] = stream[t] => u = t
         /\ stream[t] \in Clients
<1>1. screen \in [Clients -> Int] /\ buffer \in [Clients -> Int]
  BY DEF Inv, StateInv
<1>2. \A u \in Clients : stream[u] = stream[t] => u = t
  BY DEF Shared
<1>3. stream[t] \in Clients
  BY ClientFacts
<1>4. ASSUME NEW u \in Clients, sendFirst(u) \/ sendCommands(u), u # t
      PROVE  screen'[stream[t]] = screen[stream[t]] /\ buffer'[stream[t]] = buffer[stream[t]]
  <2>1. stream[u] # stream[t]
    BY <1>2, <1>4
  <2>2. QED  BY <1>1, <1>3, <1>4, <2>1 DEF sendFirst, sendCommands
<1>5. ASSUME writeNext \/ flushNext
      PROVE  \/ screen'[stream[t]] = screen[stream[t]] /\ buffer'[stream[t]] = buffer[stream[t]]
             \/ turn \in DOMAIN locks /\ locks[turn] = t /\ Receiver = stream[t]
  <2>1. turn <= Len(locks)
    BY <1>5 DEF writeNext, flushNext
  <2>2. /\ turn \in DOMAIN locks /\ locks[turn] \in Clients
        /\ Receiver = stream[locks[turn]] /\ Receiver \in Clients
    BY <2>1, ReceiverFacts
  <2>3. CASE locks[turn] = t
    BY <2>2, <2>3
  <2>4. CASE locks[turn] # t
    <3>1. Receiver # stream[t]
      BY <1>2, <2>2, <2>4
    <3>2. QED  BY <1>1, <1>3, <1>5, <2>2, <3>1 DEF writeNext, flushNext, outputVars
  <2>5. QED  BY <2>3, <2>4
<1>6. QED  BY <1>2, <1>3, <1>4, <1>5, Changes

LEMMA ForwardStep ==
  ASSUME Inv, [Next]_vars, outcome = "running", outcome' = "running"
  PROVE  ForwardInv'
<1>0. StateInv /\ ListInv /\ LocksInv /\ NewestInv /\ ForwardInv /\ StateInv'
  BY StateStep DEF Inv
<1>1. /\ screen \in [Clients -> Int] /\ buffer \in [Clients -> Int]
      /\ message \in [Clients -> Int] /\ menu \in Nat
      /\ task \in [Clients -> {"none", "ready", "connected", "gone"} \cup ListedStates]
      /\ text \in Nat \cup {NoMenu} /\ NoMenu = -1
  BY <1>0 DEF StateInv, NoMenu
<1>2. ASSUME NEW c \in Clients, ~Shared(c)'
      PROVE  buffer'[c] = NoMenu \/ screen'[c] <= buffer'[c]
  <2>1. ~Shared(c)
    BY <1>2, SharedStep
  <2>2. buffer[c] = NoMenu \/ screen[c] <= buffer[c]
    BY <1>0, <2>1 DEF ForwardInv
  <2>3. CASE writeNext
    <3>1. screen' = screen /\ buffer' = [buffer EXCEPT ![Receiver] = text] /\ loop = "write"
      BY <2>3 DEF writeNext
    <3>2. screen[c] <= text
      BY <1>0, <3>1 DEF NewestInv
    <3>3. QED  BY <1>1, <2>2, <3>1, <3>2
  <2>4. CASE flushNext
    BY <1>1, <2>2, <2>4 DEF flushNext
  <2>5. ASSUME NEW u \in Clients, sendFirst(u) \/ sendCommands(u)
        PROVE  buffer'[c] = NoMenu \/ screen'[c] <= buffer'[c]
    BY <1>1, <2>2, <2>5 DEF sendFirst, sendCommands
  <2>6. QED  BY <2>2, <2>3, <2>4, <2>5, Changes
<1>3. ASSUME NEW t \in Clients, task'[t] = "message", ~Shared(stream[t])'
      PROVE  screen'[stream'[t]] <= message'[t]
  <2>1. CASE readMenu(t)
    <3>1. message'[t] = menu /\ UNCHANGED <<screen, stream>>
      BY <1>1, <2>1 DEF readMenu, outputVars
    <3>2. stream[t] \in Clients
      BY <2>1, ClientFacts DEF readMenu, ListedStates
    <3>3. QED  BY <1>0, <3>1, <3>2 DEF NewestInv
  <2>2. CASE ~readMenu(t)
    <3>1. task[t] = "message"
      BY <1>3, <2>2, TaskSteps
    <3>2. stream'[t] = stream[t] /\ stream[t] \in Clients
      BY <3>1, SharedStep, ClientFacts DEF ListedStates
    <3>3. ~Shared(stream[t])
      <4>1. PICK c \in Clients : c = stream[t] /\ c = stream'[t]
        BY <3>2
      <4>2. ~Shared(c)'
        BY <1>3, <4>1 DEF Shared
      <4>3. QED  BY <4>1, <4>2, SharedStep
    <3>4. screen[stream[t]] <= message[t]
      BY <1>0, <3>1, <3>3 DEF ForwardInv
    <3>5. ~sendFirst(t) /\ ~sendCommands(t)
      BY <1>1, <1>3, <3>1 DEF sendFirst, sendCommands
    <3>6. ~InLocks(t)
      BY <1>0, <3>1 DEF LocksInv, Holds
    <3>7. screen'[stream[t]] = screen[stream[t]]
      BY <3>1, <3>3, <3>5, <3>6, OwnStep DEF InLocks, ListedStates
    <3>8. message'[t] = message[t]
      BY <1>1, <2>2, <3>5, Changes DEF readMenu, sendFirst
    <3>9. QED  BY <3>2, <3>4, <3>7, <3>8
  <2>3. QED  BY <2>1, <2>2
<1>4. QED  BY <1>2, <1>3 DEF ForwardInv

\* LEMMA.  A task that counts after a step did before, unless its first menu was sent.
LEMMA CountsStep ==
  ASSUME Inv, [Next]_vars, outcome = "running", NEW t \in Clients, Counts(t)'
  PROVE  /\ ~Shared(stream[t]) /\ stream'[t] = stream[t] /\ stream[t] \in Clients
         /\ task[t] \in ListedStates
         /\ sendFirst(t) \/ (Counts(t) /\ task[t] = "input" /\ task'[t] = "input")
<1>1. task'[t] = "input" /\ stream'[t] \notin left' \cup raced' /\ ~Shared(stream[t])'
  BY DEF Counts
<1>2. task[t] = "input" \/ sendFirst(t)
  BY <1>1, TaskSteps
<1>3. task[t] \in ListedStates /\ task[t] # "ready"
  BY <1>2 DEF sendFirst, ListedStates
<1>4. stream'[t] = stream[t] /\ stream[t] \in Clients
  BY <1>3, SharedStep, ClientFacts
<1>5. ~Shared(stream[t])
  <2>1. PICK c \in Clients : c = stream[t] /\ c = stream'[t]
    BY <1>4
  <2>2. ~Shared(c)'
    BY <1>1, <2>1 DEF Shared
  <2>3. QED  BY <2>1, <2>2, SharedStep
<1>6. left \subseteq left'
  BY Changes DEF hangUp
<1>7. raced \subseteq raced'
  BY Changes DEF sendCommands
<1>8. QED  BY <1>1, <1>2, <1>3, <1>4, <1>5, <1>6, <1>7 DEF Counts

LEMMA ScreenStep ==
  ASSUME Inv, [Next]_vars, outcome = "running", outcome' = "running"
  PROVE  ScreenInv'
<1>0. /\ StateInv /\ ListInv /\ LocksInv /\ NewestInv /\ ScreenInv
      /\ StateInv' /\ LocksInv'
  BY StateStep, LocksStep DEF Inv
<1> SUFFICES ASSUME NEW t \in Clients, Counts(t)'
             PROVE  Served(t)'
  BY DEF ScreenInv
<1>1. /\ screen \in [Clients -> Int] /\ buffer \in [Clients -> Int]
      /\ locks \in Seq(Clients) /\ turn \in Nat \ {0} /\ menu \in Nat
      /\ loop \in Inside \cup Between
  BY <1>0 DEF StateInv, Inside
<1>2. PICK c \in Clients : c = stream[t] /\ c = stream'[t] /\ ~Shared(stream[t])
  BY CountsStep
<1>3. task[t] \in ListedStates
  BY CountsStep
<1> DEFINE
      Idle(l, sh, b, s, m, d) ==
        l \in Between \cup {"lock"} /\ ~sh => b = NoMenu /\ (d /\ l = "read" => s = m)
      Sent(ls, l, n, b, s, x) ==
        \A i \in DOMAIN ls : ls[i] = t =>
          /\ l = "write" /\ i < n => b = x
          /\ l = "flush" /\ i >= n => b = x
          /\ l = "flush" /\ i < n => b = NoMenu /\ s = x
<1>4. Served(t)' <=> /\ Idle(loop', short', buffer'[c], screen'[c], menu', Told')
                     /\ Sent(locks', loop', turn', buffer'[c], screen'[c], text')
  BY <1>2 DEF Served
<1>5. Served(t) <=> /\ Idle(loop, short, buffer[c], screen[c], menu, Told)
                    /\ Sent(locks, loop, turn, buffer[c], screen[c], text)
  BY <1>2 DEF Served
<1>6. CASE sendFirst(t)
  <2>1. /\ task[t] = "message" /\ UNCHANGED <<loop, locks, events, change, menu>>
        /\ task \in [Clients -> {"none", "ready", "connected", "gone"} \cup ListedStates]
        /\ task'[t] = "input"
    BY <1>0, <1>6 DEF sendFirst, loopVars, Counts, StateInv
  <2>2. screen'[c] = message[t] /\ buffer'[c] = NoMenu
    BY <1>1, <1>2, <1>6, <2>1 DEF sendFirst
  <2>3. ~InLocks(t)
    BY <1>0, <2>1 DEF LocksInv, Holds
  <2>4. Idle(loop', short', buffer'[c], screen'[c], menu', Told')
    BY <1>0, <2>1, <2>2 DEF NewestInv, Told
  <2>5. Sent(locks', loop', turn', buffer'[c], screen'[c], text')
    BY <2>1, <2>3 DEF InLocks
  <2>6. QED  BY <1>4, <2>4, <2>5
<1>7. CASE ~sendFirst(t)
  <2>1. Counts(t) /\ task[t] = "input"
    BY <1>7, CountsStep
  <2>2. /\ Idle(loop, short, buffer[c], screen[c], menu, Told)
        /\ Sent(locks, loop, turn, buffer[c], screen[c], text)
    BY <1>0, <1>5, <2>1 DEF ScreenInv
  <2>3. CASE sendCommands(t)
    <3>1. UNCHANGED <<loop, locks, turn, text, short, menu, events, change>>
      BY <2>3 DEF sendCommands, loopVars
    <3>2. loop \notin {"write", "flush"}
      <4> SUFFICES ASSUME loop \in {"write", "flush"} PROVE FALSE
        OBVIOUS
      <4>1. InLocks(t)
        BY <1>0, <2>1 DEF LocksInv
      <4>2. Contains(locks, t)
        BY <1>1, <4>1 DEF InLocks, Contains
      <4>3. c \in raced'
        BY <1>2, <2>3, <4>2 DEF sendCommands
      <4>4. QED  BY <1>2, <4>3 DEF Counts
    <3>3. buffer'[c] = NoMenu /\ (buffer[c] = NoMenu => screen'[c] = screen[c])
      BY <1>1, <1>2, <2>3 DEF sendCommands
    <3>4. Idle(loop', short', buffer'[c], screen'[c], menu', Told')
      BY <2>2, <3>1, <3>3 DEF Told
    <3>5. Sent(locks', loop', turn', buffer'[c], screen'[c], text')
      BY <1>1, <3>1, <3>2
    <3>6. QED  BY <1>4, <3>4, <3>5
  <2>4. CASE writeNext /\ turn \in DOMAIN locks /\ locks[turn] = t /\ Receiver = stream[t]
    <3>1. /\ buffer' = [buffer EXCEPT ![Receiver] = text] /\ turn' = turn + 1
          /\ UNCHANGED <<loop, locks, text>> /\ loop = "write"
      BY <2>4 DEF writeNext
    <3>2. buffer'[c] = text
      BY <1>1, <1>2, <2>4, <3>1
    <3>3. QED  BY <1>4, <3>1, <3>2 DEF Between, Inside
  <2>5. CASE flushNext /\ turn \in DOMAIN locks /\ locks[turn] = t /\ Receiver = stream[t]
    <3>1. /\ turn' = turn + 1 /\ UNCHANGED <<loop, locks, text>> /\ loop = "flush"
      BY <2>5 DEF flushNext
    <3>2. buffer[c] = text
      BY <1>1, <2>2, <2>5, <3>1
    <3>3. text # NoMenu
      BY <1>0, <3>1 DEF NewestInv, NoMenu
    <3>4. screen'[c] = text /\ buffer'[c] = NoMenu
      BY <1>1, <1>2, <2>5, <3>2, <3>3 DEF flushNext
    <3>5. \A i \in DOMAIN locks : locks[i] = t => i = turn
      BY <1>0, <2>5 DEF LocksInv
    <3>6. Sent(locks', loop', turn', buffer'[c], screen'[c], text')
      BY <1>1, <3>1, <3>4, <3>5
    <3>7. QED  BY <1>4, <3>1, <3>6 DEF Between, Inside
  <2>6. CASE /\ screen'[c] = screen[c] /\ buffer'[c] = buffer[c]
             /\ ~(/\ writeNext \/ flushNext
                  /\ turn \in DOMAIN locks /\ locks[turn] = t /\ Receiver = stream[t])
    <3>1. Idle(loop', short', buffer'[c], screen'[c], menu', Told')
      <4>1. CASE endSend
        <5>1. loop = "flush" /\ turn > Len(locks) /\ ~readEvent /\ ~moveActive
          BY <4>1 DEF endSend, readEvent, moveActive
        <5>2. PICK i \in DOMAIN locks : locks[i] = t
          BY <1>0, <2>1, <5>1 DEF LocksInv, InLocks
        <5>3. i < turn
          BY <1>1, <5>1, <5>2
        <5>4. buffer[c] = NoMenu /\ screen[c] = text
          BY <2>2, <5>1, <5>2, <5>3
        <5>5. Told' => text = menu /\ menu' = menu
          BY <1>0, <5>1, ToldStep DEF NewestInv
        <5>6. QED  BY <2>6, <5>4, <5>5
      <4>2. CASE writeError
        BY <4>2 DEF writeError
      <4>3. CASE ~endSend /\ ~writeError
        <5>1. short' = short
          BY <4>3, Changes
        <5>2. loop' \in Between \cup {"lock"} => loop \in Between \cup {"lock"}
          BY <1>1, <4>3, Changes DEF readEvent, moveActive, changeChannel, lockMenu,
             makeMessage, beginFlush, Between, Inside
        <5>3. loop' = "read" => loop = "read" /\ ~readEvent /\ ~moveActive
          BY <4>3, Changes DEF readEvent, moveActive, changeChannel, lockMenu, makeMessage,
             beginFlush
        <5>4. loop' = "read" /\ Told' => Told /\ menu' = menu
          BY <5>3, ToldStep
        <5>5. QED  BY <2>2, <2>6, <5>1, <5>2, <5>3, <5>4
      <4>4. QED  BY <4>1, <4>2, <4>3
    <3>2. Sent(locks', loop', turn', buffer'[c], screen'[c], text')
      <4>1. CASE makeMessage
        <5>1. loop' = "write" /\ turn' = 1 /\ locks' = locks
          BY <1>0, <4>1 DEF makeMessage, LocksInv
        <5>2. QED  BY <1>1, <5>1
      <4>2. CASE beginFlush
        <5>1. /\ loop' = "flush" /\ loop = "write" /\ turn' = 1 /\ turn > Len(locks)
              /\ UNCHANGED <<locks, text>>
          BY <4>2 DEF beginFlush
        <5>2. \A i \in DOMAIN locks : i < turn /\ ~(i < 1)
          BY <1>1, <5>1
        <5>3. QED  BY <2>2, <2>6, <5>1, <5>2
      <4>3. CASE loop' \in {"write", "flush"} /\ ~makeMessage /\ ~beginFlush
        <5>1. loop' = loop
          BY <4>3, Changes DEF readEvent, moveActive, changeChannel, lockMenu, endSend,
             writeError, Returns
        <5>2. locks' = locks /\ text' = text
          BY <4>3, <5>1, Changes DEF lockNext, endSend, writeError, Returns
        <5>3. CASE turn' = turn
          BY <2>2, <2>6, <5>1, <5>2, <5>3
        <5>4. CASE writeNext \/ flushNext
          <6>1. turn' = turn + 1 /\ turn <= Len(locks) /\ Receiver = stream[locks[turn]]
            BY <5>4, ReceiverFacts DEF writeNext, flushNext
          <6>2. locks[turn] # t
            <7> SUFFICES ASSUME locks[turn] = t PROVE FALSE
              OBVIOUS
            <7>1. turn \in DOMAIN locks /\ Receiver = stream[t]
              BY <6>1, ReceiverFacts
            <7>2. QED  BY <2>6, <5>4, <7>1
          <6>3. \A i \in DOMAIN locks : locks[i] = t => (i < turn' <=> i < turn)
            <7>1. turn \in Nat /\ \A i \in DOMAIN locks : i \in Nat
              BY <1>1
            <7>2. QED  BY ONLY <6>1, <6>2, <7>1
          <6>4. QED  BY <1>1, <2>2, <2>6, <5>1, <5>2, <6>1, <6>3
        <5>5. QED
          BY <4>3, <5>1, <5>3, <5>4, Changes DEF endSend, writeError, Returns
      <4>4. CASE loop' \notin {"write", "flush"}
        BY <4>4
      <4>5. QED  BY <4>1, <4>2, <4>3, <4>4
    <3>3. QED  BY <1>4, <3>1, <3>2
  <2>7. QED  BY <1>2, <1>3, <1>7, <2>3, <2>4, <2>5, <2>6, OwnStep
<1>8. QED  BY <1>6, <1>7

\* LEMMA.  The invariant is inductive: the process that has ended stays as it is.
LEMMA InvStep == IInv /\ [Next]_vars => IInv'
<1> SUFFICES ASSUME IInv, [Next]_vars, outcome' = "running"
             PROVE  Inv'
  BY DEF IInv
<1>1. outcome = "running"
  BY DEF Next, Done, vars
<1>2. Inv
  BY <1>1 DEF IInv
<1>3. QED
  BY <1>1, <1>2, StateStep, ListStep, LocksStep, NewestStep, ForwardStep, ScreenStep DEF Inv

-------------------------------------------------------------------------------
(* The theorems                                                            *)

\* THEOREM.  While the process runs, the locks, the list and the menus under way are as
\* described (MultiWriter and LockedMultiWriter, radio_menu's lock, UserConnection).
THEOREM MenuServerInvariant == Spec => []IInv
BY InitInv, InvStep, PTL DEF Spec

\* THEOREM.  When no menu is on the way every user who has had a first menu has the present
\* one (sendMenu, addStream and the first menu of UserConnection).
THEOREM EveryoneIsCurrent == Spec => []ScreensAreCurrent
<1>1. ASSUME IInv PROVE ScreensAreCurrent
  <2> SUFFICES ASSUME Quiet, ~short, NEW t \in Clients, task[t] = "input",
                      stream[t] \notin left \cup raced, ~Shared(stream[t])
               PROVE  screen[stream[t]] = menu
    BY DEF ScreensAreCurrent
  <2>1. Inv
    BY <1>1 DEF IInv, Quiet
  <2>2. Served(t)
    BY <2>1 DEF Inv, ScreenInv, Counts
  <2>3. QED  BY <2>2 DEF Served, Quiet, Told, Between, Inside
<1>2. QED  BY <1>1, MenuServerInvariant, PTL

\* LEMMA.  A step sends a client of one task no menu older than the one it has.
LEMMA ForwardMove ==
  ASSUME Inv, [Next]_vars, outcome = "running", NEW c \in Clients, ~Shared(c)'
  PROVE  screen'[c] >= screen[c]
<1>1. /\ screen \in [Clients -> Int] /\ buffer \in [Clients -> Int]
      /\ message \in [Clients -> Int]
  BY DEF Inv, StateInv
<1>2. ~Shared(c)
  BY SharedStep
<1>3. buffer[c] = NoMenu \/ screen[c] <= buffer[c]
  BY <1>2 DEF Inv, ForwardInv
<1>4. ASSUME NEW t \in Clients, sendFirst(t)
      PROVE  screen'[c] >= screen[c]
  <2>1. CASE stream[t] = c
    <3>1. task[t] = "message"
      BY <1>4 DEF sendFirst
    <3>2. screen[c] <= message[t]
      BY <1>2, <2>1, <3>1 DEF Inv, ForwardInv
    <3>3. QED  BY <1>1, <1>4, <2>1, <3>2 DEF sendFirst
  <2>2. CASE stream[t] # c
    BY <1>1, <1>4, <2>2 DEF sendFirst
  <2>3. QED  BY <2>1, <2>2
<1>5. ASSUME NEW t \in Clients, sendCommands(t)
      PROVE  screen'[c] >= screen[c]
  BY <1>1, <1>3, <1>5 DEF sendCommands
<1>6. CASE flushNext
  BY <1>1, <1>3, <1>6 DEF flushNext
<1>7. QED  BY <1>1, <1>4, <1>5, <1>6, Changes

\* THEOREM.  The menus a user is sent are newer and newer: a first menu is read with the
\* writer locked, and the event loop reads its own with all of them locked (MultiWriter::lock
\* in sendMenu, UserConnection).
THEOREM MenusGoForward == Spec => ScreensMoveForward
<1> DEFINE Forward == \A c \in Clients : ~Shared(c)' => screen'[c] >= screen[c]
<1>1. IInv /\ [Next]_vars => [Forward]_vars
  <2> SUFFICES ASSUME IInv, [Next]_vars
               PROVE  [Forward]_vars
    OBVIOUS
  <2>1. CASE outcome = "running"
    BY <2>1, ForwardMove DEF IInv
  <2>2. CASE outcome # "running"
    BY <2>2 DEF Next, Done
  <2>3. QED  BY <2>1, <2>2
<1>2. ScreensMoveForward <=> [][Forward]_vars
  BY DEF ScreensMoveForward
<1> HIDE DEF Forward
<1>3. QED  BY <1>1, <1>2, MenuServerInvariant, PTL DEF Spec

===============================================================================
