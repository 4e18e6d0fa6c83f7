----------------------------- MODULE PlayerProofs -----------------------------
(***************************************************************************)
(* Proofs about Player, for any packets, stations and changes of channel.  *)
(*                                                                         *)
(* Deck has the theorems about the AudioBuffer.  Left to show is that the  *)
(* threads use it as one: that the flag initiated, the buffer and what     *)
(* SessionInfo says of it, which have a lock each, go together wherever    *)
(* each of the threads is.                                                 *)
(***************************************************************************)
EXTENDS Player, SequenceTheorems, TLAPS

Deck == INSTANCE AudioBufferProofs

Resetting == {"reset", "reset buffer", "reset session"}
HasPacket == {"compare", "put", "putting"} \cup Resetting
NotRunning == {"none", "ended", "failed"}

OfSession(s) == \A i \in SlotsFilled : packets[i].session = s
OfPort(n) == \A i \in SlotsFilled : Port[packets[i].channel] = n
OfSize(n) == \A i \in SlotsFilled : packets[i].size = n

\* The flag is cleared before a new buffer is made, and a listener starts with it
\* cleared; there is a buffer for whoever has seen it set.
FlagInv ==
  /\ listener \in Resetting \cup {"none", "start"} => ~initiated
  /\ loop = "spawn" => ~initiated
  /\ loop \in {"uninit", "spawn"} => listener \in NotRunning
  /\ initiated \/ output \in {"ready", "pop"} \/ listener \in {"compare", "put", "putting"} =>
       psize > 0

\* What SessionInfo says is true of the buffer but for the moment in which the buffer
\* is new: then it is true of the packet the listener holds.
SessionInv ==
  /\ listener # "reset session" => session_psize = psize /\ OfSession(session_id)
  /\ listener = "reset session" /\ ~undefined =>
       psize > 0 /\ packet.size = psize /\ OfSession(packet.session) /\ OfPort(Port[channel])
  /\ listener = "reset buffer" => missing_packets = {}

\* The listener's packet came to the port of its channel, and so did those in the buffer
\* it puts it in, which are of one size.
PacketInv ==
  /\ listener \in HasPacket => packet \in Packets /\ Port[packet.channel] = Port[channel]
  /\ listener = "put" => packet.session = session_id
  /\ pushing # NoPacket =>
       listener = "putting" /\ pushing = packet /\ packet.session = session_id
  /\ listener \in {"compare", "put", "putting"} => OfPort(Port[channel])
  /\ initiated /\ listener \in {"check", "receive"} => OfPort(Port[channel])
  /\ OfSize(psize)
  /\ pushing # NoPacket => pushing.size = psize
  /\ BufferOfOneSession

\* Nobody sees the flag set while the buffer is a leftover; who saw it before plays
\* one packet.
StaleInv ==
  leftover =>
    /\ ~initiated
    /\ listener # "reset session"
    /\ stale \in {0, 1}
    /\ output \in {"ready", "pop"} => stale = 0

IInv ==
  /\ TypeOK
  /\ Deck!IInv
  /\ FlagInv
  /\ SessionInv
  /\ PacketInv
  /\ StaleInv

-------------------------------------------------------------------------------
(* The buffer.                                                             *)

\* LEMMA.  The steps of Buffer are those of Deck, which is another instance of it.
LEMMA BufferStepIsDecks == [Buffer!Next]_bufferVars => [Deck!Next]_(Deck!bufferVars)
<1>1. \A ap \in Packets : Buffer!putPacket(ap) => Deck!putPacket(ap)
  BY DEF Deck!putPacket, Buffer!putPacket, Deck!push, Buffer!push,
         Deck!putMissing, Buffer!putMissing, Deck!pushOnEmpty, Buffer!pushOnEmpty,
         Deck!pushOld, Buffer!pushOld, Deck!pushNew, Buffer!pushNew,
         Deck!firstMissing, Buffer!firstMissing, Deck!back, Buffer!back,
         Deck!bufferVars, Buffer!bufferVars
<1>2. \A ap \in Packets : Buffer!newBuffer(ap) => Deck!newBuffer(ap)
  BY DEF Deck!newBuffer, Buffer!newBuffer, Deck!AudioBuffer, Buffer!AudioBuffer
<1>3. Buffer!fillMissing \/ Buffer!insertPushed => Deck!fillMissing \/ Deck!insertPushed
  BY DEF Deck!fillMissing, Buffer!fillMissing, Deck!insertPushed, Buffer!insertPushed,
         Deck!insertPacket, Buffer!insertPacket, Deck!dropped, Buffer!dropped
<1>4. Buffer!pop => Deck!pop
  BY DEF Deck!pop, Buffer!pop, Deck!popPacket, Buffer!popPacket,
         Deck!popNothing, Buffer!popNothing, Deck!dropPacket, Buffer!dropPacket
<1>5. Buffer!clearMissing \/ Buffer!takeMissing => Deck!clearMissing \/ Deck!takeMissing
  BY DEF Deck!clearMissing, Buffer!clearMissing, Deck!takeMissing, Buffer!takeMissing
<1>6. QED
  BY <1>1, <1>2, <1>3, <1>4, <1>5 DEF Deck!Next, Buffer!Next, bufferVars, Deck!bufferVars

\* LEMMA.  The buffer's invariant holds at first and is kept by its operations; restated
\* for the names that Player uses.
LEMMA DeckFacts ==
  /\ Buffer!Init => Deck!IInv
  /\ Deck!IInv /\ [Buffer!Next]_bufferVars => Deck!IInv'
  /\ Deck!IInv => Buffer!TypeOK
<1> USE PacketsAssumption, AlignedAssumption, BSizeAssumption, MarkerAssumption
<1>1. Buffer!Init => Deck!IInv
  BY Deck!InitInv DEF Buffer!Init, Deck!Init
<1>2. Deck!IInv /\ [Buffer!Next]_bufferVars => Deck!IInv'
  BY Deck!NextInv, BufferStepIsDecks
<1>3. Deck!IInv => Buffer!TypeOK
  BY DEF Deck!IInv, Deck!TypeOK, Buffer!TypeOK
<1>4. QED  BY <1>1, <1>2, <1>3

\* LEMMA.  Packets leave the buffer at its front ...
LEMMA PopSlots ==
  ASSUME Deck!IInv, Buffer!popPacket \/ Buffer!popNothing, NEW i \in SlotsFilled'
  PROVE  \E j \in SlotsFilled : packets'[i] = packets[j]
<1>1. packets \in Seq(Packets \cup {Missing})
  BY DeckFacts DEF Buffer!TypeOK
<1>2. packets' = packets \/ (packets # <<>> /\ packets' = Tail(packets))
  BY DEF Buffer!popPacket, Buffer!popNothing, Buffer!dropPacket
<1>3. CASE packets' = packets
  BY <1>3 DEF SlotsFilled
<1>4. CASE packets # <<>> /\ packets' = Tail(packets)
  <2>1. Len(packets') = Len(packets) - 1 /\ i \in 1 .. Len(packets') /\ packets'[i] = packets[i + 1]
        /\ Len(packets) \in Nat
    BY <1>1, <1>4, HeadTailProperties DEF SlotsFilled
  <2>2. i + 1 \in SlotsFilled
    BY <2>1 DEF SlotsFilled
  <2>3. QED  BY <2>1, <2>2
<1>5. QED  BY <1>2, <1>3, <1>4

\* LEMMA.  ... and only the one being pushed joins them.
LEMMA PushSlots ==
  ASSUME Deck!IInv, Buffer!fillMissing \/ Buffer!insertPushed, NEW i \in SlotsFilled'
  PROVE  packets'[i] = pushing \/ \E j \in SlotsFilled : packets'[i] = packets[j]
<1>1. packets \in Seq(Packets \cup {Missing}) /\ packets # <<>> /\ pushing \in Packets
  BY DeckFacts DEF Buffer!TypeOK, Buffer!fillMissing, Buffer!insertPushed, Deck!IInv, Deck!PushInv
<1>2. PICK slot \in {pushing, Missing} : Buffer!insertPacket(slot)
  BY DEF Buffer!fillMissing, Buffer!insertPushed
<1>3. PICK kept \in {packets, Tail(packets)} : packets' = Append(kept, slot)
  BY <1>2 DEF Buffer!insertPacket
<1>4. /\ kept \in Seq(Packets \cup {Missing}) /\ Len(kept) \in Nat /\ Len(packets) \in Nat
      /\ kept = packets \/ /\ Len(kept) = Len(packets) - 1
                           /\ \A k \in 1 .. Len(kept) : kept[k] = packets[k + 1]
  BY <1>1, HeadTailProperties, LenProperties
<1>5. /\ i \in 1 .. Len(kept) + 1 /\ packets'[i] # Missing
      /\ packets'[i] = IF i = Len(kept) + 1 THEN slot ELSE kept[i]
  BY <1>1, <1>2, <1>3, <1>4, AppendProperties DEF SlotsFilled
<1>6. CASE i = Len(kept) + 1
  BY <1>2, <1>5, <1>6
<1>7. CASE i # Len(kept) + 1 /\ kept = packets
  BY <1>4, <1>5, <1>7 DEF SlotsFilled
<1>8. CASE i # Len(kept) + 1 /\ kept # packets
  <2>1. i + 1 \in SlotsFilled /\ packets'[i] = packets[i + 1]
    BY <1>4, <1>5, <1>8 DEF SlotsFilled
  <2>2. QED  BY <2>1
<1>9. QED  BY <1>6, <1>7, <1>8

\* LEMMA.  What the threads do to the buffer is what AudioBuffer allows: they push packets
\* of its size only, and a new one is made when no request of the old is left.
LEMMA StepOfBuffer ==
  ASSUME IInv, [Next]_vars
  PROVE  [Buffer!Next]_bufferVars
<1>1. CASE UNCHANGED vars
  BY <1>1 DEF vars
<1> SUFFICES ASSUME Next PROVE [Buffer!Next]_bufferVars
  BY <1>1
<1>0. ~undefined
  BY DEF Next
<1>2. CASE putPacket
  <2>1. packet \in Packets /\ psize > 0 /\ session_psize = psize
    BY <1>2 DEF putPacket, IInv, PacketInv, FlagInv, SessionInv, HasPacket
  <2>2. Buffer!putPacket(packet) \/ UNCHANGED bufferVars
    BY <1>2, <2>1 DEF putPacket, Buffer!putPacket
  <2>3. QED
    BY <1>0, <2>1, <2>2 DEF Buffer!Next
<1>3. CASE resetBuffer
  <2>1. packet \in Packets /\ missing_packets = {} /\ Buffer!newBuffer(packet)
    BY <1>3 DEF resetBuffer, IInv, PacketInv, SessionInv, HasPacket, Resetting
  <2>2. QED
    BY <1>0, <2>1 DEF Buffer!Next
<1>4. CASE pushStep \/ resetMissing
  BY <1>0, <1>4 DEF pushStep, resetMissing, Buffer!Next
<1>5. CASE Listener /\ ~(putPacket \/ pushStep \/ resetMissing \/ resetBuffer)
  BY <1>5 DEF Listener, listenerStart, listenerCheck, receiveNothing, receivePacket,
              compareSessions, resetInfo, listenerError
<1>6. CASE Output
  BY <1>0, <1>6 DEF Output, readInitiated, readReady, playPacket, playNothing, outputUninit,
                    Buffer!Next, Buffer!pop, IInv, FlagInv
<1>7. CASE missingPacketsManager
  BY <1>0, <1>7 DEF missingPacketsManager, Buffer!Next
<1>8. CASE Loop \/ ChangerGoesOn \/ ChangerStarts
  BY <1>8 DEF Loop, readEvent, joinListener, loopUninit, spawnListener, ChangerGoesOn,
              changerUninit, postChange, ChangerStarts, setChannel, replaceGone
<1>9. QED
  BY <1>2, <1>3, <1>4, <1>5, <1>6, <1>7, <1>8 DEF Next

-------------------------------------------------------------------------------
(* The threads.                                                            *)

\* LEMMA.  The invariant holds before anything is received.
LEMMA InitInv == Init => IInv
<1> SUFFICES ASSUME Init PROVE IInv
  OBVIOUS
<1>1. Deck!IInv /\ Buffer!TypeOK
  BY DeckFacts DEF Init
<1>2. packets = <<>> /\ SlotsFilled = {} /\ pushing = NoPacket /\ psize = 0 /\ ~undefined
  BY DEF Init, Buffer!Init, SlotsFilled
<1>3. TypeOK
  <2>1. changer \in [{"discoverer", "key"} -> {"idle", "uninit", "post"}]
    BY DEF Init
  <2>2. initiated \in BOOLEAN /\ leftover \in BOOLEAN
    BY Zenon DEF Init
  <2>3. changes \in 0 .. MaxChanges
    BY MaxChangesAssumption DEF Init
  <2>4. /\ session_id \in Nat /\ session_psize \in Nat /\ events \in Nat /\ stale \in Nat
        /\ current_channel \in Channels \cup {NoChannel}
        /\ channel \in Channels \cup {NoChannel}
        /\ packet \in Packets \cup {NoPacket}
    BY DEF Init
  <2>5. /\ listener \in {"none", "start", "check", "receive", "compare", "put", "putting",
                         "reset", "reset buffer", "reset session", "ended", "failed"}
        /\ output \in {"idle", "ready", "pop", "uninit"}
        /\ loop \in {"read", "join", "uninit", "spawn"}
    BY DEF Init
  <2>6. QED  BY <1>1, <2>1, <2>2, <2>3, <2>4, <2>5 DEF TypeOK
<1>4. FlagInv /\ SessionInv /\ PacketInv /\ StaleInv
  BY <1>2 DEF BufferOfOneSession, Init, FlagInv, SessionInv, PacketInv, StaleInv, OfSession,
              OfPort, OfSize, Resetting, HasPacket, NotRunning
<1>5. QED  BY <1>1, <1>3, <1>4 DEF IInv

\* What the invariant says beyond types and the buffer's own.
Together == FlagInv /\ SessionInv /\ PacketInv /\ StaleInv

BufferSteps ==
  \/ putPacket \/ pushStep \/ resetMissing \/ resetBuffer
  \/ playPacket \/ playNothing \/ missingPacketsManager

\* LEMMA.  Steps that leave the buffer alone.
LEMMA QuietSteps ==
  ASSUME IInv, Next, ~BufferSteps
  PROVE  Together'
<1>0. UNCHANGED <<packets, psize, pushing, missing_packets, undefined>> /\ ~undefined
  BY DEF BufferSteps, Next, Listener, listenerStart, listenerCheck, receiveNothing,
         receivePacket, compareSessions, resetInfo, listenerError, Output, readInitiated,
         readReady, outputUninit, Loop, readEvent, joinListener, loopUninit, spawnListener,
         ChangerGoesOn, changerUninit, postChange, ChangerStarts, setChannel, replaceGone,
         bufferVars
<1>1. \A s : OfSession(s)' <=> OfSession(s)
  BY <1>0 DEF OfSession, SlotsFilled
<1>2. \A n : (OfPort(n)' <=> OfPort(n)) /\ (OfSize(n)' <=> OfSize(n))
  BY <1>0 DEF OfPort, OfSize, SlotsFilled
<1>3. BufferOfOneSession'
  BY <1>0 DEF BufferOfOneSession, SlotsFilled, IInv, PacketInv
<1> USE <1>0, <1>1, <1>2, <1>3 DEF OnlyListener, Together, IInv, FlagInv, SessionInv,
        PacketInv, StaleInv, Resetting, HasPacket, NotRunning, sessionVars, staleVars,
        channelVars, listenerVars
<1>4. CASE listenerStart
  BY <1>4 DEF listenerStart
<1>5. CASE listenerCheck
  BY <1>5 DEF listenerCheck, channelIsCurrent
<1>6. CASE receiveNothing
  BY <1>6 DEF receiveNothing
<1>7. CASE \E p \in Packets : receivePacket(p)
  BY <1>7 DEF receivePacket, arrives
<1>8. CASE compareSessions
  <2>1. FlagInv'
    BY <1>8 DEF compareSessions
  <2>2. SessionInv'
    BY <1>8 DEF compareSessions
  <2>3. PacketInv'
    BY <1>8 DEF compareSessions
  <2>4. StaleInv'
    BY <1>8 DEF compareSessions
  <2>5. QED  BY <2>1, <2>2, <2>3, <2>4 DEF Together
<1>9. CASE resetInfo
  BY <1>9 DEF resetInfo
<1>10. CASE listenerError
  BY <1>10 DEF listenerError
<1>11. CASE readInitiated
  BY <1>11 DEF readInitiated
<1>12. CASE readReady
  <2>1. output' \in {"pop", "idle"} /\ output = "ready"
    BY <1>12 DEF readReady
  <2>2. QED
    BY <2>1, <1>12 DEF readReady
<1>13. CASE outputUninit
  BY <1>13 DEF outputUninit
<1>14. CASE readEvent
  BY <1>14 DEF readEvent
<1>15. CASE joinListener
  BY <1>15 DEF joinListener
<1>16. CASE loopUninit
  <2>1. FlagInv'
    BY <1>16 DEF loopUninit
  <2>2. SessionInv'
    BY <1>16 DEF loopUninit
  <2>3. PacketInv'
    BY <1>16 DEF loopUninit
  <2>4. StaleInv'
    BY <1>16 DEF loopUninit
  <2>5. QED  BY <2>1, <2>2, <2>3, <2>4 DEF Together
<1>17. CASE spawnListener
  BY <1>17 DEF spawnListener
<1>18. CASE \E c \in DOMAIN changer : changerUninit(c)
  <2>1. /\ UNCHANGED <<session_id, session_psize, listener, channel, packet, loop, output,
                       leftover, stale>>
        /\ initiated' => initiated
    BY ONLY <1>18 DEF changerUninit, sessionVars, staleVars, listenerVars
  <2>2. QED  BY <2>1
<1>19. CASE \E c \in DOMAIN changer : postChange(c)
  <2>1. /\ UNCHANGED <<session_id, session_psize, listener, channel, packet, loop, output,
                       leftover, stale>>
        /\ initiated' => initiated
    BY ONLY <1>19 DEF postChange, sessionVars, staleVars, listenerVars
  <2>2. QED  BY <2>1
<1>20. CASE ChangerStarts
  <2>1. /\ UNCHANGED <<session_id, session_psize, listener, channel, packet, loop, output,
                       leftover, stale>>
        /\ initiated' => initiated
    BY ONLY <1>20
       DEF ChangerStarts, setChannel, replaceGone, sessionVars, staleVars, listenerVars
  <2>2. QED  BY <2>1
<1>21. QED
  BY <1>4, <1>5, <1>6, <1>7, <1>8, <1>9, <1>10, <1>11, <1>12, <1>13, <1>14, <1>15, <1>16,
     <1>17, <1>18, <1>19, <1>20
     DEF BufferSteps, Next, Listener, Output, Loop, ChangerGoesOn

\* LEMMA.  Steps of the listener and of dataOutput that change the buffer.
LEMMA BusySteps ==
  ASSUME IInv, BufferSteps, ~undefined
  PROVE  Together'
<1>0. /\ packets \in Seq(Packets \cup {Missing}) /\ pushing \in Packets \cup {NoPacket}
  BY DeckFacts DEF IInv, Buffer!TypeOK
<1>1. CASE putPacket \/ resetMissing \/ missingPacketsManager
  <2>1. packets' = packets /\ psize' = psize
    BY <1>1 DEF putPacket, resetMissing, missingPacketsManager, Buffer!push, Buffer!putMissing,
                Buffer!pushOnEmpty, Buffer!pushOld, Buffer!pushNew, Buffer!clearMissing,
                Buffer!takeMissing, bufferVars, Buffer!bufferVars
  <2>2. \A s : OfSession(s)' <=> OfSession(s)
    BY <2>1 DEF OfSession, SlotsFilled
  <2>3. \A n : (OfPort(n)' <=> OfPort(n)) /\ (OfSize(n)' <=> OfSize(n))
    BY <2>1 DEF OfPort, OfSize, SlotsFilled
  <2>4. BufferOfOneSession'
    BY <2>1 DEF BufferOfOneSession, SlotsFilled, IInv, PacketInv
  <2>5. CASE putPacket
    <3>1. /\ pushing = NoPacket
          /\ pushing' = NoPacket \/ (pushing' = packet /\ packet.size = session_psize)
      BY <2>5 DEF putPacket, Buffer!push, Buffer!putMissing, Buffer!pushOnEmpty,
                  Buffer!pushOld, Buffer!pushNew, bufferVars, Buffer!bufferVars, IInv, PacketInv
    <3>2. QED
      BY <2>1, <2>2, <2>3, <2>4, <2>5, <3>1
         DEF putPacket, OnlyListener, Together, IInv, FlagInv, SessionInv, PacketInv,
             StaleInv, Resetting, HasPacket, NotRunning, sessionVars, staleVars, channelVars
  <2>6. CASE resetMissing
    BY <2>1, <2>2, <2>3, <2>4, <2>6
       DEF resetMissing, Buffer!clearMissing, OnlyListener, Together, IInv, FlagInv, SessionInv,
           PacketInv, StaleInv, Resetting, HasPacket, NotRunning, sessionVars, staleVars,
           channelVars
  <2>7. CASE missingPacketsManager
    BY <2>1, <2>2, <2>3, <2>4, <2>7
       DEF missingPacketsManager, Buffer!takeMissing, Together, IInv, FlagInv, SessionInv,
           PacketInv, StaleInv, Resetting, HasPacket, NotRunning, sessionVars, staleVars,
           channelVars, listenerVars
  <2>8. QED  BY <1>1, <2>5, <2>6, <2>7
<1>2. CASE pushStep
  <2>1. CASE Buffer!fillMissing \/ Buffer!insertPushed
    <3>1. /\ listener = "putting" /\ pushing = packet /\ packet.session = session_id
          /\ Port[packet.channel] = Port[channel] /\ OfSession(session_id) /\ OfPort(Port[channel])
          /\ OfSize(psize) /\ packet.size = psize
      BY <2>1 DEF IInv, PacketInv, SessionInv, HasPacket, Buffer!fillMissing, Buffer!insertPushed
    <3>2. OfSession(session_id)' /\ OfPort(Port[channel])' /\ OfSize(psize)'
      BY <1>2, <2>1, <3>1, PushSlots
         DEF pushStep, OfSession, OfPort, OfSize, sessionVars, IInv, Buffer!fillMissing,
             Buffer!insertPushed
    <3>3. BufferOfOneSession'
      BY <3>2 DEF BufferOfOneSession, OfPort, OfSize, OfSession
    <3>4. psize' = psize /\ undefined' = undefined /\ pushing' \in {pushing, NoPacket}
      BY <2>1 DEF Buffer!fillMissing, Buffer!insertPushed
    <3>5. /\ UNCHANGED <<listener, channel, packet, sessionVars, staleVars, output, loop>>
      BY <1>2, <2>1, <3>1 DEF pushStep, OnlyListener, Buffer!fillMissing, Buffer!insertPushed
    <3>6. QED
      BY <3>1, <3>2, <3>3, <3>4, <3>5
         DEF Together, IInv, FlagInv, SessionInv, PacketInv, StaleInv, Resetting, HasPacket,
             NotRunning, sessionVars, staleVars
  <2>2. CASE ~(Buffer!fillMissing \/ Buffer!insertPushed)
    <3>1. /\ UNCHANGED <<packets, psize, pushing, missing_packets, undefined>>
          /\ pushing = NoPacket /\ listener = "putting" /\ listener' = "check"
          /\ UNCHANGED <<channel, packet, sessionVars, staleVars, output, loop>>
      BY <1>2, <2>2 DEF pushStep, OnlyListener, bufferVars
    <3>2. \A s : OfSession(s)' <=> OfSession(s)
      BY <3>1 DEF OfSession, SlotsFilled
    <3>3. \A n : (OfPort(n)' <=> OfPort(n)) /\ (OfSize(n)' <=> OfSize(n))
      BY <3>1 DEF OfPort, OfSize, SlotsFilled
    <3>4. BufferOfOneSession'
      BY <3>1 DEF BufferOfOneSession, SlotsFilled, IInv, PacketInv
    <3>5. QED
      BY <3>1, <3>2, <3>3, <3>4
         DEF Together, IInv, FlagInv, SessionInv, PacketInv, StaleInv, Resetting, HasPacket,
             NotRunning, sessionVars, staleVars
  <2>3. QED  BY <2>1, <2>2
<1>3. CASE resetBuffer
  <2>1. /\ listener = "reset buffer" /\ listener' = "reset session" /\ ~leftover'
        /\ packet \in Packets /\ Port[packet.channel] = Port[channel] /\ pushing = NoPacket
        /\ UNCHANGED <<channel, packet, initiated, output, loop, pushing>>
        /\ loop \notin {"uninit", "spawn"}
        /\ ~initiated
    BY <1>3 DEF resetBuffer, Buffer!newBuffer, OnlyListener, sessionVars, IInv, PacketInv,
                FlagInv, HasPacket, Resetting, NotRunning
  <2>2. CASE undefined'
    <3>1. packets' = packets /\ psize' = psize
      BY <1>3, <2>2 DEF resetBuffer, Buffer!newBuffer
    <3>2. BufferOfOneSession' /\ OfSize(psize)'
      BY <3>1 DEF BufferOfOneSession, OfSize, SlotsFilled, IInv, PacketInv
    <3>3. QED
      BY <2>1, <2>2, <3>1, <3>2
         DEF Together, IInv, FlagInv, SessionInv, PacketInv, StaleInv, Resetting, HasPacket,
             NotRunning
  <2>3. CASE ~undefined'
    <3>1. packets' = <<packet>> /\ psize' = packet.size /\ psize' > 0
      BY <1>3, <2>3 DEF resetBuffer, Buffer!newBuffer, Buffer!AudioBuffer
    <3>2. OfSession(packet.session)' /\ OfPort(Port[channel])' /\ OfSize(psize)'
          /\ BufferOfOneSession'
      <4>1. SlotsFilled' \subseteq {1} /\ packets'[1] = packet /\ psize' = packet.size
        BY <3>1 DEF SlotsFilled
      <4>2. packet' = packet /\ channel' = channel /\ Port[packet.channel] = Port[channel]
        BY <2>1
      <4>3. QED  BY <4>1, <4>2 DEF OfSession, OfPort, OfSize, BufferOfOneSession
    <3>3. QED
      BY <2>1, <3>1, <3>2
         DEF Together, IInv, FlagInv, SessionInv, PacketInv, StaleInv, Resetting, HasPacket,
             NotRunning
  <2>4. QED  BY <2>2, <2>3
<1>4. CASE playPacket \/ playNothing
  <2>1. \A i \in SlotsFilled' : \E j \in SlotsFilled : packets'[i] = packets[j]
    BY <1>4, PopSlots DEF playPacket, playNothing, IInv
  <2>2. /\ UNCHANGED <<psize, pushing, undefined, sessionVars, listenerVars, loop, leftover>>
        /\ output = "pop" /\ output' \in {"idle", "uninit"}
        /\ pushing = NoPacket /\ missing_packets' \subseteq missing_packets
    BY <1>4 DEF playPacket, playNothing, Buffer!popPacket, Buffer!popNothing, staleVars,
                Buffer!dropPacket
  <2>3. \A s : OfSession(s) => OfSession(s)'
    BY <2>1 DEF OfSession
  <2>4. \A n : (OfPort(n) => OfPort(n)') /\ (OfSize(n) => OfSize(n)')
    BY <2>1 DEF OfPort, OfSize
  <2>5. BufferOfOneSession'
    BY <2>1 DEF BufferOfOneSession, IInv, PacketInv
  <2>6. leftover => stale' \in {0, 1}
    <3>1. output = "pop" /\ (stale' = stale \/ (leftover => stale' = stale + 1))
      BY <1>4 DEF playPacket, playNothing, staleVars
    <3>2. leftover => stale = 0
      BY <3>1 DEF IInv, StaleInv
    <3>3. QED  BY <3>1, <3>2
  <2>7. QED
    BY <2>2, <2>3, <2>4, <2>5, <2>6
       DEF Together, IInv, FlagInv, SessionInv, PacketInv, StaleInv, Resetting, HasPacket,
           NotRunning, sessionVars, listenerVars
<1>5. QED  BY <1>1, <1>2, <1>3, <1>4 DEF BufferSteps

\* LEMMA.  Every step keeps the types.
LEMMA NextTypes ==
  ASSUME IInv, Next, Deck!IInv'
  PROVE  TypeOK'
<1>0. Buffer!TypeOK'
  BY DEF Deck!IInv, Deck!TypeOK, Buffer!TypeOK
<1>1. TypeOK /\ (listener \in HasPacket => packet \in Packets)
  BY DEF IInv, PacketInv
<1>2. session_id \in Nat /\ session_psize \in Nat /\ events \in Nat /\ stale \in Nat
  BY <1>1, Zenon DEF TypeOK
<1>3. listener = "reset session" => packet.session \in Nat /\ packet.size \in Nat
  BY <1>1, SessionsAssumption, PacketsAssumption DEF HasPacket, Resetting
<1> USE DEF Next, Listener, listenerStart, listenerCheck, receiveNothing, receivePacket,
        compareSessions, putPacket, pushStep, resetMissing, resetBuffer, resetInfo,
        listenerError, OnlyListener, Output, readInitiated, readReady, playPacket, playNothing,
        outputUninit, missingPacketsManager, Loop, readEvent, joinListener, loopUninit,
        spawnListener, ChangerGoesOn, changerUninit, postChange, ChangerStarts, setChannel,
        replaceGone, sessionVars, staleVars, channelVars, listenerVars
<1>4. initiated' \in BOOLEAN /\ leftover' \in BOOLEAN
  BY <1>1 DEF TypeOK
<1>5. session_id' \in Nat /\ session_psize' \in Nat
  <2>1. \/ session_id' = session_id /\ session_psize' = session_psize
        \/ /\ session_id' = packet.session /\ session_psize' = packet.size
           /\ listener = "reset session"
    OBVIOUS
  <2>2. QED  BY ONLY <1>2, <1>3, <2>1
<1>6. events' \in Nat
  <2>1. events' = events \/ events' = events + 1 \/ (events > 0 /\ events' = events - 1)
    OBVIOUS
  <2>2. QED  BY ONLY <1>2, <2>1
<1>7. stale' \in Nat
  <2>1. stale' = stale \/ stale' = stale + 1 \/ stale' = 0
    OBVIOUS
  <2>2. QED  BY ONLY <1>2, <2>1
<1>8. changes' \in 0 .. MaxChanges
  <2>1. changes' = changes \/ (changes < MaxChanges /\ changes' = changes + 1)
    OBVIOUS
  <2>2. changes \in 0 .. MaxChanges
    BY ONLY <1>1, Zenon DEF TypeOK
  <2>3. QED  BY ONLY <2>1, <2>2, MaxChangesAssumption
<1>9. /\ current_channel' \in Channels \cup {NoChannel}
      /\ channel' \in Channels \cup {NoChannel}
      /\ packet' \in Packets \cup {NoPacket}
  BY <1>1 DEF TypeOK
<1>10. listener' \in {"none", "start", "check", "receive", "compare", "put", "putting",
                         "reset", "reset buffer", "reset session", "ended", "failed"}
  BY <1>1 DEF TypeOK
<1>11. output' \in {"idle", "ready", "pop", "uninit"}
  BY <1>1 DEF TypeOK
<1>12. loop' \in {"read", "join", "uninit", "spawn"}
  BY <1>1 DEF TypeOK
<1>13. changer' \in [{"discoverer", "key"} -> {"idle", "uninit", "post"}]
  BY <1>1, ZenonT(30) DEF TypeOK
<1>14. QED
  BY ONLY <1>0, <1>4, <1>5, <1>6, <1>7, <1>8, <1>9, <1>10, <1>11, <1>12, <1>13 DEF TypeOK

\* LEMMA.  Every step and every stutter keeps the invariant.
LEMMA NextInv == IInv /\ [Next]_vars => IInv'
<1> SUFFICES ASSUME IInv, [Next]_vars PROVE IInv'
  OBVIOUS
<1>1. Deck!IInv'
  BY StepOfBuffer, DeckFacts DEF IInv
<1>2. CASE Next
  <2>1. TypeOK' /\ ~undefined
    BY <1>1, <1>2, NextTypes DEF Next
  <2>2. Together'
    BY <1>2, <2>1, QuietSteps, BusySteps
  <2>3. QED  BY <1>1, <2>1, <2>2 DEF IInv, Together
<1>3. CASE UNCHANGED vars
  <2>1. /\ UNCHANGED <<packets, missing_packets, psize, pushing, undefined>>
        /\ UNCHANGED <<initiated, session_id, session_psize, current_channel, listener, channel,
                       packet, output, loop, changer, events, changes, leftover, stale>>
    BY <1>3 DEF vars, bufferVars, sessionVars, listenerVars, channelVars, staleVars
  <2>2. Buffer!TypeOK'
    BY <1>1 DEF Deck!IInv, Deck!TypeOK, Buffer!TypeOK
  <2>3. TypeOK'
    <3>1. TypeOK
      BY DEF IInv
    <3>2. /\ (initiated \in BOOLEAN)' /\ (session_id \in Nat)' /\ (session_psize \in Nat)'
          /\ (current_channel \in Channels \cup {NoChannel})'
          /\ (channel \in Channels \cup {NoChannel})' /\ (packet \in Packets \cup {NoPacket})'
          /\ (events \in Nat)' /\ (changes \in 0 .. MaxChanges)'
          /\ (leftover \in BOOLEAN)' /\ (stale \in Nat)'
      BY <2>1, <3>1, Zenon DEF TypeOK
    <3>3. /\ (listener \in {"none", "start", "check", "receive", "compare", "put", "putting",
                           "reset", "reset buffer", "reset session", "ended", "failed"})'
          /\ (output \in {"idle", "ready", "pop", "uninit"})'
      BY <2>1, <3>1, Zenon DEF TypeOK
    <3>4. /\ (loop \in {"read", "join", "uninit", "spawn"})'
          /\ (changer \in [{"discoverer", "key"} -> {"idle", "uninit", "post"}])'
      BY <2>1, <3>1, Zenon DEF TypeOK
    <3>5. QED  BY ONLY <2>2, <3>2, <3>3, <3>4, Zenon DEF TypeOK
  <2>4. FlagInv' /\ StaleInv'
    BY <2>1 DEF IInv, FlagInv, StaleInv
  <2>5. \A s : OfSession(s)' <=> OfSession(s)
    BY <2>1 DEF OfSession, SlotsFilled
  <2>6. \A n : (OfPort(n)' <=> OfPort(n)) /\ (OfSize(n)' <=> OfSize(n))
    BY <2>1 DEF OfPort, OfSize, SlotsFilled
  <2>7. BufferOfOneSession'
    BY <2>1 DEF BufferOfOneSession, SlotsFilled, IInv, PacketInv
  <2>8. SessionInv' /\ PacketInv'
    BY <2>1, <2>5, <2>6, <2>7 DEF IInv, SessionInv, PacketInv
  <2>9. QED  BY <1>1, <2>3, <2>4, <2>8 DEF IInv
<1>4. QED  BY <1>2, <1>3

-------------------------------------------------------------------------------

\* THEOREM.  Flag, buffer and SessionInfo go together, wherever the threads are.
THEOREM PlayerInvariant == Spec => []IInv
  BY InitInv, NextInv, PTL DEF Spec

\* THEOREM.  The fields that the threads share keep their types.
THEOREM PlayerTypeCorrect == Spec => []TypeOK
<1>1. IInv => TypeOK
  BY DEF IInv
<1>2. QED  BY <1>1, PlayerInvariant, PTL

\* THEOREM.  When initiated is set there is a buffer, and session_id and psize are its own:
\* however many channels, sessions and threads there are (resetSession, uninit).
THEOREM FlagIsRight == Spec => []InitiatedMatchesBuffer
<1>1. IInv => InitiatedMatchesBuffer
  BY DEF IInv, InitiatedMatchesBuffer, FlagInv, SessionInv, OfSession, Resetting
<1>2. QED  BY <1>1, PlayerInvariant, PTL

\* THEOREM.  The packets of a buffer are of one session, of one size and of stations with
\* one port, for any stations, also when the session_ids of some are equal
\* (dataListener, putPacket).
THEOREM OneSession == Spec => []BufferOfOneSession
<1>1. IInv => BufferOfOneSession
  BY DEF IInv, PacketInv
<1>2. QED  BY <1>1, PlayerInvariant, PTL

\* THEOREM.  Once the event loop has cleared the flag for a change of channel, one packet
\* of the old buffer is played at most.
THEOREM StaleBounded == Spec => []OneStalePacket
<1>1. \A n \in {0, 1} : n <= 1
  OBVIOUS
<1>2. IInv => OneStalePacket
  BY <1>1, Zenon DEF IInv, OneStalePacket, StaleInv
<1>3. QED  BY <1>2, PlayerInvariant, PTL

\* THEOREM.  The threads use the buffer as AudioBuffer says ...
THEOREM PlayerUsesBuffer == Spec => UsesBuffer
<1>1. Init => Buffer!Init
  BY DEF Init
<1>2. IInv /\ [Next]_vars => [Buffer!Next]_bufferVars
  BY StepOfBuffer
<1>3. QED  BY <1>1, <1>2, PlayerInvariant, PTL DEF Spec, UsesBuffer

\* THEOREM.  ... so what was proved of it holds of the buffer they share: its list is in
\* order, its requests are for packets it misses, and it plays none twice.
THEOREM PlayerKeepsBuffer ==
  Spec => [](Deck!SlotsInOrder /\ Deck!RequestsAreSound) /\ Deck!PlayedInOrder
<1>1. Buffer!Init => Deck!Init
  BY DEF Buffer!Init, Deck!Init
<1>2. [Buffer!Next]_bufferVars => [Deck!Next]_(Deck!bufferVars)
  BY BufferStepIsDecks
<1>3. Spec => Deck!Spec
  BY <1>1, <1>2, PlayerUsesBuffer, PTL DEF UsesBuffer, Deck!Spec
<1>4. QED
  BY <1>3, Deck!ListInOrder, Deck!RequestsSound, Deck!PlaybackInOrder, PTL,
     PacketsAssumption, AlignedAssumption, BSizeAssumption, MarkerAssumption
===============================================================================
