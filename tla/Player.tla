-------------------------------- MODULE Player --------------------------------
(***************************************************************************)
(* The receiver's playback (player.cc, and the part of radio-menu.cc's     *)
(* event loop that changes channels): threads around the AudioBuffer and   *)
(* SessionInfo, whose fields have a mutex each.                            *)
(*                                                                         *)
(*   listener    dataListener, a thread of its own for each channel: puts  *)
(*               the packets it receives in the buffer, or starts a new    *)
(*               buffer with them                                          *)
(*   output      dataOutput: plays the packets of the buffer               *)
(*   requester   missingPacketsManager: asks for the missing ones          *)
(*   loop        eventLoop: on CHANGE_CHANNEL it waits for the listener to *)
(*               end (the destructor of its future) and starts another     *)
(*   changer     whoever changes the channel: the discoverer, or the event *)
(*               loop itself, when a key selects a station                 *)
(*                                                                         *)
(* A step is what a thread does between two locks.                         *)
(***************************************************************************)
EXTENDS Integers, Sequences

CONSTANTS Packets,   \* records with .fbn, .size, .session and .channel
          BSize, Missing, NoPacket,     \* as in AudioBuffer
          Channels,  \* addresses of stations
          Port,      \* the port of each
          NoChannel, \* the empty optional
          MaxChanges \* bound on the changes of channel

\* What AudioBuffer assumes.
ASSUME PacketsAssumption ==
  \A p \in Packets : p.fbn \in Nat /\ p.size \in Nat
ASSUME AlignedAssumption ==
  \A p \in Packets : p.size > 0 => p.fbn % p.size = 0
ASSUME BSizeAssumption == BSize \in Nat
ASSUME MarkerAssumption == {Missing, NoPacket} \cap Packets = {}
ASSUME SessionsAssumption == \A p \in Packets : p.session \in Nat /\ p.channel \in Channels
ASSUME PortAssumption == DOMAIN Port = Channels
ASSUME NoChannelAssumption == NoChannel \notin Channels
ASSUME MaxChangesAssumption == MaxChanges \in Nat

VARIABLES packets, missing_map, missing_packets, lowest_fbn, ready, size, psize,
          pushing, fill, undefined, played, asked,   \* the AudioBuffer
          initiated, session_id, session_psize,      \* SessionInfo
          current_channel,
          listener, channel, packet,  \* dataListener: where it is, its channel,
                                      \* the packet it received
          output,      \* where dataOutput is
          loop,        \* where eventLoop is
          changer,     \* where each of the changers is
          events,      \* CHANGE_CHANNEL events in the event stream
          changes,     \* changes of channel so far
          leftover,    \* the buffer is of before the last change of channel ...
          stale        \* ... and that many packets were played from it since

bufferVars == <<packets, missing_map, missing_packets, lowest_fbn, ready, size,
                psize, pushing, fill, undefined, played, asked>>
sessionVars == <<initiated, session_id, session_psize>>
listenerVars == <<listener, channel, packet>>
channelVars == <<current_channel, changer, events, changes>>
staleVars == <<leftover, stale>>
vars == <<bufferVars, sessionVars, listenerVars, channelVars, staleVars, output, loop>>

Buffer == INSTANCE AudioBuffer

\* Nothing else happens in the step to what these threads keep.
OnlyListener == UNCHANGED <<channelVars, output, loop>>

Init ==
  /\ Buffer!Init
  /\ initiated = FALSE
  /\ session_id = 0
  /\ session_psize = 0
  /\ current_channel = NoChannel
  /\ listener = "none"
  /\ channel = NoChannel
  /\ packet = NoPacket
  /\ output = "idle"
  /\ loop = "read"
  /\ changer = [c \in {"discoverer", "key"} |-> "idle"]
  /\ events = 0
  /\ changes = 0
  /\ leftover = FALSE
  /\ stale = 0

-------------------------------------------------------------------------------
(* dataListener                                                            *)

\* The thread starts: the channel is read, and with none it ends at once.
listenerStart ==
  /\ listener = "start"
  /\ channel' = current_channel
  /\ listener' = IF current_channel = NoChannel THEN "ended" ELSE "check"
  /\ UNCHANGED <<packet, bufferVars, sessionVars, staleVars>>
  /\ OnlyListener

channelIsCurrent == current_channel = channel

listenerCheck ==
  /\ listener = "check"
  /\ listener' = IF channelIsCurrent THEN "receive" ELSE "ended"
  /\ UNCHANGED <<channel, packet, bufferVars, sessionVars, staleVars>>
  /\ OnlyListener

\* Nothing came for 100 ms, or it is too short for a packet.
receiveNothing ==
  /\ listener = "receive"
  /\ listener' = "check"
  /\ UNCHANGED <<channel, packet, bufferVars, sessionVars, staleVars>>
  /\ OnlyListener

\* The socket is bound to the channel's port, at any address: what comes to it is
\* what the channel's group is sent and what any station resends to that port.
arrives(p) == Port[p.channel] = Port[channel]

\* A packet arrives, of whatever sender, and initiated is read.
receivePacket(p) ==
  /\ listener = "receive"
  /\ arrives(p)
  /\ packet' = p
  /\ listener' = IF initiated THEN "compare" ELSE "reset"
  /\ UNCHANGED <<channel, bufferVars, sessionVars, staleVars>>
  /\ OnlyListener

compareSessions_LessOrEqual ==
  /\ listener = "compare"
  /\ listener' = IF packet.session < session_id THEN "check" ELSE "put"
  /\ UNCHANGED <<channel, packet, bufferVars, sessionVars, staleVars>>
  /\ OnlyListener

compareSessions_KeepInitiated ==
  /\ listener = "compare"
  /\ listener' = IF packet.session < session_id THEN "check"
                 ELSE IF packet.session = session_id THEN "put" ELSE "reset"
  /\ UNCHANGED <<channel, packet, bufferVars, sessionVars, staleVars>>
  /\ OnlyListener

\* A packet of an older session is dropped, one of the buffer's is put in it,
\* and for one of a newer session initiated is cleared first.
compareSessions ==
  /\ listener = "compare"
  /\ \/ /\ packet.session < session_id
        /\ listener' = "check"
        /\ UNCHANGED initiated
     \/ /\ packet.session = session_id
        /\ listener' = "put"
        /\ UNCHANGED initiated
     \/ /\ packet.session > session_id
        /\ listener' = "reset"
        /\ initiated' = FALSE
  /\ UNCHANGED <<channel, packet, bufferVars, session_id, session_psize, staleVars>>
  /\ OnlyListener

\* putPacket: a packet of another size is dropped.
putPacket ==
  /\ listener = "put"
  /\ IF session_psize = packet.size THEN Buffer!push(packet) ELSE UNCHANGED bufferVars
  /\ listener' = "putting"
  /\ UNCHANGED <<channel, packet, sessionVars, staleVars>>
  /\ OnlyListener

\* push goes on, holding the buffer's lock, and returns.
pushStep ==
  /\ listener = "putting"
  /\ \/ /\ Buffer!fillMissing \/ Buffer!insertPushed
        /\ UNCHANGED listener
     \/ /\ pushing = NoPacket
        /\ listener' = "check"
        /\ UNCHANGED bufferVars
  /\ UNCHANGED <<channel, packet, sessionVars, staleVars>>
  /\ OnlyListener

\* resetSession, in three steps.
resetMissing_Skipped ==
  /\ listener = "reset"
  /\ listener' = "reset buffer"
  /\ UNCHANGED <<channel, packet, bufferVars, sessionVars, staleVars>>
  /\ OnlyListener

resetMissing ==
  /\ listener = "reset"
  /\ Buffer!clearMissing
  /\ listener' = "reset buffer"
  /\ UNCHANGED <<channel, packet, sessionVars, staleVars>>
  /\ OnlyListener

resetBuffer ==
  /\ listener = "reset buffer"
  /\ Buffer!newBuffer(packet)
  /\ listener' = "reset session"
  /\ leftover' = FALSE
  /\ stale' = 0
  /\ UNCHANGED <<channel, packet, sessionVars>>
  /\ OnlyListener

\* session_id and psize have a lock each, but only the listener reads them.
resetInfo ==
  /\ listener = "reset session"
  /\ session_id' = packet.session
  /\ session_psize' = packet.size
  /\ initiated' = TRUE
  /\ listener' = "check"
  /\ UNCHANGED <<channel, packet, bufferVars, staleVars>>
  /\ OnlyListener

\* The socket of the channel cannot be had, or reading from it fails: the
\* exception ends the thread and stays in its future.
listenerError ==
  /\ listener \in {"check", "receive"}
  /\ listener' = "failed"
  /\ UNCHANGED <<channel, packet, bufferVars, sessionVars, staleVars>>
  /\ OnlyListener

Listener ==
  \/ listenerStart \/ listenerCheck \/ receiveNothing
  \/ \E p \in Packets : receivePacket(p)
  \/ compareSessions \/ putPacket \/ pushStep
  \/ resetMissing \/ resetBuffer \/ resetInfo
  \/ listenerError

-------------------------------------------------------------------------------
(* dataOutput and missingPacketsManager                                    *)

\* ready(): initiated is read under one lock and isReady under another.
readInitiated ==
  /\ output = "idle"
  /\ initiated
  /\ output' = "ready"
  /\ UNCHANGED <<bufferVars, sessionVars, listenerVars, channelVars, staleVars, loop>>

readReady ==
  /\ output = "ready"
  /\ pushing = NoPacket
  /\ output' = IF ready THEN "pop" ELSE "idle"
  /\ UNCHANGED <<bufferVars, sessionVars, listenerVars, channelVars, staleVars, loop>>

\* A packet is popped and written.
playPacket ==
  /\ output = "pop"
  /\ Buffer!popPacket
  /\ stale' = IF leftover THEN stale + 1 ELSE 0
  /\ output' = "idle"
  /\ UNCHANGED <<sessionVars, listenerVars, channelVars, leftover, loop>>

\* There is none to play.
playNothing ==
  /\ output = "pop"
  /\ Buffer!popNothing
  /\ output' = "uninit"
  /\ UNCHANGED <<sessionVars, listenerVars, channelVars, staleVars, loop>>

outputUninit ==
  /\ output = "uninit"
  /\ initiated' = FALSE
  /\ output' = "idle"
  /\ UNCHANGED <<bufferVars, session_id, session_psize, listenerVars, channelVars,
                 staleVars, loop>>

Output == readInitiated \/ readReady \/ playPacket \/ playNothing \/ outputUninit

missingPacketsManager ==
  /\ Buffer!takeMissing
  /\ UNCHANGED <<sessionVars, listenerVars, channelVars, staleVars, output, loop>>

-------------------------------------------------------------------------------
(* eventLoop                                                               *)

readEvent ==
  /\ loop = "read"
  /\ changer["key"] = "idle"
  /\ events > 0
  /\ events' = events - 1
  /\ loop' = "join"
  /\ UNCHANGED <<bufferVars, sessionVars, listenerVars, current_channel, changer,
                 changes, staleVars, output>>

\* The old future is destroyed, which waits for its thread.
joinListener ==
  /\ loop = "join"
  /\ listener \in {"none", "ended", "failed"}
  /\ loop' = "uninit"
  /\ UNCHANGED <<bufferVars, sessionVars, listenerVars, channelVars, staleVars, output>>

loopUninit_Dropped ==
  /\ loop = "uninit"
  /\ leftover' = TRUE
  /\ stale' = 0
  /\ loop' = "spawn"
  /\ UNCHANGED <<bufferVars, sessionVars, listenerVars, channelVars, output>>

loopUninit ==
  /\ loop = "uninit"
  /\ initiated' = FALSE
  /\ leftover' = TRUE
  /\ stale' = 0
  /\ loop' = "spawn"
  /\ UNCHANGED <<bufferVars, session_id, session_psize, listenerVars, channelVars, output>>

spawnListener ==
  /\ loop = "spawn"
  /\ listener' = "start"
  /\ loop' = "read"
  /\ UNCHANGED <<channel, packet, bufferVars, sessionVars, channelVars, staleVars, output>>

Loop == readEvent \/ joinListener \/ loopUninit \/ spawnListener

-------------------------------------------------------------------------------
(* changeChannel                                                           *)

\* The channel is set.  The event loop does it between two events, for a key;
\* the discoverer at any time.
setChannel(c, ch) ==
  /\ changer[c] = "idle"
  /\ c = "key" => loop = "read"
  /\ changes < MaxChanges
  /\ changes' = changes + 1
  /\ current_channel' = ch
  /\ changer' = [changer EXCEPT ![c] = "uninit"]
  /\ UNCHANGED <<bufferVars, sessionVars, listenerVars, events, staleVars, output, loop>>

\* sendLookup found the current station gone: it takes another, or none, and
\* posts the event itself, leaving initiated alone.
replaceGone(ch) ==
  /\ changer["discoverer"] = "idle"
  /\ current_channel = ch => ch = NoChannel
  /\ changes < MaxChanges
  /\ changes' = changes + 1
  /\ current_channel' = ch
  /\ changer' = [changer EXCEPT !["discoverer"] = "post"]
  /\ UNCHANGED <<bufferVars, sessionVars, listenerVars, events, staleVars, output, loop>>

changerUninit(c) ==
  /\ changer[c] = "uninit"
  /\ initiated' = FALSE
  /\ changer' = [changer EXCEPT ![c] = "post"]
  /\ UNCHANGED <<bufferVars, session_id, session_psize, listenerVars, current_channel,
                 events, changes, staleVars, output, loop>>


postChange(c) ==
  /\ changer[c] = "post"
  /\ events' = events + 1
  /\ changer' = [changer EXCEPT ![c] = "idle"]
  /\ UNCHANGED <<bufferVars, sessionVars, listenerVars, current_channel, changes,
                 staleVars, output, loop>>

ChangerGoesOn == \E c \in DOMAIN changer : changerUninit(c) \/ postChange(c)

ChangerStarts ==
  \/ \E c \in DOMAIN changer, ch \in Channels : setChannel(c, ch)
  \/ \E ch \in Channels \cup {NoChannel} : replaceGone(ch)

-------------------------------------------------------------------------------

Next ==
  /\ ~undefined
  /\ \/ Listener
     \/ Output
     \/ missingPacketsManager
     \/ Loop
     \/ ChangerGoesOn
     \/ ChangerStarts

\* Threads that are not blocked run.  The listener is fair as a whole: receive
\* returns after 100 ms, with a packet or without.
Spec ==
  /\ Init
  /\ [][Next]_vars
  /\ WF_vars(~undefined /\ Listener)
  /\ WF_vars(~undefined /\ Loop)
  /\ WF_vars(~undefined /\ ChangerGoesOn)

-------------------------------------------------------------------------------

\* TYPES.
TypeOK ==
  /\ Buffer!TypeOK
  /\ initiated \in BOOLEAN
  /\ session_id \in Nat
  /\ session_psize \in Nat
  /\ current_channel \in Channels \cup {NoChannel}
  /\ listener \in {"none", "start", "check", "receive", "compare", "put", "putting",
                   "reset", "reset buffer", "reset session", "ended", "failed"}
  /\ channel \in Channels \cup {NoChannel}
  /\ packet \in Packets \cup {NoPacket}
  /\ output \in {"idle", "ready", "pop", "uninit"}
  /\ loop \in {"read", "join", "uninit", "spawn"}
  /\ changer \in [{"discoverer", "key"} -> {"idle", "uninit", "post"}]
  /\ events \in Nat
  /\ changes \in 0 .. MaxChanges
  /\ leftover \in BOOLEAN
  /\ stale \in Nat

SlotsFilled == {i \in 1 .. Len(packets) : packets[i] # Missing}

\* SAFETY.  Whenever initiated invites dataOutput to play, there is a buffer and
\* it is the one session_id and psize describe, though four locks are taken one
\* after the other to replace them and three threads clear the flag meanwhile.
InitiatedMatchesBuffer ==
  initiated =>
    /\ psize > 0
    /\ session_psize = psize
    /\ \A i \in SlotsFilled : packets[i].session = session_id

\* SAFETY.  All the packets of a buffer are of one session and one size, and of
\* stations with one port.  That is as far as the code tells stations apart: two
\* of them that were started in the same second, have the same port and make
\* packets of the same size are mixed in one buffer.
BufferOfOneSession ==
  \A i, j \in SlotsFilled :
    /\ packets[i].session = packets[j].session
    /\ packets[i].size = packets[j].size
    /\ Port[packets[i].channel] = Port[packets[j].channel]

\* SAFETY.  After the event loop cleared the flag for a change of channel, at
\* most one packet of the old buffer is played: the one dataOutput was about to
\* pop, having read the flag before.
OneStalePacket == leftover => stale <= 1

\* REFINEMENT.  The threads use the buffer as AudioBuffer says, so what is
\* proved there holds here.
UsesBuffer == Buffer!Init /\ [][Buffer!Next]_bufferVars


\* LIVENESS.  The event loop comes back for its next event.
LoopComesBack == loop = "join" ~> loop = "read" \/ undefined
===============================================================================
