------------------------------ MODULE RadioMenu ------------------------------
(***************************************************************************)
(* The control side of the receiver: the discoverer (player.cc), which     *)
(* keeps the list of stations and makes a new menu of it, and the event    *)
(* loop (radio-menu.cc, menu.cc), which moves in the menu, sends it, and   *)
(* starts a listener (player.cc) for each change of channel.               *)
(*                                                                         *)
(* What they share:                                                        *)
(*                                                                         *)
(*   current_channel   behind a mutex                                      *)
(*   radio_menu        behind a mutex: a plain pointer to a listing        *)
(*   options_listing   behind a mutex: owns the listing of the last menu;  *)
(*                     making another frees the one before                 *)
(*   the listing       its options, and the active one, behind no mutex    *)
(*   the event stream  (EventStream), where a push and its notification    *)
(*                     are one step here                                   *)
(*                                                                         *)
(* stations is behind a mutex too, but only the discoverer uses it.  Steps *)
(* of a thread are merged when only the last touches something shared.     *)
(* What a listener does with the packets of its channel is in Player, and  *)
(* how the menu gets to the users in MenuServer: here the one is waited    *)
(* for until it ends, and writing to the users may take for ever.          *)
(***************************************************************************)
EXTENDS Integers, Sequences

CONSTANTS Replies,    \* records with .valid, .channel and .name
          NoChannel,  \* the empty optional
          Starting,   \* a listener that has not read its channel yet
          Preferred,  \* configuration().name; no station's name when not given
          MAX_LOOKUPS,
          MaxRounds,  \* bound on the lookups and replies
          MaxKeys     \* bound on the keys the users press

\* A reply is valid when all its bytes are allowed in a control packet and its address
\* and port make sense; its name is what is left without leading spaces, as a place in
\* the order of names, or 0 when nothing is left or it is longer than MAX_NAME_LENGTH.
ASSUME RepliesAssumption ==
  \A r \in Replies : /\ r.valid \in BOOLEAN /\ r.name \in Nat
                     /\ r.channel \notin {NoChannel, Starting}
ASSUME BoundsAssumption ==
  /\ MAX_LOOKUPS \in Nat \ {0}
  /\ MaxRounds \in Nat
  /\ MaxKeys \in Nat

Channels == {r.channel : r \in Replies}

VARIABLES stations,         \* sequence of stations with .lookups
          current_channel,
          listing,          \* the listing options_listing owns: .options, .active
          menu,             \* radio_menu points to: "null", "listing" or "freed"
          menu_lock,        \* the event loop holds radio_menu's mutex
          listener,         \* the channel of the last listener, NoChannel when it has
                            \* ended
          channel_lock,     \* the discoverer holds current_channel's mutex
          events,           \* keys, MENU_CHANGE and CHANGE_CHANNEL events in the stream
          discoverer,       \* where the discoverer is
          reply,            \* the channel it is about to change to
          loop,             \* where the event loop is
          key,              \* the arrow it handles: "up" or "down"
          seen,             \* the active index it read last
          choice,           \* the channel of the option it enters
          shown,            \* the menu it sent, or is sending, last
          undefined,        \* "no", or what it ran into
          rounds, keys      \* counters for the bounds

discovererVars == <<stations, discoverer, reply, rounds>>
handlerVars == <<key, seen, choice, shown, undefined>>
streamVars == <<events, loop>>
menuVars == <<listing, menu>>
\* What the discoverer's own steps leave alone.
OthersVars == <<handlerVars, streamVars, menuVars, menu_lock, channel_lock, current_channel,
                listener, keys>>
vars == <<discovererVars, OthersVars>>

Init ==
  /\ stations = <<>>
  /\ current_channel = NoChannel
  /\ listing = [options |-> <<>>, active |-> 0]
  /\ menu = "null"
  /\ menu_lock = FALSE
  /\ channel_lock = FALSE
  /\ listener = NoChannel
  /\ events = <<>>
  /\ discoverer = "idle"
  /\ reply = NoChannel
  /\ loop = "read"
  /\ key = "down"
  /\ seen = 0
  /\ choice = NoChannel
  /\ shown = <<>>
  /\ undefined = "no"
  /\ rounds = 0
  /\ keys = 0

-------------------------------------------------------------------------------
(* The event stream                                                        *)

\* write: the event is pushed, and a reader that is asleep woken.
write(event) ==
  /\ events' = Append(events, event)
  /\ loop' = IF loop = "asleep" THEN "read" ELSE loop

\* read finds nothing, and goes to sleep.  What is written in between wakes nobody.
seesNothing ==
  /\ loop = "read"
  /\ events = <<>>
  /\ loop' = "tested"
  /\ UNCHANGED <<discovererVars, handlerVars, events, menuVars, menu_lock, channel_lock,
                 current_channel, listener, keys>>

fallsAsleep ==
  /\ loop = "tested"
  /\ loop' = "asleep"
  /\ UNCHANGED <<discovererVars, handlerVars, events, menuVars, menu_lock, channel_lock,
                 current_channel, listener, keys>>

\* External: a wait may end by itself.
wakesUp ==
  /\ loop = "asleep"
  /\ loop' = "read"
  /\ UNCHANGED <<discovererVars, handlerVars, events, menuVars, menu_lock, channel_lock,
                 current_channel, listener, keys>>

-------------------------------------------------------------------------------
(* The discoverer: its list of stations                                    *)

\* External: what remove_if leaves of a list, its elements at the places in kept.  (It
\* is SelectSeq; written out, since SelectSeq cannot be expanded in a proof.)
Select(list, kept) ==
  LET upTo[n \in 0 .. Len(list)] ==
        IF n = 0 THEN <<>>
        ELSE IF n \in kept THEN Append(upTo[n - 1], list[n]) ELSE upTo[n - 1]
  IN  upTo[Len(list)]

removeStation(list, s) == Select(list, {i \in DOMAIN list : list[i].channel # s.channel})

\* The place of the first station whose name comes after s's, or the end.
where_to_insert(list, s) ==
  CHOOSE i \in 1 .. Len(list) + 1 :
    /\ i <= Len(list) => s.name > list[i].name
    /\ \A j \in 1 .. i - 1 : ~(s.name > list[j].name)

insertStation(list, s) ==
  LET where == where_to_insert(list, s)
  IN  SubSeq(list, 1, where - 1)
        \o <<[channel |-> s.channel, name |-> s.name, lookups |-> 0]>>
        \o SubSeq(list, where, Len(list))

\* A new round begins for the discoverer.
Begins ==
  /\ discoverer = "idle"
  /\ rounds < MaxRounds
  /\ rounds' = rounds + 1

\* What controlPacketBytesValidation and parseReply let through.
parseReply(r) == r.valid /\ r.name # 0

ignoreReply(r) ==
  /\ Begins
  /\ ~parseReply(r)
  /\ UNCHANGED <<stations, discoverer, reply, OthersVars>>

\* A reply: the station is put in the list, in the place of the one that had
\* its channel.  The first station, and the preferred one always, becomes the
\* current one.
handleReply(r) ==
  LET list == insertStation(removeStation(stations, r), r)
  IN  /\ Begins
      /\ parseReply(r)
      /\ stations' = list
      /\ \/ /\ \/ Len(list) = 1 /\ ~channel_lock /\ current_channel # r.channel
               \/ r.name = Preferred
            /\ reply' = r.channel
            /\ discoverer' = "change"
         \/ /\ Len(list) = 1 => ~channel_lock /\ current_channel = r.channel
            /\ r.name # Preferred
            /\ discoverer' = "menu"
            /\ UNCHANGED reply
      /\ UNCHANGED OthersVars

\* changeChannel, called for a reply: the channel is set, then the event posted.
changeToReply ==
  /\ discoverer = "change"
  /\ current_channel' = reply
  /\ reply' = NoChannel
  /\ discoverer' = "changed"
  /\ UNCHANGED <<stations, rounds, handlerVars, streamVars, menuVars, menu_lock,
                 channel_lock, listener, keys>>

postReplyChange ==
  /\ discoverer = "changed"
  /\ write("channel")
  /\ discoverer' = "menu"
  /\ UNCHANGED <<stations, reply, rounds, handlerVars, menuVars, menu_lock, channel_lock,
                 current_channel, listener, keys>>

LookedUp == [i \in DOMAIN stations |->
               [stations[i] EXCEPT !.lookups = stations[i].lookups + 1]]

AfterLookup_KeepsMenu(list) == "idle"

AfterLookup(list) == IF Len(list) < Len(stations) THEN "gone" ELSE "idle"

\* LOOKUP is sent.  Stations that did not answer MAX_LOOKUPS of them are gone.
sendLookup ==
  /\ Begins
  /\ stations' = Select(LookedUp,
                        {i \in DOMAIN LookedUp : LookedUp[i].lookups < MAX_LOOKUPS})
  /\ discoverer' = AfterLookup(stations')
  /\ UNCHANGED <<reply, OthersVars>>

Listed(ch) == \E i \in DOMAIN stations : stations[i].channel = ch

StillCurrent_OrSome == Listed(current_channel) \/ current_channel # NoChannel

StillCurrent == Listed(current_channel)

\* If the current channel is none of theirs now, the first station's is taken, and the
\* event posted before current_channel's mutex is released.
replaceGone ==
  /\ discoverer = "gone"
  /\ \/ /\ StillCurrent
        /\ UNCHANGED <<current_channel, streamVars>>
     \/ /\ ~StillCurrent
        /\ current_channel' = IF stations = <<>> THEN NoChannel ELSE stations[1].channel
        /\ write("channel")
  /\ discoverer' = "menu"
  /\ UNCHANGED <<stations, reply, rounds, handlerVars, menuVars, menu_lock, channel_lock,
                 listener, keys>>

-------------------------------------------------------------------------------
(* The discoverer: setNewMenu                                              *)

setNoMenu ==
  /\ discoverer = "menu"
  /\ stations = <<>>
  /\ ~menu_lock
  /\ menu' = "null"
  /\ discoverer' = "post"
  /\ UNCHANGED <<stations, reply, rounds, handlerVars, streamVars, listing, menu_lock,
                 channel_lock, current_channel, listener, keys>>

Options == [i \in DOMAIN stations |->
              [channel |-> stations[i].channel, name |-> stations[i].name]]

\* current_channel's mutex is taken, to be held to the end of setNewMenu; the
\* new listing takes the place of the one radio_menu may point to.
replaceListing ==
  /\ discoverer = "menu"
  /\ stations # <<>>
  /\ channel_lock' = TRUE
  /\ listing' = [options |-> Options, active |-> 0]
  /\ menu' = IF menu = "null" THEN "null" ELSE "freed"
  /\ discoverer' = "set"
  /\ UNCHANGED <<stations, reply, rounds, handlerVars, streamVars, menu_lock,
                 current_channel, listener, keys>>

setListing ==
  /\ discoverer = "set"
  /\ ~menu_lock
  /\ menu' = "listing"
  /\ discoverer' = "index"
  /\ UNCHANGED <<stations, reply, rounds, handlerVars, streamVars, listing, menu_lock,
                 channel_lock, current_channel, listener, keys>>

\* The last station on the current channel, or the first in the list.
current_index ==
  LET Current == {i \in DOMAIN stations : stations[i].channel = current_channel}
  IN  IF Current = {} THEN 0 ELSE (CHOOSE i \in Current : \A j \in Current : j <= i) - 1

\* The active option is set without a lock.
setIndex ==
  /\ discoverer = "index"
  /\ listing' = [listing EXCEPT !.active = current_index]
  /\ discoverer' = "post"
  /\ UNCHANGED <<stations, reply, rounds, handlerVars, streamVars, menu, menu_lock,
                 channel_lock, current_channel, listener, keys>>

postMenuChange_Forgotten ==
  /\ discoverer = "post"
  /\ channel_lock' = FALSE
  /\ discoverer' = "idle"
  /\ UNCHANGED <<stations, reply, rounds, handlerVars, streamVars, menuVars, menu_lock,
                 current_channel, listener, keys>>

postMenuChange ==
  /\ discoverer = "post"
  /\ write("menu")
  /\ channel_lock' = FALSE
  /\ discoverer' = "idle"
  /\ UNCHANGED <<stations, reply, rounds, handlerVars, menuVars, menu_lock, current_channel,
                 listener, keys>>

-------------------------------------------------------------------------------
(* The event loop                                                          *)

Step == [up |-> -1, down |-> 1]

\* External: a user presses an arrow, and handleUserInput posts it.
pressKey(k) ==
  /\ keys < MaxKeys
  /\ keys' = keys + 1
  /\ write(k)
  /\ UNCHANGED <<discovererVars, handlerVars, menuVars, menu_lock, channel_lock,
                 current_channel, listener>>

\* A key takes radio_menu's mutex until the option is entered.
readEvent ==
  /\ loop = "read"
  /\ events # <<>>
  /\ events' = Tail(events)
  /\ \/ /\ Head(events) = "menu"
        /\ loop' = "send"
        /\ UNCHANGED <<key, menu_lock>>
     \/ /\ Head(events) = "channel"
        /\ loop' = "join"
        /\ UNCHANGED <<key, menu_lock>>
     \/ /\ Head(events) \notin {"menu", "channel"}
        /\ key' = Head(events)
        /\ menu_lock' = TRUE
        /\ loop' = "key"
  /\ UNCHANGED <<discovererVars, seen, choice, shown, undefined, menuVars, channel_lock,
                 current_channel, listener, keys>>

\* What the event loop's steps that read the listing leave alone.
OnlyLoop == UNCHANGED <<discovererVars, channel_lock, events, listener, keys>>

\* From here on the program's behaviour is not defined.
RunsInto(what) ==
  /\ undefined' = what
  /\ UNCHANGED <<loop, key, seen, choice, shown, menuVars, menu_lock, current_channel>>

HasOption(i) == i \in 0 .. Len(listing.options) - 1

AfterKey_NoMenu == "read"

\* A key is handled; whatever it did, the menu is sent.
AfterKey == "send"

\* up and down: is there another option that way?
testIndex ==
  /\ loop = "key"
  /\ \/ /\ menu = "freed"
        /\ RunsInto("freed listing")
     \/ /\ menu = "listing" /\ HasOption(listing.active + Step[key])
        /\ seen' = listing.active
        /\ loop' = "move"
        /\ UNCHANGED <<key, choice, shown, undefined, menuVars, menu_lock, current_channel>>
     \/ /\ menu # "freed"
        /\ menu = "null" \/ ~HasOption(listing.active + Step[key])
        /\ loop' = AfterKey
        /\ menu_lock' = FALSE
        /\ UNCHANGED <<key, seen, choice, shown, undefined, menuVars, current_channel>>
  /\ OnlyLoop

\* It becomes the active one.  The index may be read again for it, or not: the
\* discoverer may have written it meanwhile.
moveIndex ==
  /\ loop = "move"
  /\ \/ /\ menu = "freed"
        /\ RunsInto("freed listing")
     \/ /\ menu = "listing"
        /\ \E i \in {seen, listing.active} :
             listing' = [listing EXCEPT !.active = i + Step[key]]
        /\ seen' = 0
        /\ loop' = "enter"
        /\ UNCHANGED <<key, choice, shown, undefined, menu, menu_lock, current_channel>>
  /\ OnlyLoop

\* enter: the active option's action is called, which is changeChannel.
enter ==
  /\ loop = "enter"
  /\ \/ /\ menu = "freed"
        /\ RunsInto("freed listing")
     \/ /\ menu = "listing" /\ ~HasOption(listing.active)
        /\ RunsInto("no such option")
     \/ /\ menu = "listing" /\ HasOption(listing.active)
        /\ choice' = listing.options[listing.active + 1].channel
        /\ loop' = "change"
        /\ UNCHANGED <<key, seen, shown, undefined, menuVars, menu_lock, current_channel>>
  /\ OnlyLoop

changeChannel ==
  /\ loop = "change"
  /\ ~channel_lock
  /\ current_channel' = choice
  /\ choice' = NoChannel
  /\ loop' = "changed"
  /\ UNCHANGED <<key, seen, shown, undefined, menuVars, menu_lock>>
  /\ OnlyLoop

\* Nobody waits for the event: the one who reads is the one who writes.
postKeyChange ==
  /\ loop = "changed"
  /\ events' = Append(events, "channel")
  /\ loop' = "reference"
  /\ UNCHANGED <<discovererVars, handlerVars, menuVars, menu_lock, channel_lock,
                 current_channel, listener, keys>>

\* enter goes on: the active option, read once more, has no menu of its own.
\* radio_menu's mutex is released.
noReference ==
  /\ loop = "reference"
  /\ \/ /\ menu = "freed"
        /\ RunsInto("freed listing")
     \/ /\ menu = "listing" /\ ~HasOption(listing.active)
        /\ RunsInto("no such option")
     \/ /\ menu = "listing" /\ HasOption(listing.active)
        /\ menu_lock' = FALSE
        /\ loop' = AfterKey
        /\ UNCHANGED <<key, seen, choice, shown, undefined, menuVars, current_channel>>
  /\ OnlyLoop

\* The menu as the users see it; with an index that is no option's, no line is
\* marked.
MenuToString == IF menu = "null" THEN <<>> ELSE listing

\* The menu is read with radio_menu's mutex, which is kept for writing it.
sendMenu ==
  /\ loop = "send"
  /\ \/ /\ menu = "freed"
        /\ RunsInto("freed listing")
     \/ /\ menu # "freed"
        /\ shown' = MenuToString
        /\ menu_lock' = TRUE
        /\ loop' = "write"
        /\ UNCHANGED <<key, seen, choice, undefined, menuVars, current_channel>>
  /\ OnlyLoop

\* It has been written to all users, or writing to one has failed.  Until then the loop
\* waits for the locks of their writers, or for a user whose connection takes no more.
menuWritten ==
  /\ loop = "write"
  /\ menu_lock' = FALSE
  /\ loop' = "read"
  /\ UNCHANGED <<discovererVars, handlerVars, events, menuVars, channel_lock, current_channel,
                 listener, keys>>

-------------------------------------------------------------------------------
(* The listener                                                            *)

\* The event loop lets go of the listener's future, which waits for it to end, and starts
\* another.
replaceListener ==
  /\ loop = "join"
  /\ listener = NoChannel
  /\ listener' = Starting
  /\ loop' = "read"
  /\ UNCHANGED <<discovererVars, handlerVars, events, menuVars, menu_lock, channel_lock,
                 current_channel, keys>>

\* It reads its channel; with none it ends at once.
listenerStart ==
  /\ listener = Starting
  /\ ~channel_lock
  /\ listener' = current_channel
  /\ UNCHANGED <<discovererVars, handlerVars, streamVars, menuVars, menu_lock, channel_lock,
                 current_channel, keys>>

channelIsCurrent == current_channel = listener

\* It ends when its channel is not the current one.
listenerEnds ==
  /\ listener \notin {NoChannel, Starting}
  /\ ~channel_lock
  /\ ~channelIsCurrent
  /\ listener' = NoChannel
  /\ UNCHANGED <<discovererVars, handlerVars, streamVars, menuVars, menu_lock, channel_lock,
                 current_channel, keys>>

\* Its socket cannot be had or read: the exception ends it.
listenerFails ==
  /\ listener \notin {NoChannel, Starting}
  /\ listener' = NoChannel
  /\ UNCHANGED <<discovererVars, handlerVars, streamVars, menuVars, menu_lock, channel_lock,
                 current_channel, keys>>

-------------------------------------------------------------------------------

setNewMenu ==
  setNoMenu \/ replaceListing \/ setListing \/ setIndex \/ postMenuChange

DiscovererGoesOn == changeToReply \/ postReplyChange \/ replaceGone \/ setNewMenu

LoopGoesOn ==
  \/ seesNothing \/ fallsAsleep \/ readEvent
  \/ testIndex \/ moveIndex \/ enter \/ changeChannel \/ postKeyChange \/ noReference
  \/ sendMenu \/ replaceListener

ListenerGoesOn == listenerStart \/ listenerEnds

Next ==
  /\ undefined = "no"
  /\ \/ \E r \in Replies : handleReply(r) \/ ignoreReply(r)
     \/ sendLookup
     \/ DiscovererGoesOn
     \/ \E k \in DOMAIN Step : pressKey(k)
     \/ LoopGoesOn
     \/ wakesUp \/ menuWritten
     \/ ListenerGoesOn \/ listenerFails

\* The threads run while they are not blocked: each waits in the code for a mutex only
\* while another holds it, and a listener looks at the channel every 100 ms.  Nobody has
\* to reply, to press a key or to read what is written to him, and no listener has to fail.
Spec ==
  /\ Init
  /\ [][Next]_vars
  /\ WF_vars(undefined = "no" /\ DiscovererGoesOn)
  /\ WF_vars(undefined = "no" /\ LoopGoesOn)
  /\ WF_vars(undefined = "no" /\ ListenerGoesOn)

-------------------------------------------------------------------------------

Option == [channel : Channels, name : {r.name : r \in Replies}]

\* TYPES.  Lists, and the listing, are of stations; each mutex is held by the
\* thread that is between taking and releasing it.
TypeOK ==
  /\ \A i \in DOMAIN stations :
       stations[i] \in [channel : Channels, name : {r.name : r \in Replies},
                        lookups : 0 .. MAX_LOOKUPS - 1]
  /\ current_channel \in Channels \cup {NoChannel}
  /\ listing.options \in Seq(Option)
  /\ listing.active \in Int
  /\ menu \in {"null", "listing", "freed"}
  /\ menu_lock = (loop \in {"key", "move", "enter", "change", "changed", "reference", "write"})
  /\ channel_lock =
       (discoverer \in {"set", "index"} \/ (discoverer = "post" /\ stations # <<>>))
  /\ listener \in Channels \cup {NoChannel, Starting}
  /\ events \in Seq({"menu", "channel", "up", "down"})
  /\ discoverer \in {"idle", "change", "changed", "gone", "menu", "set", "index", "post"}
  /\ reply \in Channels \cup {NoChannel}
  /\ loop \in {"read", "tested", "asleep", "send", "write", "join", "key", "move", "enter",
               "change", "changed", "reference"}
  /\ undefined \in {"no", "freed listing", "no such option"}

\* SAFETY.  Outside setNewMenu and what precedes it, the menu has the stations
\* of the list, by name and one to a channel however often it answers and changes
\* its name, and radio_menu points to no freed listing.
MenuHasStations ==
  /\ discoverer = "idle" =>
       IF stations = <<>> THEN menu = "null" ELSE menu = "listing" /\ listing.options = Options
  /\ \A i, j \in DOMAIN stations : i < j =>
       /\ stations[i].channel # stations[j].channel
       /\ stations[i].name >= stations[j].name

Quiet ==
  /\ discoverer = "idle" /\ undefined = "no"
  /\ loop \in {"read", "tested", "asleep"} /\ events = <<>>

\* SAFETY.  When nothing is on the way any more, the menu the users have been
\* sent last is the menu: no change of the options or of the active one goes
\* unsent, whichever of the threads made it and however they met.
SentIsCurrent == Quiet => shown = MenuToString

\* SAFETY.  As long as nobody pressed a key, when nothing is on the way any more
\* the marked option is the station that is played, through all arrivals, renamings
\* and departures.  (A key that waits for the channel while the discoverer marks
\* the one of before leaves the two different.)
MarkedIsPlayed ==
  keys = 0 /\ Quiet =>
    IF menu = "null" THEN current_channel = NoChannel
    ELSE /\ HasOption(listing.active)
         /\ listing.options[listing.active + 1].channel = current_channel

\* What can stop the threads for ever.  A key's callback has radio_menu and waits for
\* current_channel, setNewMenu has current_channel and waits for radio_menu; ...
Deadlocked == loop = "change" /\ discoverer = "set"

\* ... the menu is being written to users who do not read it, or whose writers are not
\* given back; ...
WriteBlocks == loop = "write"

\* ... the event loop waits for a listener whose channel has become current again; ...
ListenerHangs == loop = "join" /\ listener \in Channels /\ channelIsCurrent

\* ... it sleeps although there is an event, whose notification it missed.
WakeUpMissed == loop = "asleep" /\ events # <<>>

\* LIVENESS.  A station that answers gets to the users, or goes away again, unless one of
\* these lasts for ever or behaviour becomes undefined: no order of replies, lookups,
\* changes of channel and keys, of what is posted for them and of who waits for whom does
\* anything else to it.
StationsAreShown ==
  \/ \A c \in Channels :
       Listed(c) ~> \/ /\ shown # <<>> /\ loop # "write"
                       /\ \E i \in DOMAIN shown.options : shown.options[i].channel = c
                    \/ ~Listed(c)
  \/ <>[]Deadlocked
  \/ <>[]WriteBlocks
  \/ <>[]ListenerHangs
  \/ <>[]WakeUpMissed
  \/ <>(undefined # "no")

\* SAFETY.  "Get texts from current listing" (menu.h): the listing that is read
\* is not one that has been freed.
ReadsNoFreedListing == undefined # "freed listing"
===============================================================================
