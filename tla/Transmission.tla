---------------------------- MODULE Transmission ----------------------------
(***************************************************************************)
(* A receiver, the stations it may tune to, and the network between them,  *)
(* which loses, repeats and reorders datagrams as it likes: what was sent  *)
(* once may arrive any number of times, or never.                          *)
(*                                                                         *)
(* A station broadcasts packets to its group and keeps the last of them as *)
(* RetransmitWindow says.  The receiver hears the group it is tuned to and *)
(* whatever is sent to it at the port of that group.  It asks for missing  *)
(* packets by a broadcast, which all stations hear, the others too, and    *)
(* each answers what it has under these numbers, to the port of its own    *)
(* group.  A station may be started anew: its numbers begin at 0 again.    *)
(* The second it is started in is its session id; nothing keeps two runs   *)
(* from having the same.                                                   *)
(*                                                                         *)
(* The threads of either program, and what may happen between their steps, *)
(* are in Sender and Player; here listening, playing and asking are a step *)
(* each.  A request that was sent once can be handled at any time, so      *)
(* there is no list of orders here.                                        *)
(***************************************************************************)
EXTENDS Messages

CONSTANTS Stations,
          Settings,   \* records with .port, .psize, and the bounds .packets, of a run,
                      \* and .runs, functions of the stations
          Host,       \* endianness of the stations' computers, and of Receiver's
          Receiver,
          Size,       \* packets a station keeps
          BSize, Missing, NoPacket,    \* as in AudioBuffer
          MaxRequests, \* bound on the requests
          MaxSecond   \* bound on the seconds that stations are started in

\* What comes of one datagram: the packet read, and, which the receiver does not
\* know, the station, its run and the number sent.
Arrivals ==
  [fbn : Nat, size : Nat, session : Nat, from : Stations, run : Nat, number : Nat]

ASSUME SettingsAssumption ==
  \A c \in Settings : c.psize \in [Stations -> Nat \ {0}] /\ DOMAIN c.port = Stations
                     /\ c.packets \in [Stations -> Nat] /\ c.runs \in [Stations -> Nat]
ASSUME SizeAssumption == Size \in Nat \ {0} /\ BSize \in Nat
ASSUME StationsAssumption == IsFiniteSet(Stations)
ASSUME MarkersAssumption ==
  Missing # NoPacket /\ {Missing, NoPacket} \cap Arrivals = {}
\* Neither session ids nor the numbers of packets get past the bytes they have.
ASSUME NumbersAssumption ==
  /\ MaxSecond \in Nat /\ MaxSecond < Half * Half
  /\ \A c \in Settings, s \in Stations : c.packets[s] * c.psize[s] <= Half * Half

VARIABLES packets, missing_map, missing_packets, lowest_fbn, ready, size, psize,
          pushing, fill, undefined, played, asked,   \* the AudioBuffer
          initiated, session_id, session_psize,      \* SessionInfo
          tuned,     \* the station on current_channel
          settings,
          second,    \* the seconds that the runs of each station were started in
          produced,  \* packets it has broadcast
          air,       \* datagrams sent to the receiver so far
          requests   \* requests sent so far

bufferVars == <<packets, missing_map, missing_packets, lowest_fbn, ready, size,
                psize, pushing, fill, undefined, played, asked>>
receiverVars == <<bufferVars, initiated, session_id, session_psize, tuned>>
stationVars == <<second, produced>>
transmissionVars == <<receiverVars, stationVars, settings, air, requests>>

Buffer == INSTANCE AudioBuffer WITH Packets <- Arrivals

Heard == {packets[i] : i \in {j \in DOMAIN packets : packets[j] # Missing}}

\* Counted in packets.
Window(s) == INSTANCE RetransmitWindow WITH
  PSize <- 1, produced <- produced[s], MaxBytes <- 0,
  Asked <- {}, Blank <- "blank", NoPacket <- "no packet", answer <- "none"

TransmissionInit ==
  /\ Buffer!Init
  /\ initiated = FALSE /\ session_id = 0 /\ session_psize = 0
  /\ tuned \in Stations
  /\ settings \in Settings
  /\ \E now \in [Stations -> 1 .. MaxSecond] : second = [s \in Stations |-> <<now[s]>>]
  /\ produced = [s \in Stations |-> 0]
  /\ air = {} /\ requests = {}

-------------------------------------------------------------------------------
(* Stations                                                                *)

run(s) == Len(second[s])

session_id_of(s) == second[s][run(s)]

\* The n-th packet on its way: to the group, or to the receiver alone.
Datagram(s, n, to) ==
  LET number == n * settings.psize[s]
      packet == [session |-> session_id_of(s), fbn |-> number, size |-> settings.psize[s]]
  IN  [bytes |-> toBytes(Host[s], packet),
       from |-> s, run |-> run(s), number |-> number, to |-> to]

streamer(s) ==
  /\ produced[s] < settings.packets[s]
  /\ produced' = [produced EXCEPT ![s] = @ + 1]
  /\ air' = air \cup {Datagram(s, produced[s], "group")}
  /\ UNCHANGED <<receiverVars, second, settings, requests>>

\* The packet that a store with nothing in it has for number 0.
BlankPacket(s) ==
  [bytes |-> toBytes(Host[s], [session |-> 0, fbn |-> 0, size |-> 0]),
   from |-> s, run |-> run(s), number |-> 0, to |-> "receiver"]

orders(s, r) == handle_rexmit(receiveText(r.text), settings.psize[s])

\* The controller takes the orders of a request, the resender answers one.
resend_packets(s) ==
  /\ \E r \in requests :
       \/ \E n \in 0 .. produced[s] - 1 :
            /\ n * settings.psize[s] \in orders(s, r)
            /\ Window(s)!Retained(n)
            /\ air' = air \cup {Datagram(s, n, "receiver")}
       \/ /\ produced[s] = 0 /\ 0 \in orders(s, r)
          /\ air' = air \cup {BlankPacket(s)}
  /\ UNCHANGED <<receiverVars, stationVars, settings, requests>>

\* The program is started again, in the same second or later by its computer's clock.
restart(s) ==
  /\ run(s) < settings.runs[s]
  /\ \E now \in session_id_of(s) .. MaxSecond :
       second' = [second EXCEPT ![s] = Append(@, now)]
  /\ produced' = [produced EXCEPT ![s] = 0]
  /\ UNCHANGED <<receiverVars, settings, air, requests>>

-------------------------------------------------------------------------------
(* The receiver                                                            *)

Hears(d) ==
  IF d.to = "group" THEN d.from = tuned ELSE settings.port[d.from] = settings.port[tuned]

\* The packet that the receiver reads.
Read(d) ==
  LET p == fromBytes(Host[Receiver], receive(d.bytes))
  IN  [fbn |-> p.fbn, size |-> p.size, session |-> p.session,
       from |-> d.from, run |-> d.run, number |-> d.number]

putPacket(p) ==
  /\ IF p.size = session_psize THEN Buffer!push(p) ELSE UNCHANGED bufferVars
  /\ UNCHANGED <<initiated, session_id, session_psize>>

resetSession(p) ==
  /\ \/ /\ p.size > 0
        /\ Buffer!AudioBuffer(p)
        /\ missing_packets' = {}
        /\ UNCHANGED <<pushing, fill, undefined>>
     \/ /\ p.size = 0   \* a division by zero
        /\ undefined' = TRUE
        /\ UNCHANGED <<packets, missing_map, missing_packets, lowest_fbn, ready, size,
                       psize, pushing, fill, played, asked>>
  /\ session_id' = p.session
  /\ session_psize' = p.size
  /\ initiated' = TRUE

\* A newer session takes the place of the present one.
resets(p) == ~initiated \/ p.session > session_id

dataListener(d) ==
  /\ pushing = NoPacket
  /\ Hears(d)
  /\ \E p \in {Read(d)} :
       \/ resets(p) /\ resetSession(p)
       \/ ~resets(p) /\ p.session = session_id /\ putPacket(p)
  /\ UNCHANGED <<tuned, stationVars, settings, air, requests>>

\* push goes on.
pushGoesOn ==
  /\ Buffer!fillMissing \/ Buffer!insertPushed
  /\ UNCHANGED <<initiated, session_id, session_psize, tuned, stationVars, settings, air,
                 requests>>

dataOutput ==
  /\ initiated /\ ready
  /\ \/ Buffer!popPacket /\ UNCHANGED initiated
     \/ Buffer!popNothing /\ initiated' = FALSE
  /\ UNCHANGED <<session_id, session_psize, tuned, stationVars, settings, air, requests>>

\* A request is remembered with what the receiver meant by it, and of whom.
missingPacketsManager ==
  /\ missing_packets # {}
  /\ Cardinality(requests) < MaxRequests
  /\ Buffer!takeMissing
  /\ requests' = requests \cup
       {[text |-> rexmitMessage(missing_packets),
         missing |-> missing_packets, from |-> {p.from : p \in Heard}]}
  /\ UNCHANGED <<initiated, session_id, session_psize, tuned, stationVars, settings, air>>

changeChannel(s) ==
  /\ s # tuned
  /\ pushing = NoPacket
  /\ tuned' = s
  /\ initiated' = FALSE
  /\ UNCHANGED <<bufferVars, session_id, session_psize, stationVars, settings, air, requests>>

-------------------------------------------------------------------------------

TransmissionNext ==
  /\ ~undefined
  /\ \/ \E s \in Stations :
          streamer(s) \/ resend_packets(s) \/ restart(s) \/ changeChannel(s)
     \/ \E d \in air : dataListener(d)
     \/ pushGoesOn
     \/ dataOutput
     \/ missingPacketsManager

TransmissionSpec == TransmissionInit /\ [][TransmissionNext]_transmissionVars

-------------------------------------------------------------------------------

Fits(s) == PacketHeader + settings.psize[s] <= MAX_DATAGRAM_SIZE

\* And so have those of the stations at its port.
PortFits(s) == \A t \in Stations : settings.port[t] = settings.port[s] => Fits(t)

Distinct(f) == \A s, t \in Stations : f[s] = f[t] => s = t

\* SAFETY.  What arrives late, twice, from a station tuned to before, from one that was
\* started again or from one that answers requests for another's packets: the buffer
\* holds packets under the numbers they were sent with, and of the station it is tuned to,
\* if every station has a port of its own.  With one port, which is the default, the
\* station with the highest session id takes over; and they are of one run of one station,
\* unless another was started in the same second, at the same port, with packets that are
\* read with the same size: such runs are mixed.
HeardIsTuned ==
  \A p \in Heard :
    /\ p.fbn = p.number
    /\ Fits(p.from) => p.size = settings.psize[p.from]
    /\ Distinct(settings.port) /\ initiated => p.from = tuned
    /\ \A q \in Heard :
         /\ second[p.from][p.run] = second[q.from][q.run]
         /\ settings.port[p.from] = settings.port[q.from]
         /\ p.size = q.size

Whole(r) == Len(r.text) <= MAX_DATAGRAM_SIZE - RequestHeader

\* SAFETY.  A station is asked for packets that it made, if a datagram has room for its
\* packets and for those of the stations at its port; it takes a whole request for exactly
\* these packets, and no station makes more of any request: of one that is cut there may be
\* one number nobody asked for.
RequestsAreMet ==
  \A r \in requests, s \in Stations :
    \E taken \in {orders(s, r)} :
      /\ Cardinality(taken \ r.missing) <= IF Whole(r) THEN 0 ELSE 1
      /\ s \in r.from /\ PortFits(s) =>
           /\ \A n \in r.missing : n % settings.psize[s] = 0
           /\ Whole(r) => taken = r.missing

\* SAFETY.  No station, just started or not, sends the blank packet of its store, which
\* would divide by zero in a receiver: nobody ever asks for number 0.
NoBlankSent == \A d \in air : d.bytes.size > 0
===============================================================================
