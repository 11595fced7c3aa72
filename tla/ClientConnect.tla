---------------------------- MODULE ClientConnect -----------------------------
(***************************************************************************)
(* A client's way to an established connection: GameClient::Start and the  *)
(* chain of completion tokens inside ClientSession::Connect, with as much  *)
(* of the server as answers it.                                            *)
(*                                                                         *)
(* A reliable send is taken for what ReliableControl shows of it: success  *)
(* means that the peer has received the message, failure means nothing.    *)
(* The client runs one io thread; a send completes before it is answered.  *)
(***************************************************************************)
EXTENDS Naturals, FiniteSets, FiniteSetsExt

CONSTANTS
  LinkMtus,      \* what the client's interface may allow
  PathMtus,      \* what the path to the server may let through
  COMMON_MTUS,   \* the sizes PmtuDiscovery falls back to
  Flights,       \* flights of the client in a handshake
  Updates        \* clock samples asked for, 8 in the code

(* Sizes are size_t, and the clock is asked for a sample at least once      *)
(* (GameClient::Start asks for 8).                                         *)
SizesAreNatural ==
  /\ LinkMtus \subseteq Nat /\ PathMtus \subseteq Nat /\ COMMON_MTUS \subseteq Nat
  /\ Flights \in Nat /\ Updates \in Nat \ {0}

NULL == 0

VARIABLES
  stage,        \* the completion token the chain waits for
  mainToken,    \* "unset", or the first result given to Connect's token
  outcome,      \* what Start's last callback made of it
  state,        \* Connection::state
  pmtu,         \* Connection::pmtu
  link,         \* the service's link-local mtu
  handshake,    \* DtlsService: flight, whether its send is pending, timer
  request,      \* CONNECT_REQUEST: reliable send and response filter
  samples,      \* numUpdates of the ClockSyncResponseFilter
  done,         \* CONNECT_DONE: reliable send
  server,       \* the server's connection, and whether its filter waits
  path,         \* the mtu of the path
  unlucky       \* history: mtus that fit, whose probes were lost all the same

vars == <<stage, mainToken, outcome, state, pmtu, link, handshake, request, samples, done, server, path, unlucky>>
chain == <<stage, mainToken, outcome, state>>

Unsent == [sent |-> FALSE, arrived |-> FALSE, over |-> FALSE]
Sent == [Unsent EXCEPT !.sent = TRUE]

Init ==
  /\ stage = "idle" /\ mainToken = "unset" /\ outcome = "unset"
  /\ state = "INACTIVE" /\ pmtu = NULL
  /\ link \in LinkMtus /\ path \in PathMtus
  /\ handshake = [flight |-> 0, sending |-> FALSE, timer |-> FALSE]
  /\ request = [send |-> Unsent, filter |-> FALSE, response |-> FALSE]
  /\ samples = 0 /\ done = Unsent
  /\ server = [route |-> FALSE, connection |-> "none", filter |-> FALSE]
  /\ unlucky = {}

Set(result) == IF mainToken = "unset" THEN result ELSE mainToken

(* Start's callback on Connect's token, when it fails.                     *)
Fails(result) ==
  /\ mainToken' = Set(result)
  /\ outcome' = IF mainToken = "unset" THEN "failed" ELSE outcome
  /\ stage' = IF mainToken = "unset" THEN "over" ELSE stage

------------------------------------------------------------------------------
(* ClientSession::Connect, StartHostnameResolution.                        *)
Connect ==
  /\ stage = "idle"
  /\ stage' = "resolve" /\ state' = "RESOLVING"
  /\ UNCHANGED <<mainToken, outcome, pmtu, link, handshake, request, samples, done, server, path, unlucky>>

ResolveFails ==
  /\ stage = "resolve"
  /\ Fails("HOSTNAME_NOT_FOUND")
  /\ UNCHANGED <<state, pmtu, link, handshake, request, samples, done, server, path, unlucky>>

(* OnHostnameResolved, no usable socket.                                   *)
SocketFails ==
  /\ stage = "resolve"
  /\ Fails("SOCK_ERROR") /\ state' = "INACTIVE"
  /\ UNCHANGED <<pmtu, link, handshake, request, samples, done, server, path, unlucky>>

(* OnHostnameResolved, StartConnection, StartPunchthrough.                 *)
OnHostnameResolved ==
  /\ stage = "resolve"
  /\ stage' = "punchthrough" /\ state' = "CONNECTING"
  /\ UNCHANGED <<mainToken, outcome, pmtu, link, handshake, request, samples, done, server, path, unlucky>>

(* PmtuDiscovery::Start with the mtu of the interface.                     *)
PunchthroughAcked ==
  /\ stage = "punchthrough"
  /\ stage' = "probe" /\ pmtu' = link
  /\ UNCHANGED <<mainToken, outcome, state, link, handshake, request, samples, done, server, path, unlucky>>

PunchthroughFails ==
  /\ stage = "punchthrough"
  /\ Fails("TIMEDOUT")
  /\ UNCHANGED <<state, pmtu, link, handshake, request, samples, done, server, path, unlucky>>

NextAttemptSkips(mtu) == Max({0} \cup {m \in COMMON_MTUS : m + 300 < mtu})

(* The largest common mtu below the one that failed.                       *)
NextAttempt(mtu) == Max({0} \cup {m \in COMMON_MTUS : m < mtu})

(* No answer to three probes.                                              *)
ProbeFails ==
  /\ stage = "probe"
  /\ unlucky' = IF pmtu <= path THEN unlucky \cup {pmtu} ELSE unlucky
  /\ IF NextAttempt(pmtu) = 0
     THEN Fails("RESPONSE_TIMEOUT") /\ UNCHANGED pmtu
     ELSE pmtu' = NextAttempt(pmtu) /\ UNCHANGED <<stage, mainToken, outcome>>
  /\ UNCHANGED <<state, link, handshake, request, samples, done, server, path>>

(* DtlsService::InitConnect, its posted part included: a route, the 3 s    *)
(* timer, and the first flight.                                            *)
ProbeAcked ==
  /\ stage = "probe" /\ pmtu <= path
  /\ stage' = "handshake"
  /\ handshake' = [flight |-> 1, sending |-> TRUE, timer |-> TRUE]
  /\ UNCHANGED <<mainToken, outcome, state, pmtu, link, request, samples, done, server, path, unlucky>>

------------------------------------------------------------------------------
(* DtlsService::ClientConnect.                                             *)

FlightSent ==
  /\ handshake.sending
  /\ handshake' = [handshake EXCEPT !.sending = FALSE]
  /\ UNCHANGED <<chain, pmtu, link, request, samples, done, server, path, unlucky>>

(* The completion of a flight's send gives up.                             *)
FlightFails ==
  /\ handshake.sending
  /\ Fails("TIMEDOUT")
  /\ handshake' = [handshake EXCEPT !.sending = FALSE, !.flight = 0]
  /\ UNCHANGED <<state, pmtu, link, request, samples, done, server, path, unlucky>>

(* The server's answer brings the next flight.                             *)
NextFlight ==
  /\ ~handshake.sending /\ handshake.flight \in 1..(Flights - 1)
  /\ handshake' = [handshake EXCEPT !.flight = @ + 1, !.sending = TRUE]
  /\ server' = [server EXCEPT !.route = handshake.flight + 1 = Flights]
  /\ UNCHANGED <<chain, pmtu, link, request, samples, done, path, unlucky>>

RequestUnfiltered == [send |-> Sent, filter |-> FALSE, response |-> FALSE]
RequestFilter == [send |-> Sent, filter |-> TRUE, response |-> FALSE]

(* The last answer; StartConnection's callback goes on to                  *)
(* SendConnectRequest unless the token has been set by the timer.          *)
HandshakeDone ==
  /\ ~handshake.sending /\ handshake.flight = Flights
  /\ handshake' = [handshake EXCEPT !.flight = 0]
  /\ IF stage = "handshake"
     THEN stage' = "request" /\ state' = "AUTHENTICATING" /\ request' = RequestFilter
     ELSE UNCHANGED <<stage, state, request>>
  /\ UNCHANGED <<mainToken, outcome, pmtu, link, samples, done, server, path, unlucky>>

(* The timer sets the token it has captured; after the token was set by    *)
(* the handshake this does nothing.                                        *)
HandshakeTimeout ==
  /\ handshake.timer
  /\ handshake' = [handshake EXCEPT !.timer = FALSE]
  /\ IF stage = "handshake" THEN Fails("CLIENT_TIMEOUT") ELSE UNCHANGED <<stage, mainToken, outcome>>
  /\ UNCHANGED <<state, pmtu, link, request, samples, done, server, path, unlucky>>

------------------------------------------------------------------------------
(* CONNECT_REQUEST and its response.                                       *)

(* ServerConnRequestFilter: the server gets (a copy of) the request.       *)
ServerAccepts ==
  /\ request.send.sent /\ ~request.send.over /\ server.route
  /\ server.connection = "none"
  /\ request' = [request EXCEPT !.send.arrived = TRUE]
  /\ server' = [server EXCEPT !.connection = "SYNCHRONIZING", !.filter = TRUE]
  /\ UNCHANGED <<chain, pmtu, link, handshake, samples, done, path, unlucky>>

RequestAcked ==
  /\ request.send.arrived /\ ~request.send.over
  /\ request' = [request EXCEPT !.send.over = TRUE]
  /\ UNCHANGED <<chain, pmtu, link, handshake, samples, done, server, path, unlucky>>

RequestFails ==
  /\ request.send.sent /\ ~request.send.over
  /\ request' = [request EXCEPT !.send.over = TRUE]
  /\ Fails("TIMEDOUT")
  /\ UNCHANGED <<state, pmtu, link, handshake, samples, done, server, path, unlucky>>

SynchronizeAnyway == stage' = "synchronize" /\ state' = "SYNCHRONIZING"

(* Start's callback, if this is the result that counts, adds the clock     *)
(* filter.                                                                 *)
Synchronize == IF mainToken = "unset"
               THEN stage' = "synchronize" /\ state' = "SYNCHRONIZING"
               ELSE UNCHANGED <<stage, state>>

(* A tick runs the response filter on the response.                        *)
ResponseArrives ==
  /\ request.filter /\ server.connection # "none"
  /\ request' = [request EXCEPT !.filter = FALSE, !.response = TRUE]
  /\ mainToken' = Set("SUCCESS") /\ Synchronize
  /\ UNCHANGED <<outcome, pmtu, link, handshake, samples, done, server, path, unlucky>>

(* 10 s later a tick finds the filter still waiting.                       *)
ResponseTimeout ==
  /\ request.filter
  /\ request' = [request EXCEPT !.filter = FALSE]
  /\ Fails("RESPONSE_TIMEOUT")
  /\ UNCHANGED <<state, pmtu, link, handshake, samples, done, server, path, unlucky>>

------------------------------------------------------------------------------
(* The clock, and CONNECT_DONE.                                            *)

Enough(n) == n >= Updates

(* The server answers as long as its filter waits.                         *)
ClockSample ==
  /\ stage = "synchronize" /\ server.filter
  /\ samples' = samples + 1
  /\ IF Enough(samples + 1) THEN stage' = "finishing" /\ done' = Sent ELSE UNCHANGED <<stage, done>>
  /\ UNCHANGED <<mainToken, outcome, state, pmtu, link, handshake, request, server, path, unlucky>>

ClockTimeout ==
  /\ stage = "synchronize"
  /\ stage' = "over" /\ outcome' = "failed"
  /\ UNCHANGED <<mainToken, state, pmtu, link, handshake, request, samples, done, server, path, unlucky>>

(* The server's io thread acknowledges CONNECT_DONE; its filter joins the  *)
(* player if it still waits.                                               *)
ServerJoins ==
  /\ done.sent /\ ~done.over /\ ~done.arrived
  /\ done' = [done EXCEPT !.arrived = TRUE]
  /\ server' = IF server.filter THEN [server EXCEPT !.connection = "ESTABLISHED", !.filter = FALSE] ELSE server
  /\ UNCHANGED <<chain, pmtu, link, handshake, request, samples, path, unlucky>>

ServerFilterTimesOut ==
  /\ server.filter
  /\ server' = [server EXCEPT !.filter = FALSE]
  /\ UNCHANGED <<chain, pmtu, link, handshake, request, samples, done, path, unlucky>>

DoneAcked ==
  /\ done.arrived /\ ~done.over
  /\ done' = [done EXCEPT !.over = TRUE]
  /\ state' = "ESTABLISHED" /\ stage' = "over" /\ outcome' = "established"
  /\ UNCHANGED <<mainToken, pmtu, link, handshake, request, samples, server, path, unlucky>>

DoneFails ==
  /\ done.sent /\ ~done.over
  /\ done' = [done EXCEPT !.over = TRUE]
  /\ stage' = "over" /\ outcome' = "failed"
  /\ UNCHANGED <<mainToken, state, pmtu, link, handshake, request, samples, server, path, unlucky>>

Resolving == Connect \/ ResolveFails \/ SocketFails \/ OnHostnameResolved
Probing == PunchthroughAcked \/ PunchthroughFails \/ ProbeFails \/ ProbeAcked
Handshaking == FlightSent \/ FlightFails \/ NextFlight \/ HandshakeDone
Requesting == ServerAccepts \/ RequestAcked \/ RequestFails \/ ResponseArrives
Finishing == ClockSample \/ ServerJoins \/ DoneAcked \/ DoneFails
Timers == HandshakeTimeout \/ ResponseTimeout \/ ClockTimeout

Next == Resolving \/ Probing \/ Handshaking \/ Requesting \/ Finishing \/ Timers \/ ServerFilterTimesOut

(* The resolver and every reliable send complete; timers expire, and ticks *)
(* go on to check filters while the state is not INACTIVE.  Nothing is     *)
(* asked of the network or the server.                                     *)
Fairness ==
  /\ WF_vars(ResolveFails \/ SocketFails \/ OnHostnameResolved)
  /\ WF_vars(PunchthroughAcked \/ PunchthroughFails)
  /\ WF_vars(ProbeFails \/ ProbeAcked)
  /\ WF_vars(HandshakeTimeout) /\ WF_vars(ResponseTimeout) /\ WF_vars(ClockTimeout)
  /\ WF_vars(DoneAcked \/ DoneFails)

Spec == Init /\ [][Next]_vars /\ Fairness

------------------------------------------------------------------------------
(* An established client has a server that holds its connection, on a      *)
(* route whose handshake is over, and has received CONNECT_DONE; all clock *)
(* samples were taken after the response.  No result that comes late, from *)
(* the handshake, the request or a timer, gets it there or takes it away.  *)
EstablishedIsEarned ==
  /\ state = "ESTABLISHED" =>
       /\ mainToken = "SUCCESS" /\ outcome = "established"
       /\ server.route /\ server.connection # "none" /\ done.arrived
       /\ request.response /\ samples = Updates
  /\ outcome = "failed" => state # "ESTABLISHED"
  /\ state \in {"SYNCHRONIZING", "ESTABLISHED"} => mainToken = "SUCCESS"

(* The chain goes past path mtu discovery only with an mtu that the path   *)
(* carries, and with the largest candidate unless a probe that fits was    *)
(* lost.                                                                   *)
PmtuIsBest ==
  stage \in {"handshake", "request", "synchronize", "finishing"} =>
    /\ pmtu <= path
    /\ \A m \in (COMMON_MTUS \cup {link}) \ unlucky : m <= link /\ m <= path => m <= pmtu

(* Every attempt ends: established, or with an error that is logged.       *)
EveryAttemptEnds == stage = "resolve" ~> outcome # "unset"
==============================================================================
