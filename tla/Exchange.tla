------------------------------ MODULE Exchange ------------------------------
(***************************************************************************)
(* A request with Connection: close and its response, through both         *)
(* programs.  Each of them looks at its own first read of the request, and *)
(* relays both ways (Relay), or takes the exchange for a one-time one: it  *)
(* reads no more of the request, copies the response until that looks      *)
(* complete, and closes (server/proxy.rs handle_one_time_proxy,            *)
(* client/handlers/http.rs handle_one_time_http_request).                  *)
(***************************************************************************)
EXTENDS Http

CONSTANTS Requests,     \* the requests a user may send
          Responses,    \* the responses its backend may give
          FirstWait,    \* 30 s: the wait for the first bytes of the response
          Gap           \* 5 s: the wait for more of it

ASSUME ExchangeAssumption ==
  /\ \A q \in Requests : q \in Messages /\ DetermineConnectionType(q.headers) = "Close"
  /\ \A r \in Responses : r \in Messages
  /\ \A m \in Requests \cup Responses : m.framing = "length" => m.body <= m.announced
  /\ FirstWait \in Nat /\ Gap \in Nat

VARIABLES request, response,      \* the messages; they never change
          server, client,         \* where each program's handler is
          toClient, toBackend,    \* units of the request passed on so far
          written,                \* units of the response the backend has written
          toServer, toUser,       \* units of the response passed on so far
          backend, user,          \* the two ends outside the tunnel
          headSeen,               \* whose first read held the head of the response
          waited,                 \* how long each program's read has been waiting
          timedOut                \* the programs that gave up waiting

messages == <<request, response>>
counts == <<toClient, toBackend, written, toServer, toUser>>
vars == <<messages, server, client, counts, backend, user, headSeen, waited, timedOut>>

Sides == {"server", "client"}

TypeOK ==
  /\ request \in Requests
  /\ response \in Responses
  /\ server \in {"first", "wait", "more", "relay", "over"}
  /\ client \in {"dial", "first", "wait", "more", "relay", "over"}
  /\ toClient \in 0 .. Total(request) /\ toBackend \in 0 .. toClient
  /\ written \in 0 .. Total(response)
  /\ toServer \in 0 .. written /\ toUser \in 0 .. toServer
  /\ backend \in {"open", "closed", "broken"}
  /\ user \in {"open", "gone"}
  /\ headSeen \subseteq Sides
  /\ waited \in [Sides -> Nat]
  /\ timedOut \subseteq Sides

Init ==
  /\ request \in Requests
  /\ response \in Responses
  /\ server = "first"
  /\ client = "dial"
  /\ toClient = 0 /\ toBackend = 0
  /\ written = 0 /\ toServer = 0 /\ toUser = 0
  /\ backend = "open"
  /\ user = "open"
  /\ headSeen = {}
  /\ waited = [side \in Sides |-> 0]
  /\ timedOut = {}

-----------------------------------------------------------------------------
\* What a first read of the request decides.
OneTimeAtHead(n) == HeadIn(n) /\ DetermineConnectionType(request.headers) = "Close"
OneTime(n) ==
  /\ RequestComplete(request, n)
  /\ DetermineConnectionType(request.headers) = "Close"

\* What ends the loops: only a framing the first read has shown.
FramingEnds(n) ==
  \/ response.framing = "length" /\ LengthIn(response, n)
  \/ response.framing = "chunked" /\ LastChunkIn(response, n)

StartsWaiting(side) == waited' = [waited EXCEPT ![side] = 0]
SeesHead(side, n) == headSeen' = IF HeadIn(n) THEN headSeen \cup {side} ELSE headSeen

-----------------------------------------------------------------------------
(* The server.                                                             *)

\* handle_public_connection: the first bytes, passed on whole.
ServerStarts ==
  /\ server = "first"
  /\ \E n \in 1 .. Total(request) :
       /\ toClient' = n
       /\ server' = IF OneTime(n) THEN "wait" ELSE "relay"
  /\ StartsWaiting("server")
  /\ UNCHANGED <<messages, client, toBackend, written, toServer, toUser, backend, user,
                 headSeen, timedOut>>

KeepsAlive == DetermineConnectionType(response.headers) = "KeepAlive"

\* need_more \/ is_keep_alive, for a first read the response parser understands.
ServerReadsOn(n) == HeadIn(n) /\ (KeepsAlive \/ (response.framing # "close" /\ ~FramingEnds(n)))

ServerReadsFirst ==
  /\ server = "wait"
  /\ \E n \in toUser + 1 .. toServer :
       /\ toUser' = n
       /\ SeesHead("server", n)
       /\ server' = IF ServerReadsOn(n) THEN "more" ELSE "over"
  /\ StartsWaiting("server")
  /\ UNCHANGED <<messages, client, toClient, toBackend, written, toServer, backend, user, timedOut>>

ServerReadsMore ==
  /\ server = "more"
  /\ \E n \in toUser + 1 .. toServer :
       /\ toUser' = n
       /\ server' = IF FramingEnds(n) THEN "over" ELSE "more"
  /\ StartsWaiting("server")
  /\ UNCHANGED <<messages, client, toClient, toBackend, written, toServer, backend, user,
                 headSeen, timedOut>>

ServerStops ==
  /\ server' = "over"
  /\ UNCHANGED <<messages, client, counts, backend, user, headSeen, waited>>

ServerWaits == server \in {"wait", "more"}

\* End of file; an error, when the client dropped a stream with bytes unread in it;
\* or the user is gone and a write fails.
ServerEof == ServerWaits /\ client = "over" /\ toUser = toServer
ServerReset == server # "over" /\ client = "over" /\ toBackend < toClient
ServerWriteFails ==
  /\ \/ ServerWaits /\ user = "gone" /\ toUser < toServer
     \/ server = "first" /\ client = "over"
ServerEnds == (ServerEof \/ ServerReset \/ ServerWriteFails) /\ ServerStops /\ UNCHANGED timedOut

Expired(side, at) == waited[side] >= IF at = "wait" THEN FirstWait ELSE Gap
ServerTimeout ==
  ServerWaits /\ Expired("server", server) /\ ServerStops /\ timedOut' = timedOut \cup {"server"}

\* The plain relay: both ways, until both are over.
ServerRelaysUp ==
  /\ server = "relay"
  /\ \E n \in toClient + 1 .. Total(request) : toClient' = n
  /\ UNCHANGED <<messages, server, client, toBackend, written, toServer, toUser, backend, user,
                 headSeen, waited, timedOut>>
ServerRelaysDownWholeBuffer ==
  /\ server = "relay"
  /\ \E n \in toUser + 1 .. toServer + 1 : toUser' = n
  /\ UNCHANGED <<messages, server, client, toClient, toBackend, written, toServer, backend, user,
                 headSeen, waited, timedOut>>
ServerRelaysDown ==
  /\ server = "relay"
  /\ \E n \in toUser + 1 .. toServer : toUser' = n
  /\ UNCHANGED <<messages, server, client, toClient, toBackend, written, toServer, backend, user,
                 headSeen, waited, timedOut>>
ServerRelayEnds ==
  /\ server = "relay" /\ client = "over" /\ toUser = toServer
  /\ user = "gone" \/ toClient < Total(request)
  /\ ServerStops
  /\ UNCHANGED timedOut

ServerStep ==
  \/ ServerStarts \/ ServerReadsFirst \/ ServerReadsMore \/ ServerEnds \/ ServerTimeout
  \/ ServerRelaysUp \/ ServerRelaysDown \/ ServerRelayEnds

-----------------------------------------------------------------------------
(* The client.                                                             *)

\* A connection to the backend, from the pool or new, comes first.
Dial ==
  /\ client = "dial"
  /\ client' \in {"first", "over"}
  /\ UNCHANGED <<messages, server, counts, backend, user, headSeen, waited, timedOut>>

\* Its own first read, of any length: it may end before the server's, or after it.
ClientStarts ==
  /\ client = "first"
  /\ \E n \in 1 .. toClient :
       /\ toBackend' = n
       /\ client' = IF OneTime(n) THEN "wait" ELSE "relay"
  /\ StartsWaiting("client")
  /\ UNCHANGED <<messages, server, toClient, written, toServer, toUser, backend, user,
                 headSeen, timedOut>>

\* A framing that the parser understands overrides the guess of is_complete.
ClientTrustsGuess(n) == ResponseComplete(response, n)
ClientHasAll(n) ==
  IF HeadIn(n) /\ response.framing # "close" THEN FramingEnds(n)
                                            ELSE ResponseComplete(response, n)

ClientReadsFirst ==
  /\ client = "wait"
  /\ \E n \in toServer + 1 .. written :
       /\ toServer' = n
       /\ SeesHead("client", n)
       /\ client' = IF ClientHasAll(n) THEN "over" ELSE "more"
  /\ StartsWaiting("client")
  /\ UNCHANGED <<messages, server, toClient, toBackend, written, toUser, backend, user, timedOut>>

ClientReadsMore ==
  /\ client = "more"
  /\ \E n \in toServer + 1 .. written :
       /\ toServer' = n
       /\ client' = IF "client" \in headSeen /\ FramingEnds(n) THEN "over" ELSE "more"
  /\ StartsWaiting("client")
  /\ UNCHANGED <<messages, server, toClient, toBackend, written, toUser, backend, user,
                 headSeen, timedOut>>

ClientStops ==
  /\ client' = "over"
  /\ UNCHANGED <<messages, server, counts, backend, user, headSeen, waited>>

ClientWaits == client \in {"wait", "more"}

\* End of file or an error at the backend, or a write to a server that has closed.
ClientEof == ClientWaits /\ backend # "open" /\ toServer = written
ClientWriteFails ==
  client \in {"wait", "more", "relay"} /\ server = "over" /\ toServer < written
ClientRelayEnds == client = "relay" /\ server = "over" /\ backend # "open" /\ toServer = written
ClientEnds == (ClientEof \/ ClientWriteFails \/ ClientRelayEnds) /\ ClientStops /\ UNCHANGED timedOut

ClientTimeout ==
  ClientWaits /\ Expired("client", client) /\ ClientStops /\ timedOut' = timedOut \cup {"client"}

ClientRelaysUp ==
  /\ client = "relay"
  /\ \E n \in toBackend + 1 .. toClient : toBackend' = n
  /\ UNCHANGED <<messages, server, client, toClient, written, toServer, toUser, backend, user,
                 headSeen, waited, timedOut>>
ClientRelaysDown ==
  /\ client = "relay"
  /\ \E n \in toServer + 1 .. written : toServer' = n
  /\ UNCHANGED <<messages, server, client, toClient, toBackend, written, toUser, backend, user,
                 headSeen, waited, timedOut>>

ClientStep ==
  \/ Dial \/ ClientStarts \/ ClientReadsFirst \/ ClientReadsMore \/ ClientEnds \/ ClientTimeout
  \/ ClientRelaysUp \/ ClientRelaysDown

-----------------------------------------------------------------------------
(* The backend, the user, and time.                                        *)

\* It answers a whole request, and closes when it likes after that.
BackendWrites ==
  /\ backend = "open" /\ client # "over"
  /\ toBackend = Total(request) /\ written < Total(response)
  /\ written' = written + 1
  /\ UNCHANGED <<messages, server, client, toClient, toBackend, toServer, toUser, backend, user,
                 headSeen, waited, timedOut>>
BackendCloses ==
  /\ backend = "open"
  /\ backend' = IF written = Total(response) THEN "closed" ELSE "broken"
  /\ UNCHANGED <<messages, server, client, counts, user, headSeen, waited, timedOut>>

UserLeaves ==
  /\ user = "open"
  /\ user' = "gone"
  /\ UNCHANGED <<messages, server, client, counts, backend, headSeen, waited, timedOut>>

Ticking == [server |-> ServerWaits /\ ~Expired("server", server),
            client |-> ClientWaits /\ ~Expired("client", client)]
Tick ==
  /\ Ticking["server"] \/ Ticking["client"]
  /\ waited' = [side \in Sides |-> IF Ticking[side] THEN waited[side] + 1 ELSE waited[side]]
  /\ UNCHANGED <<messages, server, client, counts, backend, user, headSeen, timedOut>>

\* A relay may wait for its ends as long as they like.
Finished == {server, client} \subseteq {"relay", "over"} /\ UNCHANGED vars

Next ==
  \/ ServerStep \/ ClientStep
  \/ BackendWrites \/ BackendCloses \/ UserLeaves
  \/ Tick \/ Finished

\* The two programs and time go on; backend and user need not.
Spec == Init /\ [][Next]_vars
FairSpec == Spec /\ WF_vars(ServerStep) /\ WF_vars(ClientStep) /\ WF_vars(Tick)

-----------------------------------------------------------------------------
\* Nothing but the two programs decides how the exchange goes.
Dialed == client = "over" => toBackend > 0
Undisturbed == timedOut = {} /\ user = "open" /\ backend # "broken" /\ Dialed

\* The whole response has reached a user whose one-time exchange is over, if its end
\* is marked by a length or a last chunk, nothing in it looks like a last chunk, and
\* the server's first read of it held its head: the two programs judge the end each
\* from reads of their own, and neither stops the other short.
FramedWhole ==
  /\ server = "over" /\ "server" \in headSeen /\ Undisturbed
  /\ response.framing # "close" /\ response.lookalikes = {}
  => toUser = Total(response)

\* A request whose end the parser recognises reaches the backend whole, although each
\* program may stop reading it, each decides on another part of it, and the server
\* may have given up on the response already.
Recognised == request.lookalikes = {} /\ (request.framing = "chunked" => request.plain)
RequestArrives ==
  Recognised /\ client = "first" ~>
    toBackend = Total(request) \/ user = "gone" \/ backend = "broken"


-----------------------------------------------------------------------------
\* What the client says of its loop: "if the response is not complete, go on
\* reading" (client/handlers/http.rs): it leaves no part of it with the backend.
ReadsToTheEnd ==
  client = "over" /\ server # "over" /\ Undisturbed => toServer = Total(response)
=============================================================================
