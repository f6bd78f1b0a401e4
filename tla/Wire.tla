-------------------------------- MODULE Wire --------------------------------
(***************************************************************************)
(* What the tunnel server and the tunnel clients share: the TCP            *)
(* connections made to the server's control port, the lines in flight on   *)
(* each control connection, and the clock.                                 *)
(*                                                                         *)
(* A session is one call of connect_and_serve, with its control            *)
(* connection.  A public is one connection of an outside user to a public  *)
(* port.  The server handles it with at most one handshake, and the client *)
(* answers that handshake with at most one callback connection, so the     *)
(* public names all three.  A probe is any other connection to the control *)
(* port (a health check, a port scan).                                     *)
(***************************************************************************)
EXTENDS Naturals, Sequences, FiniteSets

CONSTANTS Sessions,     \* calls of connect_and_serve
          Publics,      \* connections of outside users
          Probes,       \* other connections to the control port
          Ports,        \* public port numbers, whole or cut short
          PortOf,       \* the public_port each session registers
          None

Conns == Sessions \cup Publics \cup Probes

ASSUME WireAssumption ==
  /\ Sessions \cap Publics = {}
  /\ Sessions \cap Probes = {}
  /\ Publics \cap Probes = {}
  /\ None \notin Conns \cup Ports
  /\ PortOf \in [Sessions -> Ports]

VARIABLES now,          \* the clock, in ticks
          conn,         \* server's side of each connection to the control port
          said,         \* the connections whose client wrote its first line
          hung,         \* the connections whose client end is closed
          control,      \* lines in flight from the server to each session
          handshakeId,  \* the id that CONNECT and CALLBACK carry for a public
          home          \* the session whose public port a public reached

wireVars == <<now, conn, said, hung, control, handshakeId, home>>

\* format!("{}-{}", timestamp_millis, public_port): an id has no other content,
\* so two handshakes of one port begun in one tick have equal ids.
Ids == Nat \X Ports
NoId == <<0, None>>

Line == [verb : {"READY", "ERROR", "JUNK"}, pub : {None}]
        \cup [verb : {"CONNECT"}, pub : Publics]

Ready      == [verb |-> "READY", pub |-> None]
Connect(p) == [verb |-> "CONNECT", pub |-> p]
Error      == [verb |-> "ERROR", pub |-> None]
Junk       == [verb |-> "JUNK", pub |-> None]

\* none: not made; queued: in the listener's backlog; accepting: in the accept
\* loop's hands; serving: a control connection with its handle_client task;
\* delivered: a callback stream passed through a handshake channel.
ConnPhase == {"none", "queued", "accepting", "serving", "delivered", "closed"}

WireTypeOK ==
  /\ now \in Nat
  /\ conn \in [Conns -> ConnPhase]
  /\ said \subseteq Conns
  /\ hung \subseteq Conns
  /\ control \in [Sessions -> Seq(Line)]
  /\ handshakeId \in [Publics -> Ids \cup {NoId}]
  /\ home \in [Publics -> Sessions \cup {None}]

WireInit ==
  /\ now = 0
  /\ conn = [c \in Conns |-> "none"]
  /\ said = {}
  /\ hung = {}
  /\ control = [s \in Sessions |-> <<>>]
  /\ handshakeId = [p \in Publics |-> NoId]
  /\ home = [p \in Publics |-> None]

\* A line written to a connection whose peer is gone is never read.
InFlight(s, line) == IF s \in hung THEN control[s] ELSE Append(control[s], line)
Write(s, line) == control' = [control EXCEPT ![s] = InFlight(s, line)]

Closed(cs) == [c \in Conns |-> IF c \in cs THEN "closed" ELSE conn[c]]
=============================================================================
