------------------------------- MODULE MCRelay -------------------------------
(* Instances of Relay for TLC, and what a comment of the code claims.      *)
EXTENDS Streaming

Mode(pooled, websocket, serverIdle, clientIdle) ==
  [pooled |-> pooled, websocket |-> websocket,
   serverIdle |-> serverIdle, clientIdle |-> clientIdle]

\* A client of either kind, with a timer of its own and without, behind a server that
\* has one.  Each program sees the upgrade or misses it: one that misses it relays
\* plain bytes, and a server that sees it has no timer, as one started without.
AllModes == {Mode(pooled, TRUE, TRUE, clientIdle) : pooled \in BOOLEAN, clientIdle \in BOOLEAN}

\* A legacy client started with an idle timeout.
LegacyIdleModes == {Mode(FALSE, FALSE, FALSE, TRUE)}

\* client/handlers/legacy.rs:402 "Idle timeout reached, closing connection": once
\* the handler's sleep is over, the client's two tasks end and its sockets close.
IdleCloses == waiting = "idle" ~> Over("client")
=============================================================================
