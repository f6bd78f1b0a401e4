-------------------------------- MODULE Http --------------------------------
(***************************************************************************)
(* What the two programs see of an HTTP/1 message (common/http_conn).  A   *)
(* message is a sequence of units, numbered from 1: those of its head, of  *)
(* its body, and for a chunked body a last one, the chunk of size 0.  A    *)
(* buffer holds the first n units of a message.                            *)
(***************************************************************************)
EXTENDS Naturals, FiniteSets

\* A head that fills more than one read: the blank line is in its last unit.
HeadUnits == 2

\* connection: the words its value contains; key, accept: Sec-WebSocket-Key, -Accept.
Headers == [upgrade    : BOOLEAN,
            connection : SUBSET {"upgrade", "close", "keep-alive"},
            key        : BOOLEAN,
            accept     : BOOLEAN,
            version    : {"HTTP/1.0", "HTTP/1.1"}]

\* announced: the value of Content-Length; plain: "transfer-encoding: chunked" is
\* spelled just so; bodiless: status below 200, 204 or 304; lookalikes: the units, of
\* head or body, that contain the five bytes of a last chunk and are none.
Messages == [headers    : Headers,
             framing    : {"close", "length", "chunked"},
             announced  : Nat,
             plain      : BOOLEAN,
             bodiless   : BOOLEAN,
             body       : Nat,
             lookalikes : SUBSET Nat]

Total(m) == HeadUnits + m.body + IF m.framing = "chunked" THEN 1 ELSE 0

HeadIn(n) == n >= HeadUnits
LengthIn(m, n) == n >= HeadUnits + m.announced

\* The scan for "0\r\n\r\n" goes over the whole buffer, its head included.
LastChunkIn(m, n) == n = Total(m) \/ \E i \in m.lookalikes : i <= n

\* determine_connection_type
WebSocketHeaders(h) == h.upgrade /\ "upgrade" \in h.connection /\ (h.key \/ h.accept)
DetermineConnectionType(h) ==
  CASE WebSocketHeaders(h)            -> "WebSocketUpgrade"
    [] "close" \in h.connection       -> "Close"
    [] "keep-alive" \in h.connection  -> "KeepAlive"
    [] OTHER -> IF h.version = "HTTP/1.0" THEN "Close" ELSE "KeepAlive"

\* HttpRequestParser::is_complete: a request whose framing it does not recognise is
\* complete with its head.
RequestComplete(q, n) ==
  /\ HeadIn(n)
  /\ q.framing = "length" => LengthIn(q, n)
  /\ q.framing = "chunked" /\ q.plain => LastChunkIn(q, n)

\* HttpResponseParser::is_complete: without a framing, one byte of body will do.
ResponseComplete(r, n) ==
  /\ HeadIn(n)
  /\ r.framing = "length" => LengthIn(r, n)
  /\ r.framing = "chunked" /\ r.plain => LastChunkIn(r, n)
  /\ r.framing = "close" \/ (r.framing = "chunked" /\ ~r.plain) =>
       r.bodiless \/ n > HeadUnits
=============================================================================
