----------------------------- MODULE MCExchange -----------------------------
(* Small messages for Exchange.                                            *)
EXTENDS Exchange

Closes == [upgrade |-> FALSE, connection |-> {"close"}, key |-> FALSE, accept |-> FALSE,
           version |-> "HTTP/1.1"]
Old == [Closes EXCEPT !.connection = {}, !.version = "HTTP/1.0"]
Stays == [Closes EXCEPT !.connection = {"keep-alive"}]

Message(headers, framing, body, announced) ==
  [headers |-> headers, framing |-> framing, announced |-> announced, plain |-> TRUE,
   bodiless |-> FALSE, body |-> body, lookalikes |-> {}]

Get == Message(Closes, "close", 0, 0)
Post == Message(Closes, "length", 1, 1)
OldPost == Message(Old, "chunked", 1, 0)
OddPost == [OldPost EXCEPT !.plain = FALSE]
SomeRequests == {Get, Post, OldPost, OddPost}

ToHead == Message(Closes, "length", 0, 2)
WithLength == Message(Stays, "length", 2, 2)
Chunked == [Message(Closes, "chunked", 1, 0) EXCEPT !.plain = FALSE]
EndsInZero == [Chunked EXCEPT !.lookalikes = {HeadUnits}]
NoContent == [Message(Stays, "close", 0, 0) EXCEPT !.bodiless = TRUE]
UntilClose == Message(Closes, "close", 2, 0)
SomeResponses == {ToHead, WithLength, Chunked, EndsInZero, NoContent, UntilClose}

OneGet == {Get}
CloseDelimited == {UntilClose}
=============================================================================
