---------------------------- MODULE TunnelClaims ----------------------------
(***************************************************************************)
(* What a comment, a log line or the README says of the handshake and the  *)
(* code does not do.  Each is the property of a run that TLC finds         *)
(* violated.                                                               *)
(***************************************************************************)
EXTENDS MCTunnel

\* README.md:15: the server matches public connections with callbacks, also when
\* some other connection to the control port stays silent.
SilentNeverBlocks ==
  \A p \in Publics : public[p] = "queued" /\ p \in spoke ~> public[p] = "proxied"

\* README.md:15: the server matches a public connection with the client's
\* callback for it, also when the CALLBACK line arrives in two pieces.
MatchedWhenCut == MatchedToOwn
=============================================================================
