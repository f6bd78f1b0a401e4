---------------------------- MODULE Matchmaking ----------------------------
(***************************************************************************)
(* The tunnel implements the matchmaker: the state of each user in the     *)
(* abstract specification, read off the state of server and client.        *)
(***************************************************************************)
EXTENDS Matching

\* A user is joined once handle_client has handed both streams over; until then
\* the callback in its mailbox may still be thrown away.
Partner == [p \in Publics |-> IF public[p] = "proxied" THEN mailbox[p] ELSE None]

\* What the refinement needs beside Matching: a callback that is looked up or in
\* its mailbox has been made, and a handler between two users serves nobody.
Served ==
  /\ acceptor.at \in {"take", "send"} => acceptor.stream \in said
  /\ \A p \in Publics : mailbox[p] # None => p \in said
  /\ \A s \in Sessions : handler[s] \notin Early \cup Late => cur[s] = None

Abstract == INSTANCE Matchmaker WITH
  user <- public, at <- home, desk <- cur,
  answered <- said \cap Publics, partner <- Partner

\* README.md "Architecture" 1-4, end to end: through every interleaving of the
\* accept loop, the handlers, evictions, late callbacks and faults, each step of
\* the tunnel is a step of the matchmaker or none: users are served one at a
\* time, joined only after their own callback came, and never joined twice.
ImplementsMatchmaker == Abstract!Spec
=============================================================================
