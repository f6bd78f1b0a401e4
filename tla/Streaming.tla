----------------------------- MODULE Streaming -----------------------------
(***************************************************************************)
(* A relayed session implements two streams: what each direction of the    *)
(* abstract specification is, read off tasks and connections.              *)
(***************************************************************************)
EXTENDS Relay

\* The chain of one direction, from its sender to its receiver.
Taker(d)  == IF d = "up" THEN "server_up" ELSE "client_down"
Giver(d)  == IF d = "up" THEN "client_up" ELSE "server_down"
Source(d) == IF d = "up" THEN pipe["pub"][d] ELSE pipe["back"][d]
Middle(d) == pipe["call"][d]
Last(d)   == IF d = "up" THEN pipe["back"][d] ELSE pipe["pub"][d]

One(chunk) == IF chunk = 0 THEN 0 ELSE 1

\* The task may still write, and its write be delivered.
Delivers(t) ==
  /\ t \notin ended /\ To[t] \notin reset
  /\ ~HasClosed(Receiver(To[t], Dir(t)))

\* How many chunks went into the last connection, and into the middle one, if none
\* was lost after it.
Given(d) == Len(got[d]) + Len(Last(d))
Taken(d) == Given(d) + One(held[Giver(d)]) + Len(Middle(d))

\* The last chunk that can still arrive: what is above a task that delivers no
\* more is lost.
Reach(d) ==
  IF ~Delivers(Giver(d)) THEN Given(d)
  ELSE IF ~Delivers(Taker(d)) THEN Taken(d)
  ELSE Taken(d) + One(held[Taker(d)]) + Len(Source(d))

SenderOf(d)   == IF d = "up" THEN "public" ELSE "backend"
ReceiverOf(d) == IF d = "up" THEN "backend" ELSE "public"

\* The backend closed its side instead of answering the upgrade.
Declined == phase["client"] = "upgrade" /\ Over("client")

\* What may cost a direction chunks: a reset, a timer of its own, a user who is gone or
\* never was there, an upgrade that is not answered.
Broken(d) ==
  \/ reset # {} \/ CutShort(d)
  \/ Dropped \/ Refused \/ user[ReceiverOf(d)] = "closed"
  \/ d = "up" /\ Declined

Abstract == INSTANCE Streams WITH
  reach  <- [d \in Dirs |-> Reach(d)],
  shut   <- {d \in Dirs : HasShut(SenderOf(d))},
  over   <- {d \in Dirs : Over(Side(Giver(d)))},
  broken <- {d \in Dirs : Broken(d)}

\* README.md "Architecture" 4: data is relayed as if the two users were connected.
\* Each direction is a stream: the receiver gets the next chunk each time, all that
\* was sent can still arrive unless something broke that direction, and an end of
\* file that nothing broken explains is the sender's own.
ImplementsStreams == Abstract!Spec
=============================================================================
