------------------------------ MODULE Streams ------------------------------
(***************************************************************************)
(* What a session promises its two users, and nothing of how: README.md    *)
(* "Architecture" 4.  Each direction is a stream, as if the users were     *)
(* connected: chunks arrive in the order they were sent, and the end of    *)
(* file after the last of them.  Only a direction that broke may lose      *)
(* chunks, and then none that comes after a lost one arrives.              *)
(***************************************************************************)
EXTENDS Naturals, Sequences

CONSTANT Dirs

VARIABLES sent,    \* how many chunks each sender has sent
          got,     \* the chunks each receiver has got
          reach,   \* the last chunk that can still arrive
          shut,    \* the directions whose sender will send no more
          over,    \* those whose receiver has been given the end of file
          broken   \* those that may lose chunks

vars == <<sent, got, reach, shut, over, broken>>

Init ==
  /\ sent \in [Dirs -> 0 .. 1]
  /\ got = [d \in Dirs |-> <<>>]
  /\ reach = sent
  /\ shut \subseteq Dirs /\ over \subseteq Dirs /\ broken \subseteq Dirs

\* A chunk can arrive if those before it can; where it cannot, something broke.
Send(d) ==
  /\ d \notin shut
  /\ sent'[d] = sent[d] + 1
  /\ got'[d] = got[d]
  /\ \/ reach[d] = sent[d] /\ reach'[d] = sent'[d]
     \/ d \in broken' /\ reach'[d] = reach[d]

\* The next one, never another.
Deliver(d) ==
  /\ Len(got[d]) < reach[d]
  /\ got'[d] = Append(got[d], Len(got[d]) + 1)
  /\ UNCHANGED <<sent[d], reach[d]>>

\* The last ones under way are lost, all from some chunk on.
Lose(d) ==
  /\ d \in broken'
  /\ reach'[d] \in Len(got[d]) .. reach[d]
  /\ UNCHANGED <<sent[d], got[d]>>

Rest(d) == UNCHANGED <<sent[d], got[d], reach[d]>>

\* What is over or broken stays so; an end of file that no break explains is the
\* sender's own.
Ends ==
  /\ shut \subseteq shut' /\ over \subseteq over' /\ broken \subseteq broken'
  /\ over' \ over \subseteq shut \cup broken'

\* One event may end or cut both directions.
Next ==
  /\ \A d \in Dirs : Send(d) \/ Deliver(d) \/ Lose(d) \/ Rest(d)
  /\ Ends

Spec == Init /\ [][Next]_vars
=============================================================================
