------------------------------ MODULE Matching ------------------------------
(***************************************************************************)
(* Why a public connection is only ever joined to its own callback: the    *)
(* inductive invariant behind MatchedToOwn.  Handshake ids are not unique  *)
(* (a millisecond and a port), so the argument is about time: a handshake  *)
(* that ended without its callback ended in a later tick than it began,    *)
(* and the next one on that port takes its id from that later tick.        *)
(***************************************************************************)
EXTENDS Tunnel

Early == {"reading", "ready", "register"}
Paired == {"connect", "await"}
Late == Paired \cup {"cleanup"}

\* The handler of s holds the receiver of p's channel.
Holds(s, p) == cur[s] = p /\ handler[s] \in Paired

\* Nothing of the client's answer to p exists: no line, no dial, no connection.
NoLine(p) == \A s \in Sessions : \A i \in DOMAIN control[s] : control[s][i].pub # p
Uninvited(p) ==
  /\ conn[p] = "none"
  /\ \A s \in Sessions : dialing[s] # p
  /\ NoLine(p)

\* What the accept loop, a handler and a client hold, by where they are.
HeldOK ==
  /\ acceptor.at = "accept" => acceptor = Idle
  /\ acceptor.at # "accept" => acceptor.stream \in Conns
  /\ acceptor.at \in {"take", "send"} => acceptor.stream \in Publics
  /\ acceptor.at = "send" => acceptor.sender \in Publics
  /\ \A s \in Sessions : handler[s] \in Early \cup Late => cur[s] # None
  /\ \A s \in Sessions : client[s] \in {"dial", "write"} => dialing[s] # None

\* Where the connections are that they hold.
ConnOK ==
  /\ acceptor.at # "accept" => conn[acceptor.stream] = "accepting"
  /\ \A s \in Sessions : handler[s] \notin {"none", "gone"} => conn[s] = "serving"
  /\ \A s \in Sessions : client[s] = "idle" => conn[s] = "none"

\* A handler serves one public of its own port, and no port has two handlers.
ServingOK ==
  /\ \A s \in Sessions : cur[s] # None => home[cur[s]] = s /\ public[cur[s]] = "serving"
  /\ \A s, t \in Sessions : Bound(s) /\ Bound(t) /\ PortOf[s] = PortOf[t] => s = t

\* An id is made once, by Register, from the present time and the port.
IdsOK ==
  /\ \A p \in Publics : public[p] \in {"away", "queued"} => handshakeId[p] = NoId
  /\ \A s \in Sessions : handler[s] \in Early => handshakeId[cur[s]] = NoId
  /\ \A s \in Sessions : handler[s] \in Late =>
       handshakeId[cur[s]] \in Ids /\ handshakeId[cur[s]][2] = PortOf[s]
  /\ \A p \in Publics : handshakeId[p][1] <= now

\* A public without an id has left no trace in the registry or at the client.
NoTrace ==
  \A p \in Publics : handshakeId[p] = NoId =>
    p \notin clients /\ tx[p] = "none" /\ mailbox[p] = None /\ acceptor.sender # p /\ Uninvited(p)

\* Until CONNECT is written the client has nothing of the handshake.
NotYetInvited == \A s \in Sessions : handler[s] = "connect" => Uninvited(cur[s])

\* A CONNECT line is the only thing there is of its handshake at the client, so
\* at most one callback connection is ever made for a public.
LinesOK ==
  /\ \A s \in Sessions : \A i \in DOMAIN control[s] :
       LET p == control[s][i].pub IN p # None =>
         /\ home[p] = s
         /\ conn[p] = "none" /\ \A t \in Sessions : dialing[t] # p
         /\ \A j \in DOMAIN control[s] : control[s][j].pub = p => j = i
  /\ \A s \in Sessions : dialing[s] # None => home[dialing[s]] = s
  /\ \A s \in Sessions : client[s] = "dial" => conn[dialing[s]] = "none"

\* A stream in a mailbox is the public's own, and was used up.
MailboxOK ==
  \A p \in Publics : mailbox[p] # None =>
    mailbox[p] = p /\ conn[p] \in {"delivered", "closed"}

\* Times never run before the id's: the entry's, the wait's.
TimesOK ==
  /\ \A p \in clients : lastActivity[p] >= handshakeId[p][1]
  /\ \A s \in Sessions : handler[s] = "await" => since[s] >= handshakeId[cur[s]][1]
  /\ \A s \in Sessions : handler[s] \in Paired /\ tx[cur[s]] = "dropped" =>
       now > handshakeId[cur[s]][1]

\* A handshake that is over without its callback ended in a later tick.
EndedLate ==
  \A p \in Publics : ~Uninvited(p) /\ mailbox[p] = None =>
    (\E s \in Sessions : cur[s] = p /\ handler[s] = "await") \/ now > handshakeId[p][1]

\* A callback that may still come has another id than any handshake that waits.
IdsApart ==
  \A p, q \in Publics : \A s \in Sessions :
    Holds(s, q) /\ p # q /\ ~Uninvited(p) /\ mailbox[p] = None =>
      handshakeId[p] # handshakeId[q]

\* The sender in the accept loop's hands is that of the stream it goes with, or
\* nobody listens to it any more.
SenderOK ==
  acceptor.at = "send" =>
    \A s \in Sessions : Holds(s, acceptor.sender) => acceptor.stream = acceptor.sender

Matching ==
  /\ HeldOK /\ ConnOK /\ ServingOK /\ IdsOK /\ NoTrace /\ NotYetInvited /\ LinesOK
  /\ MailboxOK /\ TimesOK /\ EndedLate /\ IdsApart /\ SenderOK
=============================================================================
