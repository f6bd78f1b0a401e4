--------------------------- MODULE MatchingProofs ---------------------------
(***************************************************************************)
(* A public connection is only ever joined to the callback made for it,    *)
(* for any number of sessions, users and ports, any timeouts, and with     *)
(* every fault.  Two things are assumed: that a CALLBACK line arrives      *)
(* whole (the code looks at one peek), and that the connection timeout is  *)
(* not zero.  The proof is that Matching is inductive; the lemmas for its  *)
(* difficult steps come first, then one lemma for each component.          *)
(***************************************************************************)
EXTENDS TypeProofs

USE DEF vars, wireVars, serverVars, clientVars, acceptVars, registryVars,
        handlerVars, publicVars

\* One peek shows the whole CALLBACK line.
WholeLines == \A port \in Ports : PortViews[port] = {port}

\* The invariant without HeldOK, which TypeProofs shows to be kept.
Rest ==
  /\ ConnOK /\ ServingOK /\ IdsOK /\ NoTrace /\ NotYetInvited /\ LinesOK
  /\ MailboxOK /\ TimesOK /\ EndedLate /\ IdsApart /\ SenderOK

-----------------------------------------------------------------------------
\* The invariant says nothing of the other variables.
LEMMA FrameKeeps ==
  ASSUME Matching,
         UNCHANGED <<acceptor, clients, lastActivity, tx, mailbox, handler, cur, since,
                     public, now, conn, control, handshakeId, home, client, dialing>>
  PROVE  Rest'
<1>1. ConnOK' /\ ServingOK' /\ IdsOK'
  BY DEF Matching, ConnOK, ServingOK, Bound, IdsOK
<1>2. NoTrace' /\ NotYetInvited' /\ LinesOK'
  BY DEF Matching, NoTrace, NotYetInvited, LinesOK, Uninvited, NoLine
<1>3. MailboxOK' /\ TimesOK'
  BY DEF Matching, MailboxOK, TimesOK
<1>4. EndedLate' /\ IdsApart' /\ SenderOK'
  BY DEF Matching, EndedLate, IdsApart, SenderOK, Holds, Uninvited, NoLine
<1> QED
  BY <1>1, <1>2, <1>3, <1>4 DEF Rest

\* Taking the first line shifts the others by one.
LEMMA Popped ==
  ASSUME NEW q \in Seq(Line), q # <<>>
  PROVE  /\ Head(q) \in Line /\ Head(q) = q[1] /\ 1 \in DOMAIN q
         /\ Tail(q) \in Seq(Line)
         /\ \A i \in DOMAIN Tail(q) : i + 1 \in DOMAIN q /\ i \in Nat \ {0}
              /\ Tail(q)[i] = q[i + 1]
BY HeadTailProperties, LenProperties

\* Writing a line leaves those before it.
LEMMA Pushed ==
  ASSUME NEW q \in Seq(Line), NEW line \in Line
  PROVE  /\ Append(q, line) \in Seq(Line)
         /\ \A i \in DOMAIN Append(q, line) :
              \/ i \in DOMAIN q /\ Append(q, line)[i] = q[i]
              \/ i \notin DOMAIN q /\ i = Len(q) + 1 /\ Append(q, line)[i] = line
BY AppendProperties, LenProperties

\* A client that reads a line leaves the other clients' lines alone and shifts its
\* own.
LEMMA LinesPopped ==
  ASSUME TypeOK, Matching, NEW s \in Sessions,
         control[s] # <<>>, control' = [control EXCEPT ![s] = Tail(@)]
  PROVE  /\ \A t \in Sessions \ {s} : control'[t] = control[t]
           /\ \A i \in DOMAIN control'[s] : i + 1 \in DOMAIN control[s]
                /\ control'[s][i] = control[s][i + 1]
BY Popped DEF TypeOK, WireTypeOK

\* An id's time is a number.
LEMMA IdTime ==
  ASSUME TypeOK, NEW p \in Publics
  PROVE  handshakeId[p][1] \in Nat
<1>1. handshakeId[p] \in Ids \cup {NoId}
  BY DEF TypeOK, WireTypeOK
<1>2. CASE handshakeId[p] \in Ids
  BY <1>2 DEF Ids
<1>3. CASE handshakeId[p] = NoId
  BY <1>3 DEF NoId
<1> QED
  BY <1>1, <1>2, <1>3

\* A public is served by one handler.
LEMMA CurTellsHandler ==
  ASSUME HeldOK, ServingOK, NEW s \in Sessions, NEW t \in Sessions,
         handler[s] \in Early \cup Late, cur[s] = cur[t]
  PROVE  s = t
BY DEF HeldOK, ServingOK

\* Two handlers past Register have different ids: the handler of a port is unique,
\* and the port is part of the id.
LEMMA IdTellsHandler ==
  ASSUME Matching, NEW s \in Sessions, NEW t \in Sessions,
         handler[s] \in Late, handler[t] \in Late,
         handshakeId[cur[s]] = handshakeId[cur[t]]
  PROVE  s = t
BY DEF Matching, IdsOK, ServingOK, Bound, Late, Paired

\* A registration handed to its handler has nothing to do with any invitation.
LEMMA PeekOtherInvites ==
  ASSUME TypeOK, Matching, NEW c \in Conns, PeekOther(c), UNCHANGED clientVars
  PROVE  NotYetInvited'
<1>1. conn[c] = "accepting"
  BY DEF PeekOther, Matching, ConnOK
<1>2. \A p \in Publics : Uninvited(p)' <=> Uninvited(p)
  BY <1>1 DEF PeekOther, Uninvited, NoLine, TypeOK, WireTypeOK, Conns
<1>3. \A t \in Sessions : handler'[t] = "connect"
        => handler[t] = "connect" /\ cur[t] \in Publics
  BY <1>1 DEF PeekOther, Matching, HeldOK, Late, Paired, TypeOK, ServerTypeOK
<1> QED
  BY <1>2, <1>3 DEF PeekOther, Matching, NotYetInvited

\* Nor with any handshake that is over.
LEMMA PeekOtherLate ==
  ASSUME TypeOK, Matching, NEW c \in Conns, PeekOther(c), UNCHANGED clientVars
  PROVE  EndedLate'
<1>1. conn[c] = "accepting"
  BY DEF PeekOther, Matching, ConnOK
<1>2. \A p \in Publics : Uninvited(p)' <=> Uninvited(p)
  BY <1>1 DEF PeekOther, Uninvited, NoLine, TypeOK, WireTypeOK, Conns
<1>3. \A t \in Sessions : handler[t] = "await" => handler'[t] = "await"
  BY <1>1 DEF PeekOther, Matching, ConnOK, TypeOK, ServerTypeOK
<1> QED
  BY <1>2, <1>3 DEF PeekOther, Matching, EndedLate

\* The lookup: an entry with the callback's id whose handler still listens is the
\* callback's own, because every callback still to come has an id of its own.
LEMMA TakeSenderOwn ==
  ASSUME WholeLines, TypeOK, Matching, NEW c \in Conns, TakeSender(c),
         UNCHANGED clientVars
  PROVE  SenderOK'
<1>1. c \in Publics /\ conn[c] = "accepting" /\ mailbox[c] = None
  BY DEF TakeSender, Matching, HeldOK, ConnOK, MailboxOK
<1>2. handshakeId[c] \in Ids /\ ~Uninvited(c)
  BY <1>1 DEF Matching, NoTrace, Uninvited, TypeOK, WireTypeOK
<1>3. SeenIds(c) = {handshakeId[c]}
  BY <1>2 DEF SeenIds, WholeLines, Ids
<1>4. PICK f \in FirstEntry(handshakeId[c]) :
        acceptor' = Hold("send", c, f) \/ acceptor' = Idle
  BY <1>3 DEF TakeSender
<1>5. f \in Publics /\ handshakeId[f] = handshakeId[c]
  BY DEF FirstEntry, Entries, TypeOK, ServerTypeOK
<1>6. \A s \in Sessions : Holds(s, f) => f = c
  BY <1>1, <1>2, <1>5 DEF Matching, IdsApart
<1> QED
  BY <1>4, <1>6 DEF SenderOK, Holds, Hold, Idle, TakeSender

\* tx.send: only the stream's own handler can still be listening.
LEMMA SendMailbox ==
  ASSUME TypeOK, Matching, NEW c \in Conns, Send(c), UNCHANGED clientVars
  PROVE  MailboxOK'
<1>1. c \in Publics /\ acceptor.sender \in Publics
  BY DEF Matching, Send, HeldOK
<1>2. conn[c] = "accepting"
  BY DEF Send, Matching, ConnOK
<1>3. ReceiverAlive(acceptor.sender) => acceptor.sender = c
  BY DEF Send, ReceiverAlive, Matching, SenderOK, Holds, Paired
<1>4. CASE ReceiverAlive(acceptor.sender)
  <2>1. mailbox' = [mailbox EXCEPT ![c] = c]
          /\ conn' = [conn EXCEPT ![c] = "delivered"]
    BY <1>3, <1>4 DEF Send
  <2> QED
    BY <2>1, <1>1, <1>2
    DEF Matching, MailboxOK, TypeOK, WireTypeOK, ServerTypeOK, Conns
<1>5. CASE ~ReceiverAlive(acceptor.sender)
  BY <1>2, <1>5 DEF Send, Matching, MailboxOK, TypeOK, WireTypeOK, Conns
<1> QED
  BY <1>4, <1>5

\* What the accept loop does with a stream makes no public more or less invited.
LEMMA AcceptorKeepsUninvited ==
  ASSUME TypeOK, Matching,
         NEW c \in Conns, acceptor.at # "accept", acceptor.stream = c,
         conn' = [conn EXCEPT ![c] = "delivered"]
             \/ conn' = [conn EXCEPT ![c] = "closed"],
         UNCHANGED <<control, dialing>>
  PROVE  \A p \in Publics : Uninvited(p)' <=> Uninvited(p)
<1>1. conn[c] = "accepting"
  BY DEF Matching, ConnOK
<1> QED
  BY <1>1 DEF Uninvited, NoLine, TypeOK, WireTypeOK, Conns

\* A stream that is sent, or closed because nobody listens, disturbs no handshake.
LEMMA SendApart ==
  ASSUME TypeOK, Matching, NEW c \in Conns, Send(c), UNCHANGED clientVars
  PROVE  EndedLate' /\ IdsApart' /\ NotYetInvited'
<1>1. \A p \in Publics : Uninvited(p)' <=> Uninvited(p)
  BY AcceptorKeepsUninvited DEF Send
<1>2. \A p \in Publics : mailbox'[p] = None => mailbox[p] = None
  BY WireAssumption DEF Send, Matching, HeldOK, TypeOK, ServerTypeOK, Conns
<1>3. \A s \in Sessions : handler[s] = "connect" => cur[s] \in Publics
  BY DEF Matching, HeldOK, Late, Paired, TypeOK, ServerTypeOK
<1> QED
  BY <1>1, <1>2, <1>3 DEF Send, Matching, EndedLate, IdsApart, NotYetInvited, Holds

\* A handler that ends closes its own control connection and no other.
LEMMA GoneConns ==
  ASSUME TypeOK, Matching, NEW s \in Sessions,
         Refuse(s) \/ StartEof(s) \/ SeesDisconnect(s), UNCHANGED clientVars
  PROVE  ConnOK'
<1>1. conn[s] = "serving"
  BY DEF Refuse, StartEof, SeesDisconnect, Matching, ConnOK
<1>2. conn' = [conn EXCEPT ![s] = "closed"]
        /\ handler' = [handler EXCEPT ![s] = "gone"]
  BY DEF Refuse, StartEof, SeesDisconnect, Goto
<1>3. acceptor' = acceptor /\ client' = client
  BY DEF Refuse, StartEof, SeesDisconnect
<1>4. acceptor.at # "accept" => acceptor.stream # s
  BY <1>1 DEF Matching, ConnOK
<1> QED
  BY <1>1, <1>2, <1>3, <1>4
  DEF Matching, ConnOK, HeldOK, TypeOK, WireTypeOK, ServerTypeOK, Conns

\* The heart of the argument.  The new id has the present time.  A callback that
\* may still come, and whose handler no longer waits, has an earlier time; one whose
\* handler still waits is on another port.  So the new id is no other's.
LEMMA RegisterKeeps ==
  ASSUME TypeOK, Matching, NEW s \in Sessions, Register(s), UNCHANGED clientVars
  PROVE  IdsOK' /\ NoTrace' /\ NotYetInvited' /\ EndedLate' /\ IdsApart'
           /\ SenderOK' /\ TimesOK' /\ ConnOK' /\ ServingOK' /\ LinesOK'
           /\ MailboxOK'
<1> DEFINE p == cur[s]
<1>1. p \in Publics /\ handshakeId[p] = NoId
  BY DEF Register, Matching, HeldOK, IdsOK, Early, TypeOK, ServerTypeOK
<1>2. Uninvited(p) /\ acceptor.sender # p /\ mailbox[p] = None
  BY <1>1 DEF Matching, NoTrace
<1>3. handshakeId' = [handshakeId EXCEPT ![p] = <<now, PortOf[s]>>]
  BY DEF Register, NewId
<1>3a. handshakeId'[p] = <<now, PortOf[s]>> /\ <<now, PortOf[s]>> \in Ids
         /\ <<now, PortOf[s]>> # NoId /\ \A q \in Publics \ {p} :
         handshakeId'[q] = handshakeId[q]
  BY <1>3, <1>1, WireAssumption DEF TypeOK, WireTypeOK, Ids, NoId
<1>4. handler' = [handler EXCEPT ![s] = "connect"] /\ cur' = cur
        /\ handler[s] = "register"
  BY DEF Register, Goto
<1>5. \A t \in Sessions \ {s} : handler'[t] = handler[t]
        /\ (handler[t] \in Early \cup Late => cur[t] \in Publics \ {p})
  <2>1. \A t \in Sessions \ {s} : handler[t] \in Early \cup Late => cur[t] # p
    BY CurTellsHandler, <1>4 DEF Matching
  <2> QED
    BY <2>1, <1>4 DEF Matching, HeldOK, TypeOK, ServerTypeOK
<1>6. \A q \in Publics : Uninvited(q)' <=> Uninvited(q)
  BY DEF Register, Uninvited, NoLine
<1>7. IdsOK'
  <2>1. \A q \in Publics : public'[q] \in {"away", "queued"}
          => handshakeId'[q] = NoId
    BY <1>1, <1>3a, <1>4 DEF Register, Matching, IdsOK, ServingOK, HeldOK, Early
  <2>2. \A t \in Sessions : handler'[t] \in Early => handshakeId'[cur'[t]] = NoId
    BY <1>3a, <1>4, <1>5 DEF Matching, IdsOK, Early, TypeOK, ServerTypeOK
  <2>3. \A t \in Sessions : handler'[t] \in Late
          => handshakeId'[cur'[t]] \in Ids /\ handshakeId'[cur'[t]][2] = PortOf[t]
    BY <1>3a, <1>4, <1>5 DEF Matching, IdsOK, Late, Paired, TypeOK, ServerTypeOK
  <2>4. \A q \in Publics : handshakeId'[q][1] <= now'
    BY <1>3a DEF Register, Matching, IdsOK, TypeOK, WireTypeOK
  <2> QED
    BY <2>1, <2>2, <2>3, <2>4 DEF IdsOK
<1>8. NoTrace'
  <2>1. \A q \in Publics \ {p} : (q \in clients'
          => q \in clients) /\ (tx[q] = "none" => tx'[q] = "none")
    BY <1>1 DEF Register, SendersWithout, TypeOK, ServerTypeOK
  <2> QED
    BY <2>1, <1>3a, <1>6 DEF Register, Matching, NoTrace
<1>9. NotYetInvited'
  <2>1. \A t \in Sessions : handler'[t] = "connect"
          => cur'[t] \in Publics /\ Uninvited(cur[t])
    BY <1>1, <1>2, <1>4, <1>5 DEF Matching, NotYetInvited, Late, Paired
  <2> QED
    BY <2>1, <1>6, <1>4 DEF NotYetInvited
<1>10. EndedLate'
  <2>1. \A t \in Sessions : handler[t] = "await" => handler'[t] = "await"
    BY <1>4 DEF TypeOK, ServerTypeOK
  <2> QED
    BY <2>1, <1>2, <1>3a, <1>6, <1>4 DEF Register, Matching, EndedLate
<1>11. IdsApart'
  <2> SUFFICES ASSUME NEW r \in Publics, NEW q \in Publics, NEW t \in Sessions,
                Holds(t, q)', r # q, ~Uninvited(r), mailbox[r] = None
       PROVE handshakeId'[r] # handshakeId'[q]
     BY <1>6 DEF IdsApart, Register
  <2>1. r # p
    BY <1>2
  <2>2. CASE q = p
    <3>1. CASE now > handshakeId[r][1]
      BY <3>1, <2>1, <2>2, <1>3a, IdTime DEF TypeOK, WireTypeOK
    <3>2. ASSUME NEW u \in Sessions, cur[u] = r, handler[u] = "await"
          PROVE  handshakeId[r][2] # PortOf[s]
       BY <3>2, <1>4, <2>1 DEF Matching, IdsOK, ServingOK, Bound, Late, Paired
    <3> QED
      BY <3>1, <3>2, <2>1, <2>2, <1>3a DEF Matching, EndedLate
  <2>3. CASE q # p
    <3>1. Holds(t, q)
      BY <2>3, <1>4 DEF Holds, Paired, TypeOK, ServerTypeOK
    <3> QED
      BY <3>1, <2>1, <2>3, <1>3a DEF Matching, IdsApart
  <2> QED
    BY <2>2, <2>3
<1>12. SenderOK'
  <2>1. \A t \in Sessions, q \in Publics \ {p} : Holds(t, q)' => Holds(t, q)
    BY <1>4 DEF Holds, Paired, TypeOK, ServerTypeOK
  <2> QED
    BY <2>1, <1>2 DEF Register, Matching, SenderOK, HeldOK
<1>13. TimesOK'
  <2>1. \A q \in clients' : lastActivity'[q] >= handshakeId'[q][1]
    BY <1>1, <1>3a
    DEF Register, ActivityWithout, Matching, TimesOK, TypeOK, ServerTypeOK,
        WireTypeOK
  <2>2. \A t \in Sessions : handler'[t] = "await"
          => since'[t] >= handshakeId'[cur'[t]][1]
    BY <1>3a, <1>4, <1>5
    DEF Register, Matching, TimesOK, Late, Paired, TypeOK, ServerTypeOK
  <2>3. \A t \in Sessions : handler'[t] \in Paired /\ tx'[cur'[t]] = "dropped"
          => now' > handshakeId'[cur'[t]][1]
    <3> SUFFICES ASSUME NEW t \in Sessions, handler'[t] \in Paired,
                        tx'[cur[t]] = "dropped"
                 PROVE  now > handshakeId'[cur[t]][1]
       BY DEF Register
    <3>1. t # s
      BY <1>1 DEF Register, SendersWithout, TypeOK, ServerTypeOK
    <3>2. cur[t] \in Publics \ {p} /\ handler[t] \in Paired
      BY <3>1, <1>5 DEF Late
    <3>3. CASE tx[cur[t]] = "dropped"
      BY <3>2, <3>3, <1>3a DEF Matching, TimesOK
    <3>4. CASE cur[t] \in Stale
      BY <3>2, <3>4, <1>3a, IdTime, ServerAssumption
      DEF Stale, Age, Matching, TimesOK, TypeOK, ServerTypeOK, WireTypeOK
    <3> QED
      BY <3>2, <3>3, <3>4 DEF Register, SendersWithout, TypeOK, ServerTypeOK
  <2> QED
    BY <2>1, <2>2, <2>3 DEF TimesOK
<1>14. ConnOK' /\ ServingOK' /\ LinesOK' /\ MailboxOK'
  BY <1>4
  DEF Register, Matching, ConnOK, ServingOK, Bound, LinesOK, MailboxOK, TypeOK,
      ServerTypeOK
<1> QED
  BY <1>7, <1>8, <1>9, <1>10, <1>11, <1>12, <1>13, <1>14

\* CONNECT makes a callback possible: its id is no other waiting handler's.
LEMMA WriteConnectApart ==
  ASSUME TypeOK, Matching, NEW s \in Sessions, WriteConnect(s), UNCHANGED clientVars
  PROVE  IdsApart'
<1>1. cur[s] \in Publics
  BY DEF WriteConnect, Matching, HeldOK, Late, Paired, TypeOK, ServerTypeOK
<1>2. \A p \in Publics \ {cur[s]} : ~Uninvited(p)' => ~Uninvited(p)
  BY <1>1, Pushed
  DEF WriteConnect, Write, InFlight, Connect, Line, Uninvited, NoLine, TypeOK,
      WireTypeOK
<1>3. \A t \in Sessions, q \in Publics : Holds(t, q)' <=> Holds(t, q)
  BY DEF WriteConnect, Goto, Holds, Paired, TypeOK, ServerTypeOK
<1>4. \A t \in Sessions, q \in Publics : Holds(t, q) /\ q # cur[s]
        => handshakeId[q] # handshakeId[cur[s]]
  BY IdTellsHandler DEF WriteConnect, Holds, Late, Paired
<1> QED
  BY <1>1, <1>2, <1>3, <1>4 DEF WriteConnect, Matching, IdsApart

\* Nor does it name any public but the one it serves.
LEMMA WriteConnectInvites ==
  ASSUME TypeOK, Matching, NEW s \in Sessions, WriteConnect(s), UNCHANGED clientVars
  PROVE  NotYetInvited'
<1>1. cur[s] \in Publics
  BY DEF WriteConnect, Matching, HeldOK, Late, Paired, TypeOK, ServerTypeOK
<1>2. \A p \in Publics \ {cur[s]} : Uninvited(p) => Uninvited(p)'
  BY <1>1, Pushed
  DEF WriteConnect, Write, InFlight, Connect, Line, Uninvited, NoLine, TypeOK,
      WireTypeOK
<1>3. \A t \in Sessions : handler'[t] = "connect"
        => handler[t] = "connect" /\ t # s /\ cur'[t] = cur[t]
  BY DEF WriteConnect, Goto, TypeOK, ServerTypeOK
<1>4. \A t \in Sessions \ {s} : handler[t] = "connect"
        => cur[t] \in Publics \ {cur[s]}
  BY CurTellsHandler
  DEF WriteConnect, Matching, HeldOK, Late, Paired, TypeOK, ServerTypeOK
<1> QED
  BY <1>2, <1>3, <1>4 DEF Matching, NotYetInvited

\* When CONNECT cannot be written the handler forgets a public that nobody was told
\* of; the entry that stays is one no callback will ask for.
LEMMA WriteConnectFailsKeeps ==
  ASSUME TypeOK, Matching, NEW s \in Sessions, WriteConnectFails(s),
         UNCHANGED clientVars
  PROVE  ConnOK' /\ NoTrace' /\ NotYetInvited' /\ LinesOK' /\ IdsApart'
           /\ EndedLate' /\ MailboxOK'
<1>1. cur[s] \in Publics
  BY DEF WriteConnectFails, Matching, HeldOK, Late, Paired, TypeOK, ServerTypeOK
<1>2. \A c \in Conns : conn'[c] = conn[c] \/ (conn[c] \in {"delivered", "closed"}
        /\ conn'[c] = "closed")
  <2>1. ASSUME NEW c \in Conns, c = mailbox[cur[s]]
        PROVE  conn[c] \in {"delivered", "closed"}
    BY <1>1, <2>1, WireAssumption DEF Matching, MailboxOK
  <2>2. conn' = Closed({mailbox[cur[s]]} \cap Conns)
    BY DEF WriteConnectFails
  <2> SUFFICES ASSUME NEW c \in Conns
               PROVE  conn'[c] = conn[c] \/ (conn[c] \in {"delivered", "closed"}
                        /\ conn'[c] = "closed")
    OBVIOUS
  <2>3. CASE c = mailbox[cur[s]]
    BY <2>1, <2>2, <2>3 DEF Closed
  <2>4. CASE c # mailbox[cur[s]]
    BY <2>2, <2>4 DEF Closed
  <2> QED
    BY <2>3, <2>4
<1>3. handler' = [handler EXCEPT ![s] = "listen"] /\ cur' = [cur EXCEPT ![s] = None]
  BY DEF WriteConnectFails, GiveUp, Goto
<1>4. \A p \in Publics : Uninvited(p)' <=> Uninvited(p)
  BY <1>2 DEF WriteConnectFails, Uninvited, NoLine, Conns
<1>5. ConnOK'
  <2>1. \A t \in Sessions : handler'[t] \notin {"none", "gone"}
          => handler[t] \notin {"none", "gone"}
    BY <1>3 DEF WriteConnectFails, TypeOK, ServerTypeOK
  <2> QED
    BY <1>2, <2>1 DEF WriteConnectFails, Matching, ConnOK, HeldOK, Conns
<1>6. NoTrace'
  BY <1>4 DEF WriteConnectFails, Matching, NoTrace
<1>7. NotYetInvited'
  <2>1. \A t \in Sessions : handler'[t] = "connect"
          => handler[t] = "connect" /\ cur'[t] = cur[t] /\ cur[t] \in Publics
    BY <1>3 DEF Matching, HeldOK, Late, Paired, TypeOK, ServerTypeOK
  <2> QED
    BY <2>1, <1>4 DEF Matching, NotYetInvited
<1>8. LinesOK'
  <2>1. \A p \in Publics : conn'[p] = "none" <=> conn[p] = "none"
    BY <1>2 DEF Conns
  <2>2. \A t \in Sessions : \A i \in DOMAIN control[t] :
          control[t][i].pub \in Publics \cup {None}
    BY LenProperties DEF TypeOK, WireTypeOK, Line
  <2>3. \A t \in Sessions : client[t] = "dial" => dialing[t] \in Publics
    BY DEF Matching, HeldOK, TypeOK, ClientTypeOK
  <2>4. UNCHANGED <<control, dialing, client, home>>
    BY DEF WriteConnectFails, clientVars
  <2>5. LinesOK
    BY DEF Matching
  <2> QED
    BY <2>1, <2>2, <2>3, <2>4, <2>5 DEF LinesOK
<1>9. IdsApart'
  <2>1. \A t \in Sessions, q \in Publics : Holds(t, q)' => Holds(t, q)
    BY <1>3, WireAssumption DEF Holds, Conns, Paired, TypeOK, ServerTypeOK
  <2> QED
    BY <2>1, <1>4 DEF WriteConnectFails, Matching, IdsApart
<1>10. EndedLate'
  <2>1. Uninvited(cur[s])
    BY DEF WriteConnectFails, Matching, NotYetInvited
  <2>2. \A t \in Sessions : handler[t] = "await"
          => handler'[t] = "await" /\ cur'[t] = cur[t]
    BY <1>3 DEF WriteConnectFails, TypeOK, ServerTypeOK
  <2> QED
    BY <2>1, <2>2, <1>4 DEF WriteConnectFails, Matching, EndedLate
<1>11. MailboxOK'
  BY <1>2 DEF WriteConnectFails, Matching, MailboxOK, Conns
<1> QED
  BY <1>5, <1>6, <1>7, <1>8, <1>9, <1>10, <1>11

\* A handler stops waiting without a stream only when the timeout has passed or its
\* sender was dropped by age: in either case in a later tick than the id's.
LEMMA EndAwaitLate ==
  ASSUME ConnectionTimeout > 0, TypeOK, Matching, NEW s \in Sessions, EndAwait(s),
         UNCHANGED clientVars
  PROVE  EndedLate'
<1>1. cur[s] \in Publics
  BY DEF EndAwait, Matching, HeldOK, Late, Paired, TypeOK, ServerTypeOK
<1>2. mailbox[cur[s]] = None => now > handshakeId[cur[s]][1]
  BY <1>1, IdTime, ServerAssumption
  DEF EndAwait, AwaitExpired, Matching, TimesOK, Paired, TypeOK, ServerTypeOK,
      WireTypeOK
<1> QED
  BY <1>1, <1>2
  DEF EndAwait, Goto, Matching, EndedLate, Uninvited, NoLine, TypeOK,
      ServerTypeOK

\* Removing the entries of one id takes no other handshake's sender.
LEMMA CleanupTimes ==
  ASSUME TypeOK, Matching, NEW s \in Sessions, Cleanup(s), UNCHANGED clientVars
  PROVE  TimesOK'
<1>1. \A t \in Sessions \ {s} : handler[t] \in Late
        => cur[t] \notin Entries(handshakeId[cur[s]])
  BY IdTellsHandler DEF Cleanup, Late, Entries
<1> QED
  BY <1>1
  DEF Matching, TimesOK, Cleanup, Goto, RemoveEntries, SendersWithout,
      ActivityWithout, Late, Paired, TypeOK, ServerTypeOK, HeldOK

\* No line names a public that arrives.
LEMMA ArrivesLines ==
  ASSUME TypeOK, Matching, NEW s \in Sessions, NEW p0 \in Publics, Arrives(p0, s),
         UNCHANGED clientVars
  PROVE  LinesOK'
<1>1. Uninvited(p0)
  BY DEF Matching, IdsOK, NoTrace, Arrives
<1>2. \A p \in Publics \ {p0} : home'[p] = home[p]
  BY DEF Arrives, TypeOK, WireTypeOK
<1>3. \A t \in Sessions : \A i \in DOMAIN control[t] :
        control[t][i].pub \in Publics \cup {None}
  BY LenProperties DEF TypeOK, WireTypeOK, Line
<1> QED
  BY <1>1, <1>2, <1>3
  DEF Matching, LinesOK, Arrives, Uninvited, NoLine, TypeOK, ClientTypeOK

\* Time only makes ids older.
LEMMA TickTimes ==
  ASSUME TypeOK, Matching, Tick
  PROVE  IdsOK' /\ TimesOK' /\ EndedLate'
<1> USE IdTime DEF Tick, Matching, TypeOK, WireTypeOK
<1>1. IdsOK'
  BY DEF IdsOK
<1>2. TimesOK' 
   <2>1. \A s \in Sessions : handler[s] \in Paired => cur[s] \in Publics
     BY DEF HeldOK, Late, ServerTypeOK
   <2> QED
     BY <2>1 DEF TimesOK
<1>3. EndedLate'
  <2>1. \A p \in Publics : Uninvited(p)' <=> Uninvited(p)
    BY DEF Uninvited, NoLine
  <2> QED
    BY <2>1 DEF EndedLate
<1> QED
  BY <1>1, <1>2, <1>3

\* A line the client throws away takes its invitation with it.
LEMMA ReadOtherKeeps ==
  ASSUME TypeOK, Matching, NEW s \in Sessions, ReadOther(s), UNCHANGED serverVars
  PROVE  LinesOK' /\ NoTrace' /\ NotYetInvited' /\ EndedLate' /\ IdsApart'
<1>1. control[s] # <<>> /\ control' = [control EXCEPT ![s] = Tail(@)]
  BY DEF ReadOther, Reads
<1>2. \A p \in Publics : Uninvited(p) => Uninvited(p)'
  BY <1>1, Popped DEF ReadOther, Uninvited, NoLine, TypeOK, WireTypeOK
<1>3. LinesOK'
  <2>1. \A t \in Sessions : client'[t] = "dial" => client[t] = "dial"
    BY DEF ReadOther, Move, TypeOK, ClientTypeOK
  <2>2. \A t \in Sessions : \A i \in DOMAIN control'[t] :
          \E k \in DOMAIN control[t] : control'[t][i] = control[t][k]
    BY <1>1, LinesPopped
  <2>3. \A t \in Sessions : \A i, j \in DOMAIN control'[t] :
          control'[t][i].pub = control'[t][j].pub
          /\ control'[t][i].pub # None => i = j
    <3> SUFFICES ASSUME NEW t \in Sessions, NEW i \in DOMAIN control'[t],
                        NEW j \in DOMAIN control'[t],
                        control'[t][i].pub = control'[t][j].pub,
                        control'[t][i].pub # None
                 PROVE  i = j
      OBVIOUS
    <3>1. CASE t = s
      BY <1>1, <3>1, LinesPopped, Popped DEF Matching, LinesOK, TypeOK, WireTypeOK
    <3>2. CASE t # s
      BY <1>1, <3>2, LinesPopped DEF Matching, LinesOK
    <3> QED
      BY <3>1, <3>2
  <2> QED
    BY <2>1, <2>2, <2>3 DEF ReadOther, Matching, LinesOK
<1>4. NoTrace'
  BY <1>2 DEF ReadOther, Matching, NoTrace
<1>5. NotYetInvited'
  BY <1>2
  DEF ReadOther, Matching, NotYetInvited, HeldOK, Late, Paired, TypeOK,
      ServerTypeOK
<1>6. EndedLate'
  BY <1>2 DEF ReadOther, Matching, EndedLate
<1>7. IdsApart'
  BY <1>2 DEF ReadOther, Matching, IdsApart, Holds
<1> QED
  BY <1>3, <1>4, <1>5, <1>6, <1>7

\* The invitation moves from the line to the client's hands: it is in one place.
LEMMA ReadConnectLines ==
  ASSUME TypeOK, Matching, NEW s \in Sessions, ReadConnect(s), UNCHANGED serverVars
  PROVE  LinesOK'
<1> DEFINE p == Head(control[s]).pub
<1>1. control[s] # <<>> /\ control' = [control EXCEPT ![s] = Tail(@)]
  BY DEF ReadConnect, Reads
<1>2. p \in Publics /\ p = control[s][1].pub /\ 1 \in DOMAIN control[s]
  BY <1>1, Popped DEF ReadConnect, Reads, Line, TypeOK, WireTypeOK
<1>3. home[p] = s /\ conn[p] = "none"
  BY <1>2, WireAssumption DEF Matching, LinesOK, Conns
<1>4. dialing' = [dialing EXCEPT ![s] = p]
        /\ client' = [client EXCEPT ![s] = "dial"]
  BY DEF ReadConnect, Move
<1>5. \A t \in Sessions : \A i \in DOMAIN control'[t] :
         \E k \in DOMAIN control[t] : control'[t][i] = control[t][k]
  BY <1>1, LinesPopped
<1>6. \A t \in Sessions : \A i \in DOMAIN control'[t] : control'[t][i].pub # p
  <2>1. \A i \in DOMAIN control'[s] : control'[s][i].pub # p
    <3> SUFFICES ASSUME NEW i \in DOMAIN control'[s], control'[s][i].pub = p
                 PROVE  FALSE
      OBVIOUS
    <3>1. i + 1 \in DOMAIN control[s] /\ control[s][i + 1].pub = p /\ i + 1 # 1
      BY <1>1, LinesPopped, Popped DEF TypeOK, WireTypeOK
    <3> QED
      BY <3>1, <1>2, WireAssumption DEF Matching, LinesOK, Conns
  <2>2. \A t \in Sessions \ {s} : \A i \in DOMAIN control[t] : control[t][i].pub # p
    BY <1>2, <1>3, WireAssumption DEF Matching, LinesOK, Conns
  <2> QED
    BY <2>1, <2>2, <1>1, LinesPopped
<1>7. \A t \in Sessions : \A i, j \in DOMAIN control'[t] :
        control'[t][i].pub = control'[t][j].pub /\ control'[t][i].pub # None
            => i = j
    <3> SUFFICES ASSUME NEW t \in Sessions, NEW i \in DOMAIN control'[t],
                        NEW j \in DOMAIN control'[t],
                        control'[t][i].pub = control'[t][j].pub,
                        control'[t][i].pub # None
                 PROVE  i = j
      OBVIOUS
    <3>1. CASE t = s
      BY <1>1, <3>1, LinesPopped, Popped DEF Matching, LinesOK, TypeOK, WireTypeOK
    <3>2. CASE t # s
      BY <1>1, <3>2, LinesPopped DEF Matching, LinesOK
    <3> QED
      BY <3>1, <3>2
<1>8. conn' = conn /\ home' = home
  BY DEF ReadConnect
<1>9. \A t \in Sessions : dialing'[t] = (IF t = s THEN p ELSE dialing[t])
  BY <1>4 DEF TypeOK, ClientTypeOK
<1>10. \A t \in Sessions : client'[t] = (IF t = s THEN "dial" ELSE client[t])
  BY <1>4 DEF TypeOK, ClientTypeOK
<1>11. \A t \in Sessions : \A i \in DOMAIN control'[t] :
         control'[t][i].pub # None =>
          home[control'[t][i].pub] = t /\ conn[control'[t][i].pub] = "none"
              /\ \A u \in Sessions : dialing'[u] # control'[t][i].pub
   BY <1>5, <1>6, <1>9 DEF Matching, LinesOK
<1>12. \A t \in Sessions :
         /\ dialing'[t] # None => home[dialing'[t]] = t
         /\ client'[t] = "dial" => conn[dialing'[t]] = "none"
   BY <1>3, <1>9, <1>10 DEF Matching, LinesOK
<1>13. \A t \in Sessions : \A i \in DOMAIN control'[t] :
       LET q == control'[t][i].pub IN q # None =>
         /\ home'[q] = t
         /\ conn'[q] = "none" /\ \A u \in Sessions : dialing'[u] # q
         /\ \A j \in DOMAIN control'[t] : control'[t][j].pub = q => j = i
  BY <1>7, <1>8, <1>11
<1>14. /\ \A t \in Sessions : dialing'[t] # None => home'[dialing'[t]] = t
       /\ \A t \in Sessions : client'[t] = "dial" => conn'[dialing'[t]] = "none"
  BY <1>8, <1>12
<1> QED
  BY <1>13, <1>14 DEF LinesOK

-----------------------------------------------------------------------------
\* Every step of the accept loop, and the periodic cleanup, keeps the invariant.
LEMMA AcceptorMatching ==
  ASSUME WholeLines, TypeOK, Matching,
         (Acceptor \/ (PeriodicCleanup /\ UNCHANGED clientVars))
  PROVE  Rest'
<1>1. ASSUME NEW c \in Conns, Accept(c), UNCHANGED clientVars PROVE Rest'
  <2>1. ConnOK'
    BY <1>1 DEF Accept, Idle, Matching, ConnOK, HeldOK, Hold, Early, Late,
      Paired, TypeOK, WireTypeOK
  <2>2. ServingOK'
    BY <1>1 DEF Accept, Idle, Matching, ServingOK, Bound
  <2>3. IdsOK'
    BY <1>1 DEF Accept, Idle, Matching, IdsOK, Early, Late, Paired, Ids, NoId
  <2>4. NoTrace'
    BY <1>1 DEF Accept, Idle, Matching, NoTrace, Ids, NoId, Uninvited, NoLine,
      HeldOK, Hold
  <2>5. NotYetInvited'
    BY <1>1 DEF Accept, Idle, Matching, NotYetInvited, Uninvited, NoLine
  <2>6. LinesOK'
    BY <1>1 DEF Accept, Idle, Matching, LinesOK
  <2>7. MailboxOK'
    BY <1>1 DEF Accept, Idle, Matching, MailboxOK
  <2>8. TimesOK'
    BY <1>1 DEF Accept, Idle, Matching, TimesOK, Paired
  <2>9. EndedLate'
    BY <1>1 DEF Accept, Idle, Matching, EndedLate, Uninvited, NoLine
  <2>10. IdsApart'
    BY <1>1 DEF Accept, Idle, Matching, IdsApart, Holds, Uninvited, NoLine,
      Paired
  <2>11. SenderOK'
    BY <1>1 DEF Accept, Idle, Matching, SenderOK, Holds, Paired, HeldOK, Hold,
      Early, Late
  <2> QED
    BY <2>1, <2>2, <2>3, <2>4, <2>5, <2>6, <2>7, <2>8, <2>9, <2>10, <2>11 DEF Rest
<1>2. ASSUME NEW c \in Conns, PeekCallback(c), UNCHANGED clientVars
      PROVE  Rest'
  <2>1. ConnOK'
    BY <1>2 DEF PeekCallback, Matching, ConnOK, HeldOK, Idle, Hold, Early, Late,
      Paired
  <2>2. ServingOK'
    BY <1>2 DEF PeekCallback, Matching, ServingOK, Bound
  <2>3. IdsOK'
    BY <1>2 DEF PeekCallback, Matching, IdsOK, Early, Late, Paired, Ids, NoId
  <2>4. NoTrace'
    BY <1>2, WireAssumption DEF PeekCallback, Matching, NoTrace, Ids, NoId,
      Uninvited, NoLine, HeldOK, Idle, Hold, Conns
  <2>5. NotYetInvited'
    BY <1>2 DEF PeekCallback, Matching, NotYetInvited, Uninvited, NoLine
  <2>6. LinesOK'
    BY <1>2 DEF PeekCallback, Matching, LinesOK
  <2>7. MailboxOK'
    BY <1>2 DEF PeekCallback, Matching, MailboxOK
  <2>8. TimesOK'
    BY <1>2 DEF PeekCallback, Matching, TimesOK, Paired
  <2>9. EndedLate'
    BY <1>2 DEF PeekCallback, Matching, EndedLate, Uninvited, NoLine
  <2>10. IdsApart'
    BY <1>2 DEF PeekCallback, Matching, IdsApart, Holds, Uninvited, NoLine,
      Paired
  <2>11. SenderOK'
    BY <1>2 DEF PeekCallback, Matching, SenderOK, Holds, Paired, HeldOK, Idle,
      Hold, Early, Late
  <2> QED
    BY <2>1, <2>2, <2>3, <2>4, <2>5, <2>6, <2>7, <2>8, <2>9, <2>10, <2>11 DEF Rest
<1>3. ASSUME NEW c \in Conns, PeekOther(c), UNCHANGED clientVars PROVE Rest'
  <2>1. ConnOK'
    BY <1>3 DEF PeekOther, Idle, Matching, ConnOK, HeldOK, Hold, Early, Late,
      Paired, TypeOK, WireTypeOK
  <2>2. ServingOK'
    BY <1>3 DEF PeekOther, Idle, Matching, ServingOK, Bound
  <2>3. IdsOK'
    BY <1>3 DEF PeekOther, Idle, Matching, IdsOK, Early, Late, Paired, Ids, NoId
  <2>4. NoTrace'
    BY <1>3, WireAssumption DEF PeekOther, Idle, Matching, NoTrace, Ids, NoId,
      Uninvited, NoLine, HeldOK, ConnOK, Hold, Conns
  <2>5. NotYetInvited'
    BY <1>3, PeekOtherInvites
  <2>6. LinesOK'
    BY <1>3 DEF PeekOther, Idle, Matching, LinesOK, ConnOK
  <2>7. MailboxOK'
    BY <1>3, WireAssumption DEF PeekOther, Idle, Matching, MailboxOK, Conns
  <2>8. TimesOK'
    BY <1>3 DEF PeekOther, Idle, Matching, TimesOK, Paired
  <2>9. EndedLate'
    BY <1>3, PeekOtherLate
  <2>10. IdsApart'
    BY <1>3 DEF PeekOther, Idle, Matching, IdsApart, Holds, Uninvited, NoLine,
      Paired, ConnOK
  <2>11. SenderOK'
    BY <1>3 DEF PeekOther, Idle, Matching, SenderOK, Holds, Paired, HeldOK,
      Hold, Early, Late
  <2> QED
    BY <2>1, <2>2, <2>3, <2>4, <2>5, <2>6, <2>7, <2>8, <2>9, <2>10, <2>11 DEF Rest
<1>4. ASSUME NEW c \in Conns, TakeSender(c), UNCHANGED clientVars PROVE Rest'
  <2>1. ConnOK'
    BY <1>4, WireAssumption, SMTT(10) DEF TakeSender, Idle, FirstEntry, Entries,
      SeenIds, Matching, ConnOK, HeldOK, Hold, Early, Late, Paired, TypeOK,
      WireTypeOK, Conns
  <2>2. ServingOK' /\ IdsOK'
    BY <1>4, SMTT(10) DEF TakeSender, Idle, FirstEntry, Entries, SeenIds,
      Matching, ServingOK, IdsOK, Bound, Early, Late, Paired, Ids, NoId
  <2>3. NoTrace'
    BY <1>4, WireAssumption, SMTT(10) DEF TakeSender, Idle, FirstEntry, Entries,
      SeenIds, Matching, NoTrace, Ids, NoId, Uninvited, NoLine, HeldOK, ConnOK,
      Hold, TypeOK, WireTypeOK, ServerTypeOK, Conns
  <2>4. NotYetInvited'
    BY <1>4, WireAssumption, SMTT(10) DEF TakeSender, Idle, FirstEntry, Entries,
      SeenIds, Matching, NotYetInvited, Uninvited, NoLine, HeldOK, Hold, Early,
      Late, Paired, ConnOK, TypeOK, WireTypeOK, ServerTypeOK, Conns
  <2>5. LinesOK'
    BY <1>4, WireAssumption, SMTT(10) DEF TakeSender, Idle, FirstEntry, Entries,
      SeenIds, Matching, LinesOK, HeldOK, ConnOK, Hold, Early, Late, Paired,
      TypeOK, WireTypeOK, ClientTypeOK, ConnPhase, Conns, HandlerStep, Line
  <2>6. MailboxOK'
    BY <1>4, WireAssumption DEF TakeSender, Idle, FirstEntry, Entries, SeenIds,
      Matching, MailboxOK, TypeOK, WireTypeOK, Conns
  <2>7. TimesOK'
    BY <1>4, SMTT(10) DEF TakeSender, Idle, FirstEntry, Entries, SeenIds,
      Matching, TimesOK, Paired, HeldOK, IdsOK, Hold, Early, Late, Ids, NoId,
      TypeOK, ServerTypeOK
  <2>8. EndedLate'
    BY <1>4, WireAssumption, SMTT(10) DEF TakeSender, Idle, FirstEntry, Entries,
      SeenIds, Matching, EndedLate, Uninvited, NoLine, ConnOK, TypeOK,
      WireTypeOK, Conns
  <2>9. IdsApart'
    BY <1>4, WireAssumption, SMTT(10) DEF TakeSender, Idle, FirstEntry, Entries,
      SeenIds, Matching, IdsApart, Holds, Uninvited, NoLine, Paired, ConnOK,
      TypeOK, WireTypeOK, Conns
  <2>10. SenderOK'
    BY <1>4, TakeSenderOwn
  <2> QED
    BY <2>1, <2>2, <2>3, <2>4, <2>5, <2>6, <2>7, <2>8, <2>9, <2>10 DEF Rest
<1>5. ASSUME NEW c \in Conns, NoEntry(c), UNCHANGED clientVars PROVE Rest'
  <2>1. ConnOK'
    BY <1>5 DEF NoEntry, Idle, SeenIds, Matching, ConnOK, HeldOK, Hold, Early,
      Late, Paired
  <2>2. ServingOK' /\ IdsOK' /\ TimesOK'
    BY <1>5, SMTT(10) DEF NoEntry, Idle, SeenIds, Matching, ServingOK, IdsOK,
      TimesOK, Bound, Early, Late, Paired, Ids, NoId
  <2>3. NoTrace'
    BY <1>5, WireAssumption, SMTT(10) DEF NoEntry, Idle, SeenIds, Matching,
      NoTrace, Ids, NoId, Uninvited, NoLine, HeldOK, ConnOK, Hold, Conns
  <2>4. NotYetInvited'
    BY <1>5 DEF NoEntry, Idle, SeenIds, Matching, NotYetInvited, Uninvited,
      NoLine, ConnOK
  <2>5. LinesOK'
    BY <1>5 DEF NoEntry, Idle, SeenIds, Matching, LinesOK, ConnOK
  <2>6. MailboxOK'
    BY <1>5 DEF NoEntry, Idle, SeenIds, Matching, MailboxOK
  <2>7. EndedLate'
    BY <1>5 DEF NoEntry, Idle, SeenIds, Matching, EndedLate, Uninvited, NoLine,
      ConnOK
  <2>8. IdsApart'
    BY <1>5 DEF NoEntry, Idle, SeenIds, Matching, IdsApart, Holds, Uninvited,
      NoLine, Paired, ConnOK
  <2>9. SenderOK'
    BY <1>5 DEF NoEntry, Idle, SeenIds, Matching, SenderOK, Holds, Paired,
      HeldOK, Hold, Early, Late
  <2> QED
    BY <2>1, <2>2, <2>3, <2>4, <2>5, <2>6, <2>7, <2>8, <2>9 DEF Rest
<1>6. ASSUME NEW c \in Conns, Send(c), UNCHANGED clientVars PROVE Rest'
  <2>1. ConnOK'
    BY <1>6, WireAssumption, SMTT(10) DEF Send, Idle, ReceiverAlive, Matching,
      ConnOK, HeldOK, Hold, Early, Late, Paired, TypeOK, WireTypeOK, Conns
  <2>2. ServingOK'
    BY <1>6 DEF Send, Idle, ReceiverAlive, Matching, ServingOK, Bound
  <2>3. IdsOK'
    BY <1>6 DEF Send, Idle, ReceiverAlive, Matching, IdsOK, Early, Late, Paired,
      Ids, NoId
  <2>4. NoTrace'
    BY <1>6, WireAssumption, SMTT(10) DEF Send, Idle, ReceiverAlive, Matching,
      NoTrace, Ids, NoId, Uninvited, NoLine, HeldOK, ConnOK, Hold, TypeOK,
      WireTypeOK, ServerTypeOK, Conns
  <2>5. NotYetInvited' /\ EndedLate' /\ IdsApart'
    BY <1>6, SendApart
  <2>6. LinesOK'
    BY <1>6, WireAssumption, SMTT(10) DEF Send, Idle, ReceiverAlive, Matching,
      LinesOK, HeldOK, ConnOK, Hold, Early, Late, Paired, TypeOK, WireTypeOK,
      ClientTypeOK, ConnPhase, Conns, HandlerStep, Line
  <2>7. MailboxOK'
    BY <1>6, SendMailbox
  <2>8. TimesOK'
    BY <1>6 DEF Send, Idle, ReceiverAlive, Matching, TimesOK, Paired
  <2>9. SenderOK'
    BY <1>6 DEF Send, Idle, ReceiverAlive, Matching, SenderOK, Holds, Paired,
      HeldOK, Hold, Early, Late
  <2> QED
    BY <2>1, <2>2, <2>3, <2>4, <2>5, <2>6, <2>7, <2>8, <2>9 DEF Rest
<1>7. ASSUME PeriodicCleanup, UNCHANGED clientVars PROVE Rest'
  <2>1. ConnOK' /\ ServingOK' /\ IdsOK' /\ NotYetInvited'
    BY <1>7, SMTT(10) DEF PeriodicCleanup, Expired, RemoveEntries,
      SendersWithout, OlderWithout, ActivityWithout, Age, Matching, ConnOK,
      ServingOK, IdsOK, NotYetInvited, Bound, Early, Late, Paired, Ids, NoId,
      Uninvited, NoLine
  <2>2. NoTrace'
    BY <1>7, SMTT(10) DEF PeriodicCleanup, Expired, RemoveEntries,
      SendersWithout, OlderWithout, ActivityWithout, Age, Matching, NoTrace,
      Ids, NoId, Uninvited, NoLine
  <2>3. LinesOK' /\ MailboxOK' /\ EndedLate' /\ IdsApart'
    BY <1>7, SMTT(10) DEF PeriodicCleanup, Expired, RemoveEntries,
      SendersWithout, OlderWithout, ActivityWithout, Age, Matching, LinesOK,
      MailboxOK, EndedLate, IdsApart, Uninvited, NoLine, Holds, Paired
  <2>4. TimesOK'
    BY <1>7, ServerAssumption, SMTT(10) DEF PeriodicCleanup, Expired,
      RemoveEntries, SendersWithout, OlderWithout, ActivityWithout, Age,
      Matching, TimesOK, Paired, HeldOK, IdsOK, Idle, Hold, Early, Late, Ids,
      NoId, TypeOK, WireTypeOK, ServerTypeOK
  <2>5. SenderOK'
    BY <1>7 DEF PeriodicCleanup, Expired, RemoveEntries, SendersWithout,
      OlderWithout, ActivityWithout, Age, Matching, SenderOK, Holds, Paired
  <2> QED
    BY <2>1, <2>2, <2>3, <2>4, <2>5 DEF Rest
<1> QED
  BY <1>1, <1>2, <1>3, <1>4, <1>5, <1>6, <1>7 DEF Acceptor, AcceptorStep

-----------------------------------------------------------------------------
\* Every step of handle_client keeps the invariant.
LEMMA HandlerMatching ==
  ASSUME ConnectionTimeout > 0, TypeOK, Matching,
         (\E s \in Sessions : Handler(s))
  PROVE  Rest'
<1>1. ASSUME NEW s \in Sessions, Bind(s), UNCHANGED clientVars PROVE Rest'
  <2>1. ConnOK'
    BY <1>1 DEF Bind, Goto, Bound, Matching, ConnOK
  <2>2. ServingOK'
    BY <1>1 DEF Bind, Goto, Bound, Matching, ServingOK
  <2>3. IdsOK'
    BY <1>1 DEF Bind, Goto, Bound, Matching, IdsOK, Early, Late, Paired, Ids,
      NoId
  <2>4. NoTrace' /\ LinesOK' /\ MailboxOK'
    BY <1>1 DEF Bind, Goto, Bound, Matching, NoTrace, LinesOK, MailboxOK, Ids,
      NoId, Uninvited, NoLine
  <2>5. NotYetInvited'
    BY <1>1 DEF Bind, Goto, Bound, Matching, NotYetInvited, Uninvited, NoLine
  <2>6. TimesOK'
    BY <1>1 DEF Bind, Goto, Bound, Matching, TimesOK, Paired
  <2>7. EndedLate'
    BY <1>1 DEF Bind, Goto, Bound, Matching, EndedLate, Uninvited, NoLine,
      ServerTypeOK
  <2>8. IdsApart'
    BY <1>1 DEF Bind, Goto, Bound, Matching, IdsApart, Holds, Uninvited, NoLine,
      Paired
  <2>9. SenderOK'
    BY <1>1 DEF Bind, Goto, Bound, Matching, SenderOK, Holds, Paired
  <2> QED
    BY <2>1, <2>2, <2>3, <2>4, <2>5, <2>6, <2>7, <2>8, <2>9 DEF Rest
<1>2. ASSUME NEW s \in Sessions, Refuse(s), UNCHANGED clientVars PROVE Rest'
  <2>1. ConnOK'
    BY <1>2, GoneConns
  <2>2. ServingOK'
    BY <1>2 DEF Refuse, Goto, Bound, Write, InFlight, Error, Matching, ServingOK
  <2>3. IdsOK'
    BY <1>2, SMTT(10) DEF Refuse, Goto, Bound, Write, InFlight, Error, Matching,
      IdsOK, Early, Late, Paired, Ids, NoId
  <2>4. NoTrace'
    BY <1>2, WireAssumption, SMTT(10) DEF Refuse, Goto, Bound, Write, InFlight,
      Error, Matching, NoTrace, Ids, NoId, Uninvited, NoLine, ServingOK, IdsOK,
      LinesOK, Early, Late, Paired, Conns
  <2>5. NotYetInvited'
    BY <1>2, WireAssumption, SMTT(10) DEF Refuse, Goto, Bound, Write, InFlight,
      Error, Matching, NotYetInvited, Uninvited, NoLine, HeldOK, ServingOK,
      LinesOK, Idle, Hold, Early, Late, Paired, TypeOK, ServerTypeOK, ConnPhase,
      Conns, HandlerStep, Line
  <2>6. LinesOK'
    BY <1>2, WireAssumption, SMTT(10) DEF Refuse, Goto, Bound, Write, InFlight,
      Error, Matching, LinesOK, ConnOK, WireTypeOK, ClientTypeOK, ConnPhase,
      Conns, HandlerStep, Line
  <2>7. MailboxOK'
    BY <1>2 DEF Refuse, Goto, Bound, Write, InFlight, Error, Matching, MailboxOK
  <2>8. TimesOK'
    BY <1>2 DEF Refuse, Goto, Bound, Write, InFlight, Error, Matching, TimesOK,
      Paired
  <2>9. EndedLate'
    BY <1>2, WireAssumption DEF Refuse, Goto, Bound, Write, InFlight, Error,
      Matching, EndedLate, Uninvited, NoLine, ServerTypeOK, Conns
  <2>10. IdsApart'
    BY <1>2, WireAssumption, ServerAssumption, SMTT(10) DEF Refuse, Goto, Bound,
      Write, InFlight, Error, Matching, IdsApart, Holds, Uninvited, NoLine,
      Paired, ConnOK, ServingOK, IdsOK, NoTrace, EndedLate, NotYetInvited,
      LinesOK, MailboxOK, Early, Late, Ids, NoId, ConnPhase, Conns, HandlerStep,
      Line
  <2>11. SenderOK'
    BY <1>2 DEF Refuse, Goto, Bound, Write, InFlight, Error, Matching, SenderOK,
      Holds, Paired
  <2> QED
    BY <2>1, <2>2, <2>3, <2>4, <2>5, <2>6, <2>7, <2>8, <2>9, <2>10, <2>11 DEF Rest
<1>3. ASSUME NEW s \in Sessions, StartEof(s), UNCHANGED clientVars
      PROVE  Rest'
  <2>1. ConnOK'
    BY <1>3, GoneConns
  <2>2. ServingOK'
    BY <1>3 DEF StartEof, Goto, Matching, ServingOK, Bound
  <2>3. IdsOK'
    BY <1>3 DEF StartEof, Goto, Matching, IdsOK, Early, Late, Paired, Ids, NoId,
      ServerTypeOK
  <2>4. NoTrace'
    BY <1>3, WireAssumption DEF StartEof, Goto, Matching, NoTrace, Ids, NoId,
      Uninvited, NoLine, Conns
  <2>5. NotYetInvited'
    BY <1>3, WireAssumption DEF StartEof, Goto, Matching, NotYetInvited,
      Uninvited, NoLine, TypeOK, ServerTypeOK, Conns
  <2>6. LinesOK'
    BY <1>3, WireAssumption DEF StartEof, Goto, Matching, LinesOK, TypeOK,
      WireTypeOK, ClientTypeOK, ConnPhase, Conns, HandlerStep, Line
  <2>7. MailboxOK'
    BY <1>3 DEF StartEof, Goto, Matching, MailboxOK
  <2>8. TimesOK'
    BY <1>3 DEF StartEof, Goto, Matching, TimesOK, Paired
  <2>9. EndedLate'
    BY <1>3, WireAssumption DEF StartEof, Goto, Matching, EndedLate, Uninvited,
      NoLine, ServerTypeOK, Conns
  <2>10. IdsApart'
    BY <1>3, WireAssumption DEF StartEof, Goto, Matching, IdsApart, Holds,
      Uninvited, NoLine, Paired, Conns
  <2>11. SenderOK'
    BY <1>3 DEF StartEof, Goto, Matching, SenderOK, Holds, Paired
  <2> QED
    BY <2>1, <2>2, <2>3, <2>4, <2>5, <2>6, <2>7, <2>8, <2>9, <2>10, <2>11 DEF Rest
<1>4. ASSUME NEW s \in Sessions, NEW p0 \in Publics, AcceptPublic(s, p0), UNCHANGED clientVars
      PROVE  Rest'
  <2>1. ConnOK'
    BY <1>4 DEF AcceptPublic, Goto, Matching, ConnOK
  <2>2. ServingOK'
    BY <1>4 DEF AcceptPublic, Goto, Matching, ServingOK, Bound, TypeOK,
      ServerTypeOK
  <2>3. IdsOK'
    BY <1>4 DEF AcceptPublic, Goto, Matching, IdsOK, Early, Late, Paired, Ids,
      NoId, TypeOK, ServerTypeOK
  <2>4. NoTrace' /\ LinesOK' /\ MailboxOK'
    BY <1>4 DEF AcceptPublic, Goto, Matching, NoTrace, LinesOK, MailboxOK, Ids,
      NoId, Uninvited, NoLine
  <2>5. NotYetInvited'
    BY <1>4 DEF AcceptPublic, Goto, Matching, NotYetInvited, Uninvited, NoLine,
      HeldOK, Idle, Hold, Early, Late, Paired
  <2>6. TimesOK'
    BY <1>4 DEF AcceptPublic, Goto, Matching, TimesOK, Paired
  <2>7. EndedLate'
    BY <1>4 DEF AcceptPublic, Goto, Matching, EndedLate, Uninvited, NoLine,
      ServerTypeOK
  <2>8. IdsApart'
    BY <1>4 DEF AcceptPublic, Goto, Matching, IdsApart, Holds, Uninvited,
      NoLine, Paired
  <2>9. SenderOK'
    BY <1>4 DEF AcceptPublic, Goto, Matching, SenderOK, Holds, Paired
  <2> QED
    BY <2>1, <2>2, <2>3, <2>4, <2>5, <2>6, <2>7, <2>8, <2>9 DEF Rest
<1>5. ASSUME NEW s \in Sessions, SeesDisconnect(s), UNCHANGED clientVars
      PROVE  Rest'
  <2>1. ConnOK'
    BY <1>5, GoneConns
  <2>2. ServingOK'
    BY <1>5 DEF SeesDisconnect, Goto, Matching, ServingOK, Bound, TypeOK,
      ServerTypeOK
  <2>3. IdsOK'
    BY <1>5 DEF SeesDisconnect, Goto, Matching, IdsOK, Early, Late, Paired, Ids,
      NoId
  <2>4. NoTrace'
    BY <1>5, WireAssumption DEF SeesDisconnect, Goto, Matching, NoTrace, Ids,
      NoId, Uninvited, NoLine, Conns
  <2>5. NotYetInvited'
    BY <1>5, WireAssumption DEF SeesDisconnect, Goto, Matching, NotYetInvited,
      Uninvited, NoLine, TypeOK, ServerTypeOK, Conns
  <2>6. LinesOK'
    BY <1>5, WireAssumption DEF SeesDisconnect, Goto, Matching, LinesOK, TypeOK,
      WireTypeOK, ClientTypeOK, ConnPhase, Conns, HandlerStep, Line
  <2>7. MailboxOK'
    BY <1>5 DEF SeesDisconnect, Goto, Matching, MailboxOK
  <2>8. TimesOK'
    BY <1>5 DEF SeesDisconnect, Goto, Matching, TimesOK, Paired
  <2>9. EndedLate'
    BY <1>5, WireAssumption DEF SeesDisconnect, Goto, Matching, EndedLate,
      Uninvited, NoLine, Conns
  <2>10. IdsApart'
    BY <1>5, WireAssumption DEF SeesDisconnect, Goto, Matching, IdsApart, Holds,
      Uninvited, NoLine, Paired, Conns
  <2>11. SenderOK'
    BY <1>5 DEF SeesDisconnect, Goto, Matching, SenderOK, Holds, Paired
  <2> QED
    BY <2>1, <2>2, <2>3, <2>4, <2>5, <2>6, <2>7, <2>8, <2>9, <2>10, <2>11 DEF Rest
<1>6. ASSUME NEW s \in Sessions, ReadFirstBytes(s), UNCHANGED clientVars
      PROVE  Rest'
  <2>1. ConnOK'
    BY <1>6 DEF ReadFirstBytes, Goto, StopTimer, Matching, ConnOK
  <2>2. ServingOK'
    BY <1>6 DEF ReadFirstBytes, Goto, StopTimer, Matching, ServingOK, Bound
  <2>3. IdsOK'
    BY <1>6 DEF ReadFirstBytes, Goto, StopTimer, Matching, IdsOK, Early, Late,
      Paired, Ids, NoId
  <2>4. NoTrace' /\ LinesOK' /\ MailboxOK'
    BY <1>6 DEF ReadFirstBytes, Goto, StopTimer, Matching, NoTrace, LinesOK,
      MailboxOK, Ids, NoId, Uninvited, NoLine
  <2>5. NotYetInvited'
    BY <1>6 DEF ReadFirstBytes, Goto, StopTimer, Matching, NotYetInvited,
      Uninvited, NoLine
  <2>6. TimesOK'
    BY <1>6 DEF ReadFirstBytes, Goto, StopTimer, Matching, TimesOK, Paired
  <2>7. EndedLate'
    BY <1>6 DEF ReadFirstBytes, Goto, StopTimer, Matching, EndedLate, Uninvited,
      NoLine, ServerTypeOK
  <2>8. IdsApart'
    BY <1>6 DEF ReadFirstBytes, Goto, StopTimer, Matching, IdsApart, Holds,
      Uninvited, NoLine, Paired
  <2>9. SenderOK'
    BY <1>6 DEF ReadFirstBytes, Goto, StopTimer, Matching, SenderOK, Holds,
      Paired
  <2> QED
    BY <2>1, <2>2, <2>3, <2>4, <2>5, <2>6, <2>7, <2>8, <2>9 DEF Rest
<1>7. ASSUME NEW s \in Sessions, NoFirstBytes(s), UNCHANGED clientVars
      PROVE  Rest'
  <2>1. ConnOK'
    BY <1>7 DEF NoFirstBytes, GiveUp, Goto, StopTimer, Matching, ConnOK
  <2>2. ServingOK'
    BY <1>7 DEF NoFirstBytes, GiveUp, Goto, StopTimer, Matching, ServingOK,
      Bound, TypeOK, ServerTypeOK
  <2>3. IdsOK'
    BY <1>7, SMTT(10) DEF NoFirstBytes, GiveUp, Goto, StopTimer, Matching,
      IdsOK, Early, Late, Paired, Ids, NoId, TypeOK, ServerTypeOK
  <2>4. NoTrace' /\ LinesOK' /\ MailboxOK'
    BY <1>7 DEF NoFirstBytes, GiveUp, Goto, StopTimer, Matching, NoTrace,
      LinesOK, MailboxOK, Ids, NoId, Uninvited, NoLine
  <2>5. NotYetInvited'
    BY <1>7, SMTT(10) DEF NoFirstBytes, GiveUp, Goto, StopTimer, Matching,
      NotYetInvited, Uninvited, NoLine, HeldOK, Idle, Hold, Early, Late, Paired
  <2>6. TimesOK'
    BY <1>7 DEF NoFirstBytes, GiveUp, Goto, StopTimer, Matching, TimesOK, Paired
  <2>7. EndedLate'
    BY <1>7 DEF NoFirstBytes, GiveUp, Goto, StopTimer, Matching, EndedLate,
      Uninvited, NoLine, ServerTypeOK
  <2>8. IdsApart'
    BY <1>7 DEF NoFirstBytes, GiveUp, Goto, StopTimer, Matching, IdsApart,
      Holds, Uninvited, NoLine, Paired
  <2>9. SenderOK'
    BY <1>7 DEF NoFirstBytes, GiveUp, Goto, StopTimer, Matching, SenderOK,
      Holds, Paired
  <2> QED
    BY <2>1, <2>2, <2>3, <2>4, <2>5, <2>6, <2>7, <2>8, <2>9 DEF Rest
<1>8. ASSUME NEW s \in Sessions, WriteReady(s), UNCHANGED clientVars
      PROVE  Rest'
  <2>1. ConnOK'
    BY <1>8 DEF WriteReady, Goto, Write, InFlight, Ready, MayWrite, Matching,
      ConnOK
  <2>2. ServingOK'
    BY <1>8 DEF WriteReady, Goto, Write, InFlight, Ready, MayWrite, Matching,
      ServingOK, Bound
  <2>3. IdsOK'
    BY <1>8, SMTT(10) DEF WriteReady, Goto, Write, InFlight, Ready, MayWrite,
      Matching, IdsOK, Early, Late, Paired, Ids, NoId
  <2>4. NoTrace'
    BY <1>8, WireAssumption, SMTT(10) DEF WriteReady, Goto, Write, InFlight,
      Ready, MayWrite, Matching, NoTrace, Ids, NoId, Uninvited, NoLine, ConnOK,
      Conns
  <2>5. NotYetInvited'
    BY <1>8, SMTT(10) DEF WriteReady, Goto, Write, InFlight, Ready, MayWrite,
      Matching, NotYetInvited, Uninvited, NoLine, HeldOK, ServingOK, Idle, Hold,
      Early, Late, Paired, Bound
  <2>6. LinesOK'
    BY <1>8 DEF WriteReady, Goto, Write, InFlight, Ready, MayWrite, Matching,
      LinesOK
  <2>7. MailboxOK'
    BY <1>8 DEF WriteReady, Goto, Write, InFlight, Ready, MayWrite, Matching,
      MailboxOK
  <2>8. TimesOK'
    BY <1>8 DEF WriteReady, Goto, Write, InFlight, Ready, MayWrite, Matching,
      TimesOK, Paired
  <2>9. EndedLate'
    BY <1>8, WireAssumption DEF WriteReady, Goto, Write, InFlight, Ready,
      MayWrite, Matching, EndedLate, Uninvited, NoLine, ServerTypeOK, Conns
  <2>10. IdsApart'
    BY <1>8, WireAssumption, SMTT(10) DEF WriteReady, Goto, Write, InFlight,
      Ready, MayWrite, Matching, IdsApart, Holds, Uninvited, NoLine, Paired,
      ServingOK, NotYetInvited, Bound, ConnPhase, Conns, HandlerStep, Line
  <2>11. SenderOK'
    BY <1>8 DEF WriteReady, Goto, Write, InFlight, Ready, MayWrite, Matching,
      SenderOK, Holds, Paired
  <2> QED
    BY <2>1, <2>2, <2>3, <2>4, <2>5, <2>6, <2>7, <2>8, <2>9, <2>10, <2>11 DEF Rest
<1>9. ASSUME NEW s \in Sessions, WriteReadyFails(s), UNCHANGED clientVars
      PROVE  Rest'
  <2>1. ConnOK'
    BY <1>9 DEF WriteReadyFails, GiveUp, Goto, Matching, ConnOK
  <2>2. ServingOK'
    BY <1>9 DEF WriteReadyFails, GiveUp, Goto, Matching, ServingOK, Bound,
      TypeOK, ServerTypeOK
  <2>3. IdsOK'
    BY <1>9 DEF WriteReadyFails, GiveUp, Goto, Matching, IdsOK, Early, Late,
      Paired, Ids, NoId, TypeOK, ServerTypeOK
  <2>4. NoTrace' /\ LinesOK' /\ MailboxOK'
    BY <1>9 DEF WriteReadyFails, GiveUp, Goto, Matching, NoTrace, LinesOK,
      MailboxOK, Ids, NoId, Uninvited, NoLine
  <2>5. NotYetInvited'
    BY <1>9, SMTT(10) DEF WriteReadyFails, GiveUp, Goto, Matching,
      NotYetInvited, Uninvited, NoLine, HeldOK, Idle, Hold, Early, Late, Paired
  <2>6. TimesOK'
    BY <1>9 DEF WriteReadyFails, GiveUp, Goto, Matching, TimesOK, Paired,
      ServerTypeOK
  <2>7. EndedLate'
    BY <1>9 DEF WriteReadyFails, GiveUp, Goto, Matching, EndedLate, Uninvited,
      NoLine, ServerTypeOK
  <2>8. IdsApart'
    BY <1>9 DEF WriteReadyFails, GiveUp, Goto, Matching, IdsApart, Holds,
      Uninvited, NoLine, Paired
  <2>9. SenderOK'
    BY <1>9 DEF WriteReadyFails, GiveUp, Goto, Matching, SenderOK, Holds, Paired
  <2> QED
    BY <2>1, <2>2, <2>3, <2>4, <2>5, <2>6, <2>7, <2>8, <2>9 DEF Rest
<1>10. ASSUME NEW s \in Sessions, Register(s), UNCHANGED clientVars
      PROVE  Rest'
  BY <1>10, RegisterKeeps DEF Rest
<1>11. ASSUME NEW s \in Sessions, WriteConnect(s), UNCHANGED clientVars
      PROVE  Rest'
  <2>1. ConnOK'
    BY <1>11 DEF WriteConnect, Goto, Write, InFlight, Connect, Matching, ConnOK
  <2>2. ServingOK'
    BY <1>11 DEF WriteConnect, Goto, Write, InFlight, Connect, Matching,
      ServingOK, Bound
  <2>3. IdsOK'
    BY <1>11, SMTT(10) DEF WriteConnect, Goto, Write, InFlight, Connect,
      Matching, IdsOK, Early, Late, Paired, Ids, NoId, ServerTypeOK
  <2>4. NoTrace'
    BY <1>11, WireAssumption, SMTT(10) DEF WriteConnect, Goto, Write, InFlight,
      Connect, Matching, NoTrace, Ids, NoId, Uninvited, NoLine, ConnOK, IdsOK,
      Early, Late, Paired, Conns
  <2>5. NotYetInvited'
    BY <1>11, WriteConnectInvites
  <2>6. LinesOK'
    BY <1>11 DEF WriteConnect, Goto, Write, InFlight, Connect, Matching,
      LinesOK, NotYetInvited, ServingOK, Uninvited, NoLine, Bound
  <2>7. MailboxOK'
    BY <1>11 DEF WriteConnect, Goto, Write, InFlight, Connect, Matching,
      MailboxOK
  <2>8. TimesOK'
    BY <1>11, SMTT(10) DEF WriteConnect, Goto, Write, InFlight, Connect,
      Matching, TimesOK, Paired, HeldOK, IdsOK, Idle, Hold, Early, Late, Ids,
      NoId, TypeOK, ServerTypeOK
  <2>9. EndedLate'
    BY <1>11 DEF WriteConnect, Goto, Write, InFlight, Connect, Matching,
      EndedLate, Uninvited, NoLine, TypeOK, ServerTypeOK
  <2>10. IdsApart'
    BY <1>11, WriteConnectApart
  <2>11. SenderOK'
    BY <1>11 DEF WriteConnect, Goto, Write, InFlight, Connect, Matching,
      SenderOK, Holds, Paired
  <2> QED
    BY <2>1, <2>2, <2>3, <2>4, <2>5, <2>6, <2>7, <2>8, <2>9, <2>10, <2>11 DEF Rest
<1>12. ASSUME NEW s \in Sessions, WriteConnectFails(s), UNCHANGED clientVars
      PROVE  Rest'
  <2>1.
        ConnOK' /\ NoTrace' /\ NotYetInvited' /\ LinesOK' /\ MailboxOK' /\ EndedLate' /\ IdsApart'
    BY <1>12, WriteConnectFailsKeeps
  <2>2. ServingOK'
    BY <1>12 DEF WriteConnectFails, GiveUp, Goto, Closed, Matching, ServingOK,
      Bound, TypeOK, ServerTypeOK
  <2>3. IdsOK'
    BY <1>12, SMTT(10) DEF WriteConnectFails, GiveUp, Goto, Closed, Matching,
      IdsOK, Early, Late, Paired, Ids, NoId, TypeOK, ServerTypeOK
  <2>4. TimesOK'
    BY <1>12 DEF WriteConnectFails, GiveUp, Goto, Closed, Matching, TimesOK,
      Paired, TypeOK, ServerTypeOK
  <2>5. SenderOK'
    BY <1>12 DEF WriteConnectFails, GiveUp, Goto, Closed, Matching, SenderOK,
      Holds, Paired, TypeOK, ServerTypeOK
  <2> QED
    BY <2>1, <2>2, <2>3, <2>4, <2>5 DEF Rest
<1>13. ASSUME NEW s \in Sessions, EndAwait(s), UNCHANGED clientVars
      PROVE  Rest'
  <2>1. ConnOK'
    BY <1>13 DEF EndAwait, Goto, StopTimer, AwaitExpired, Matching, ConnOK
  <2>2. ServingOK'
    BY <1>13 DEF EndAwait, Goto, StopTimer, AwaitExpired, Matching, ServingOK,
      Bound
  <2>3. IdsOK'
    BY <1>13 DEF EndAwait, Goto, StopTimer, AwaitExpired, Matching, IdsOK,
      Early, Late, Paired, Ids, NoId
  <2>4. NoTrace' /\ LinesOK' /\ MailboxOK'
    BY <1>13 DEF EndAwait, Goto, StopTimer, AwaitExpired, Matching, NoTrace,
      LinesOK, MailboxOK, Ids, NoId, Uninvited, NoLine
  <2>5. NotYetInvited'
    BY <1>13 DEF EndAwait, Goto, StopTimer, AwaitExpired, Matching,
      NotYetInvited, Uninvited, NoLine
  <2>6. TimesOK'
    BY <1>13 DEF EndAwait, Goto, StopTimer, AwaitExpired, Matching, TimesOK,
      Paired, TypeOK, ServerTypeOK
  <2>7. EndedLate'
    BY <1>13, EndAwaitLate
  <2>8. IdsApart'
    BY <1>13 DEF EndAwait, Goto, StopTimer, AwaitExpired, Matching, IdsApart,
      Holds, Uninvited, NoLine, Paired
  <2>9. SenderOK'
    BY <1>13 DEF EndAwait, Goto, StopTimer, AwaitExpired, Matching, SenderOK,
      Holds, Paired
  <2> QED
    BY <2>1, <2>2, <2>3, <2>4, <2>5, <2>6, <2>7, <2>8, <2>9 DEF Rest
<1>14. ASSUME NEW s \in Sessions, Cleanup(s), UNCHANGED clientVars
      PROVE  Rest'
  <2>1. ConnOK'
    BY <1>14 DEF Cleanup, Goto, Entries, RemoveEntries, SendersWithout,
      OlderWithout, ActivityWithout, Matching, ConnOK
  <2>2. ServingOK'
    BY <1>14 DEF Cleanup, Goto, Entries, RemoveEntries, SendersWithout,
      OlderWithout, ActivityWithout, Matching, ServingOK, Bound, TypeOK,
      ServerTypeOK
  <2>3. IdsOK'
    BY <1>14, SMTT(10) DEF Cleanup, Goto, Entries, RemoveEntries,
      SendersWithout, OlderWithout, ActivityWithout, Matching, IdsOK, Early,
      Late, Paired, Ids, NoId, TypeOK, ServerTypeOK
  <2>4. NoTrace'
    BY <1>14, SMTT(10) DEF Cleanup, Goto, Entries, RemoveEntries,
      SendersWithout, OlderWithout, ActivityWithout, Matching, NoTrace, Ids,
      NoId, Uninvited, NoLine
  <2>5. NotYetInvited'
    BY <1>14, SMTT(10) DEF Cleanup, Goto, Entries, RemoveEntries,
      SendersWithout, OlderWithout, ActivityWithout, Matching, NotYetInvited,
      Uninvited, NoLine, ServingOK, LinesOK, Bound
  <2>6. LinesOK' /\ MailboxOK'
    BY <1>14 DEF Cleanup, Goto, Entries, RemoveEntries, SendersWithout,
      OlderWithout, ActivityWithout, Matching, LinesOK, MailboxOK
  <2>7. TimesOK'
    BY <1>14, CleanupTimes
  <2>8. EndedLate'
    BY <1>14 DEF Cleanup, Goto, Entries, RemoveEntries, SendersWithout,
      OlderWithout, ActivityWithout, Matching, EndedLate, Uninvited, NoLine
  <2>9. IdsApart'
    BY <1>14, SMTT(10) DEF Cleanup, Goto, Entries, RemoveEntries,
      SendersWithout, OlderWithout, ActivityWithout, Matching, IdsApart, Holds,
      Uninvited, NoLine, Paired
  <2>10. SenderOK'
    BY <1>14 DEF Cleanup, Goto, Entries, RemoveEntries, SendersWithout,
      OlderWithout, ActivityWithout, Matching, SenderOK, Holds, Paired
  <2> QED
    BY <2>1, <2>2, <2>3, <2>4, <2>5, <2>6, <2>7, <2>8, <2>9, <2>10 DEF Rest
<1> QED
  BY <1>1, <1>2, <1>3, <1>4, <1>5, <1>6, <1>7, <1>8, <1>9, <1>10, <1>11, <1>12,
     <1>13, <1>14 DEF Handler, HandlerStepOf

-----------------------------------------------------------------------------
\* What the users and stray connections do, and time, keep the invariant.
LEMMA OutsideMatching ==
  ASSUME TypeOK, Matching,
         ((OutsideStep /\ UNCHANGED clientVars) \/ Tick \/ UNCHANGED vars)
  PROVE  Rest'
<1>1. ASSUME NEW s \in Sessions, NEW p0 \in Publics, Arrives(p0, s), UNCHANGED clientVars
      PROVE  Rest'
  <2>1. ConnOK' /\ NoTrace' /\ NotYetInvited' /\ MailboxOK'
    BY <1>1 DEF Arrives, Bound, Matching, ConnOK, NoTrace, NotYetInvited,
      MailboxOK, Ids, NoId, Uninvited, NoLine
  <2>2. ServingOK'
    BY <1>1 DEF Arrives, Bound, Matching, ServingOK
  <2>3. IdsOK'
    BY <1>1 DEF Arrives, Bound, Matching, IdsOK, Early, Late, Paired, Ids, NoId,
      ServerTypeOK
  <2>4. LinesOK'
    BY <1>1, ArrivesLines
  <2>5. TimesOK' /\ EndedLate' /\ IdsApart' /\ SenderOK'
    BY <1>1 DEF Arrives, Bound, Matching, TimesOK, EndedLate, IdsApart,
      SenderOK, Paired, Uninvited, NoLine, Holds
  <2> QED
    BY <2>1, <2>2, <2>3, <2>4, <2>5 DEF Rest
<1>2. ASSUME NEW p0 \in Publics, Speaks(p0), UNCHANGED clientVars PROVE Rest'
  BY <1>2, FrameKeeps DEF Speaks
<1>3. ASSUME NEW p0 \in Publics, Leaves(p0), UNCHANGED clientVars PROVE Rest'
  BY <1>3, FrameKeeps DEF Leaves
<1>4. ASSUME NEW c \in Probes, ProbeConnects(c), UNCHANGED clientVars
      PROVE  Rest'
  <2>1. ConnOK'
    BY <1>4, WireAssumption DEF ProbeConnects, Matching, ConnOK, Conns
  <2>2. ServingOK' /\ IdsOK' /\ TimesOK' /\ SenderOK'
    BY <1>4, SMTT(10) DEF ProbeConnects, Matching, ServingOK, IdsOK, TimesOK,
      SenderOK, Bound, Early, Late, Paired, Ids, NoId, Holds
  <2>3. NoTrace'
    BY <1>4, WireAssumption DEF ProbeConnects, Matching, NoTrace, Ids, NoId,
      Uninvited, NoLine, Conns
  <2>4. NotYetInvited'
    BY <1>4, WireAssumption DEF ProbeConnects, Matching, NotYetInvited,
      Uninvited, NoLine, TypeOK, ServerTypeOK, Conns
  <2>5. LinesOK'
    BY <1>4, WireAssumption DEF ProbeConnects, Matching, LinesOK, TypeOK,
      WireTypeOK, ClientTypeOK, ConnPhase, Conns, HandlerStep, Line
  <2>6. MailboxOK'
    BY <1>4 DEF ProbeConnects, Matching, MailboxOK
  <2>7. EndedLate'
    BY <1>4, WireAssumption DEF ProbeConnects, Matching, EndedLate, Uninvited,
      NoLine, Conns
  <2>8. IdsApart'
    BY <1>4, WireAssumption DEF ProbeConnects, Matching, IdsApart, Holds,
      Uninvited, NoLine, Paired, Conns
  <2> QED
    BY <2>1, <2>2, <2>3, <2>4, <2>5, <2>6, <2>7, <2>8 DEF Rest
<1>5. ASSUME NEW c \in Probes, ProbeSpeaks(c), UNCHANGED clientVars
      PROVE  Rest'
  BY <1>5, FrameKeeps DEF ProbeSpeaks
<1>6. ASSUME NEW c \in Probes, ProbeHangsUp(c), UNCHANGED clientVars
      PROVE  Rest'
  BY <1>6, FrameKeeps DEF ProbeHangsUp
<1>7. ASSUME Tick PROVE Rest'
  <2>1. ConnOK' /\ ServingOK' /\ NoTrace' /\ NotYetInvited'
    BY <1>7 DEF Tick, Matching, ConnOK, ServingOK, NoTrace, NotYetInvited,
      Bound, Ids, NoId, Uninvited, NoLine
  <2>2. IdsOK' /\ TimesOK' /\ EndedLate'
    BY <1>7, TickTimes
  <2>3. LinesOK' /\ MailboxOK' /\ IdsApart' /\ SenderOK'
    BY <1>7 DEF Tick, Matching, LinesOK, MailboxOK, IdsApart, SenderOK, Holds,
      Uninvited, NoLine, Paired
  <2> QED
    BY <2>1, <2>2, <2>3 DEF Rest
<1>8. ASSUME UNCHANGED vars PROVE Rest'
  BY <1>8, FrameKeeps
<1> QED
  BY <1>1, <1>2, <1>3, <1>4, <1>5, <1>6, <1>7, <1>8 DEF OutsideStep

-----------------------------------------------------------------------------
\* Every step of connect_and_serve and its tasks keeps the invariant.
LEMMA ClientMatching ==
  ASSUME TypeOK, Matching,
         (\E s \in Sessions : (ClientStep(s) \/ TaskStep(s) \/ ClientFault(s)) /\ UNCHANGED serverVars)
  PROVE  Rest'
<1>1. ASSUME NEW s \in Sessions, Start(s), UNCHANGED serverVars PROVE Rest'
  <2>1. ConnOK'
    BY <1>1 DEF Start, Move, Matching, ConnOK, TypeOK, ClientTypeOK
  <2>2. ServingOK' /\ IdsOK' /\ TimesOK' /\ SenderOK'
    BY <1>1, SMTT(10) DEF Start, Move, Matching, ServingOK, IdsOK, TimesOK,
      SenderOK, Bound, Early, Late, Paired, Ids, NoId, Holds
  <2>3. NoTrace'
    BY <1>1, WireAssumption DEF Start, Move, Matching, NoTrace, Ids, NoId,
      Uninvited, NoLine, Conns
  <2>4. NotYetInvited'
    BY <1>1, WireAssumption DEF Start, Move, Matching, NotYetInvited, Uninvited,
      NoLine, TypeOK, ServerTypeOK, Conns
  <2>5. LinesOK'
    BY <1>1, WireAssumption DEF Start, Move, Matching, LinesOK, TypeOK,
      WireTypeOK, ClientTypeOK, ConnPhase, Conns, HandlerStep, Line
  <2>6. MailboxOK'
    BY <1>1, WireAssumption DEF Start, Move, Matching, MailboxOK, Conns
  <2>7. EndedLate'
    BY <1>1, WireAssumption DEF Start, Move, Matching, EndedLate, Uninvited,
      NoLine, Conns
  <2>8. IdsApart'
    BY <1>1, WireAssumption DEF Start, Move, Matching, IdsApart, Holds,
      Uninvited, NoLine, Paired, Conns
  <2> QED
    BY <2>1, <2>2, <2>3, <2>4, <2>5, <2>6, <2>7, <2>8 DEF Rest
<1>2. ASSUME NEW s \in Sessions, WriteRegister(s), UNCHANGED serverVars
      PROVE  Rest'
  <2>1. ConnOK'
    BY <1>2 DEF WriteRegister, Move, Matching, ConnOK
  <2>2. ServingOK'
    BY <1>2 DEF WriteRegister, Move, Matching, ServingOK, Bound
  <2>3. IdsOK'
    BY <1>2 DEF WriteRegister, Move, Matching, IdsOK, Early, Late, Paired, Ids,
      NoId
  <2>4. NoTrace'
    BY <1>2 DEF WriteRegister, Move, Matching, NoTrace, Ids, NoId, Uninvited,
      NoLine
  <2>5. NotYetInvited'
    BY <1>2 DEF WriteRegister, Move, Matching, NotYetInvited, Uninvited, NoLine
  <2>6. LinesOK'
    BY <1>2 DEF WriteRegister, Move, Matching, LinesOK
  <2>7. MailboxOK'
    BY <1>2 DEF WriteRegister, Move, Matching, MailboxOK
  <2>8. TimesOK'
    BY <1>2 DEF WriteRegister, Move, Matching, TimesOK, Paired
  <2>9. EndedLate'
    BY <1>2 DEF WriteRegister, Move, Matching, EndedLate, Uninvited, NoLine
  <2>10. IdsApart'
    BY <1>2 DEF WriteRegister, Move, Matching, IdsApart, Holds, Uninvited,
      NoLine, Paired
  <2>11. SenderOK'
    BY <1>2 DEF WriteRegister, Move, Matching, SenderOK, Holds, Paired
  <2> QED
    BY <2>1, <2>2, <2>3, <2>4, <2>5, <2>6, <2>7, <2>8, <2>9, <2>10, <2>11 DEF Rest
<1>3. ASSUME NEW s \in Sessions, ReadReady(s), UNCHANGED serverVars
      PROVE  Rest'
  <2>1. ConnOK'
    BY <1>3 DEF ReadReady, Move, Reads, Matching, ConnOK
  <2>2. ServingOK' /\ IdsOK'
    BY <1>3 DEF ReadReady, Move, Reads, Matching, ServingOK, IdsOK, Bound,
      Early, Late, Paired, Ids, NoId
  <2>3. NoTrace'
    BY <1>3, SMTT(10) DEF ReadReady, Move, Reads, Matching, NoTrace, Ids, NoId,
      Uninvited, NoLine, IdsOK, Early, Late, Paired, TypeOK, WireTypeOK
  <2>4. NotYetInvited'
    BY <1>3, SMTT(10) DEF ReadReady, Move, Reads, Matching, NotYetInvited,
      Uninvited, NoLine, NoTrace, ServingOK, LinesOK, IdsOK, Early, Late,
      Paired, Ids, NoId, Bound, TypeOK, WireTypeOK, ConnPhase, HandlerStep, Line
  <2>5. LinesOK'
    BY <1>3, WireAssumption DEF ReadReady, Move, Reads, Matching, LinesOK,
      ServingOK, Bound, TypeOK, WireTypeOK, Conns, Ids, NoId
  <2>6. MailboxOK' /\ TimesOK'
    BY <1>3 DEF ReadReady, Move, Reads, Matching, MailboxOK, TimesOK, Paired
  <2>7. EndedLate'
    BY <1>3 DEF ReadReady, Move, Reads, Matching, EndedLate, Uninvited, NoLine,
      TypeOK, WireTypeOK
  <2>8. IdsApart'
    BY <1>3, SMTT(10) DEF ReadReady, Move, Reads, Matching, IdsApart, Holds,
      Uninvited, NoLine, Paired, HeldOK, ConnOK, ServingOK, Idle, Hold, Early,
      Late, Bound, TypeOK, WireTypeOK
  <2>9. SenderOK'
    BY <1>3 DEF ReadReady, Move, Reads, Matching, SenderOK, Holds, Paired
  <2> QED
    BY <2>1, <2>2, <2>3, <2>4, <2>5, <2>6, <2>7, <2>8, <2>9 DEF Rest
<1>4. ASSUME NEW s \in Sessions, ReadOther(s), UNCHANGED serverVars
      PROVE  Rest'
  <2>1. ConnOK'
    BY <1>4 DEF ReadOther, Move, Reads, Matching, ConnOK
  <2>2. ServingOK' /\ IdsOK' /\ MailboxOK' /\ TimesOK'
    BY <1>4, SMTT(10) DEF ReadOther, Move, Reads, Matching, ServingOK, IdsOK,
      MailboxOK, TimesOK, Bound, Early, Late, Paired, Ids, NoId
  <2>3. NoTrace' /\ NotYetInvited' /\ LinesOK' /\ EndedLate' /\ IdsApart'
    BY <1>4, ReadOtherKeeps
  <2>4. SenderOK'
    BY <1>4 DEF ReadOther, Move, Reads, Matching, SenderOK, Holds, Paired
  <2> QED
    BY <2>1, <2>2, <2>3, <2>4 DEF Rest
<1>5. ASSUME NEW s \in Sessions, ReadConnect(s), UNCHANGED serverVars
      PROVE  Rest'
  <2>1. ConnOK'
    BY <1>5 DEF ReadConnect, Move, Reads, Matching, ConnOK
  <2>2. ServingOK'
    BY <1>5 DEF ReadConnect, Move, Reads, Matching, ServingOK, Bound
  <2>3. IdsOK'
    BY <1>5 DEF ReadConnect, Move, Reads, Matching, IdsOK, Early, Late, Paired,
      Ids, NoId
  <2>4. NoTrace'
    BY <1>5 DEF ReadConnect, Move, Reads, Matching, NoTrace, Ids, NoId,
      Uninvited, NoLine, TypeOK, WireTypeOK
  <2>5. NotYetInvited'
    BY <1>5, SMTT(10) DEF ReadConnect, Move, Reads, Matching, NotYetInvited,
      Uninvited, NoLine, HeldOK, NoTrace, Idle, Hold, Early, Late, Paired, Ids,
      NoId, TypeOK, WireTypeOK
  <2>6. LinesOK'
    BY <1>5, ReadConnectLines
  <2>7. MailboxOK'
    BY <1>5 DEF ReadConnect, Move, Reads, Matching, MailboxOK
  <2>8. TimesOK'
    BY <1>5 DEF ReadConnect, Move, Reads, Matching, TimesOK, Paired
  <2>9. EndedLate'
    BY <1>5 DEF ReadConnect, Move, Reads, Matching, EndedLate, Uninvited,
      NoLine, TypeOK, WireTypeOK
  <2>10. IdsApart'
    BY <1>5, SMTT(10) DEF ReadConnect, Move, Reads, Matching, IdsApart, Holds,
      Uninvited, NoLine, Paired, HeldOK, ConnOK, NotYetInvited, Idle, Hold,
      Early, Late, TypeOK, WireTypeOK, ConnPhase, HandlerStep, Line
  <2>11. SenderOK'
    BY <1>5 DEF ReadConnect, Move, Reads, Matching, SenderOK, Holds, Paired
  <2> QED
    BY <2>1, <2>2, <2>3, <2>4, <2>5, <2>6, <2>7, <2>8, <2>9, <2>10, <2>11 DEF Rest
<1>6. ASSUME NEW s \in Sessions, ConnectTimeout(s), UNCHANGED serverVars
      PROVE  Rest'
  <2>1. ConnOK'
    BY <1>6 DEF ConnectTimeout, Move, Matching, ConnOK
  <2>2. ServingOK' /\ IdsOK'
    BY <1>6 DEF ConnectTimeout, Move, Matching, ServingOK, IdsOK, Bound, Early,
      Late, Paired, Ids, NoId
  <2>3. NoTrace' /\ NotYetInvited'
    BY <1>6 DEF ConnectTimeout, Move, Matching, NoTrace, NotYetInvited, Ids,
      NoId, Uninvited, NoLine
  <2>4. LinesOK'
    BY <1>6 DEF ConnectTimeout, Move, Matching, LinesOK
  <2>5. MailboxOK' /\ TimesOK'
    BY <1>6 DEF ConnectTimeout, Move, Matching, MailboxOK, TimesOK, Paired
  <2>6. EndedLate' /\ IdsApart'
    BY <1>6 DEF ConnectTimeout, Move, Matching, EndedLate, IdsApart, Uninvited,
      NoLine, Holds, Paired
  <2>7. SenderOK'
    BY <1>6 DEF ConnectTimeout, Move, Matching, SenderOK, Holds, Paired
  <2> QED
    BY <2>1, <2>2, <2>3, <2>4, <2>5, <2>6, <2>7 DEF Rest
<1>7. ASSUME NEW s \in Sessions, Dial(s), UNCHANGED serverVars PROVE Rest'
  <2>1. ConnOK'
    BY <1>7, WireAssumption DEF Dial, Move, Matching, ConnOK, LinesOK, TypeOK,
      ClientTypeOK, Conns
  <2>2. ServingOK' /\ IdsOK' /\ TimesOK' /\ SenderOK'
    BY <1>7, SMTT(10) DEF Dial, Move, Matching, ServingOK, IdsOK, TimesOK,
      SenderOK, Bound, Early, Late, Paired, Ids, NoId, Holds
  <2>3. NoTrace'
    BY <1>7 DEF Dial, Move, Matching, NoTrace, Ids, NoId, Uninvited, NoLine
  <2>4. NotYetInvited'
    BY <1>7 DEF Dial, Move, Matching, NotYetInvited, Uninvited, NoLine
  <2>5. LinesOK'
    BY <1>7, WireAssumption DEF Dial, Move, Matching, LinesOK, TypeOK,
      WireTypeOK, ClientTypeOK, Conns
  <2>6. MailboxOK'
    BY <1>7 DEF Dial, Move, Matching, MailboxOK, LinesOK
  <2>7. EndedLate'
    BY <1>7 DEF Dial, Move, Matching, EndedLate, Uninvited, NoLine
  <2>8. IdsApart'
    BY <1>7 DEF Dial, Move, Matching, IdsApart, Holds, Uninvited, NoLine, Paired
  <2> QED
    BY <2>1, <2>2, <2>3, <2>4, <2>5, <2>6, <2>7, <2>8 DEF Rest
<1>8. ASSUME NEW s \in Sessions, WriteCallback(s), UNCHANGED serverVars
      PROVE  Rest'
  <2>1. ConnOK'
    BY <1>8 DEF WriteCallback, Move, Matching, ConnOK
  <2>2. ServingOK' /\ IdsOK' /\ MailboxOK' /\ TimesOK'
    BY <1>8, SMTT(10) DEF WriteCallback, Move, Matching, ServingOK, IdsOK,
      MailboxOK, TimesOK, Bound, Early, Late, Paired, Ids, NoId
  <2>3. NoTrace'
    BY <1>8, WireAssumption DEF WriteCallback, Move, Matching, NoTrace, Ids,
      NoId, Uninvited, NoLine, Conns
  <2>4. NotYetInvited'
    BY <1>8 DEF WriteCallback, Move, Matching, NotYetInvited, Uninvited, NoLine,
      HeldOK, Idle, Hold, Early, Late, Paired
  <2>5. LinesOK'
    BY <1>8 DEF WriteCallback, Move, Matching, LinesOK
  <2>6. EndedLate'
    BY <1>8, WireAssumption DEF WriteCallback, Move, Matching, EndedLate,
      Uninvited, NoLine, Conns
  <2>7. IdsApart'
    BY <1>8, WireAssumption DEF WriteCallback, Move, Matching, IdsApart, Holds,
      Uninvited, NoLine, Paired, Conns
  <2>8. SenderOK'
    BY <1>8 DEF WriteCallback, Move, Matching, SenderOK, Holds, Paired
  <2> QED
    BY <2>1, <2>2, <2>3, <2>4, <2>5, <2>6, <2>7, <2>8 DEF Rest
<1>9. ASSUME NEW s \in Sessions, Eof(s), UNCHANGED serverVars PROVE Rest'
  <2>1. ConnOK'
    BY <1>9 DEF Eof, Move, Down, Matching, ConnOK
  <2>2. ServingOK' /\ IdsOK' /\ NoTrace' /\ NotYetInvited'
    BY <1>9, SMTT(10) DEF Eof, Move, Down, Matching, ServingOK, IdsOK, NoTrace,
      NotYetInvited, Bound, Early, Late, Paired, Ids, NoId, Uninvited, NoLine
  <2>3. LinesOK'
    BY <1>9 DEF Eof, Move, Down, Matching, LinesOK, ConnOK
  <2>4. MailboxOK' /\ TimesOK' /\ EndedLate' /\ IdsApart'
    BY <1>9 DEF Eof, Move, Down, Matching, MailboxOK, TimesOK, EndedLate,
      IdsApart, Paired, Uninvited, NoLine, Holds
  <2>5. SenderOK'
    BY <1>9 DEF Eof, Move, Down, Matching, SenderOK, Holds, Paired
  <2> QED
    BY <2>1, <2>2, <2>3, <2>4, <2>5 DEF Rest
<1>10. ASSUME NEW s \in Sessions, SweepActive(s), UNCHANGED serverVars
      PROVE  Rest'
  BY <1>10, FrameKeeps DEF SweepActive
<1>11. ASSUME NEW s \in Sessions, NEW p0 \in Publics, TaskEnds(s, p0), UNCHANGED serverVars
      PROVE  Rest'
  BY <1>11, FrameKeeps DEF TaskEnds
<1>12. ASSUME NEW s \in Sessions, DialFails(s), UNCHANGED serverVars
      PROVE  Rest'
  <2>1. ConnOK'
    BY <1>12 DEF DialFails, Move, Matching, ConnOK
  <2>2. ServingOK' /\ IdsOK'
    BY <1>12 DEF DialFails, Move, Matching, ServingOK, IdsOK, Bound, Early,
      Late, Paired, Ids, NoId
  <2>3. NoTrace'
    BY <1>12, WireAssumption DEF DialFails, Move, Matching, NoTrace, Ids, NoId,
      Uninvited, NoLine, Conns
  <2>4. NotYetInvited'
    BY <1>12 DEF DialFails, Move, Matching, NotYetInvited, Uninvited, NoLine,
      HeldOK, Idle, Hold, Early, Late, Paired
  <2>5. LinesOK'
    BY <1>12 DEF DialFails, Move, Matching, LinesOK, TypeOK, ClientTypeOK
  <2>6. MailboxOK' /\ TimesOK'
    BY <1>12 DEF DialFails, Move, Matching, MailboxOK, TimesOK, Paired
  <2>7. EndedLate'
    BY <1>12, WireAssumption DEF DialFails, Move, Matching, EndedLate,
      Uninvited, NoLine, Conns
  <2>8. IdsApart'
    BY <1>12, WireAssumption DEF DialFails, Move, Matching, IdsApart, Holds,
      Uninvited, NoLine, Paired, Conns
  <2>9. SenderOK'
    BY <1>12 DEF DialFails, Move, Matching, SenderOK, Holds, Paired
  <2> QED
    BY <2>1, <2>2, <2>3, <2>4, <2>5, <2>6, <2>7, <2>8, <2>9 DEF Rest
<1>13. ASSUME NEW s \in Sessions, WriteCallbackFails(s), UNCHANGED serverVars
      PROVE  Rest'
  <2>1. ConnOK'
    BY <1>13 DEF WriteCallbackFails, Move, Matching, ConnOK
  <2>2. ServingOK' /\ IdsOK'
    BY <1>13 DEF WriteCallbackFails, Move, Matching, ServingOK, IdsOK, Bound,
      Early, Late, Paired, Ids, NoId
  <2>9. MailboxOK' /\ TimesOK'
    BY <1>13 DEF WriteCallbackFails, Move, Matching, MailboxOK, TimesOK, Paired
  <2>3. NoTrace'
    BY <1>13, WireAssumption DEF WriteCallbackFails, Move, Matching, NoTrace,
      Ids, NoId, Uninvited, NoLine, Conns
  <2>4. NotYetInvited'
    BY <1>13 DEF WriteCallbackFails, Move, Matching, NotYetInvited, Uninvited,
      NoLine, HeldOK, Idle, Hold, Early, Late, Paired
  <2>5. LinesOK'
    BY <1>13 DEF WriteCallbackFails, Move, Matching, LinesOK
  <2>6. EndedLate'
    BY <1>13, WireAssumption DEF WriteCallbackFails, Move, Matching, EndedLate,
      Uninvited, NoLine, Conns
  <2>7. IdsApart'
    BY <1>13, WireAssumption DEF WriteCallbackFails, Move, Matching, IdsApart,
      Holds, Uninvited, NoLine, Paired, Conns
  <2>8. SenderOK'
    BY <1>13 DEF WriteCallbackFails, Move, Matching, SenderOK, Holds, Paired
  <2> QED
    BY <2>1, <2>2, <2>3, <2>4, <2>5, <2>6, <2>7, <2>8, <2>9 DEF Rest
<1>14. ASSUME NEW s \in Sessions, CutLine(s), UNCHANGED serverVars
      PROVE  Rest'
  <2>1. ConnOK'
    BY <1>14 DEF CutLine, Move, Junk, Matching, ConnOK
  <2>2. ServingOK' /\ IdsOK'
    BY <1>14 DEF CutLine, Move, Junk, Matching, ServingOK, IdsOK, Bound, Early,
      Late, Paired, Ids, NoId
  <2>3. NoTrace'
    BY <1>14, WireAssumption, SMTT(10) DEF CutLine, Move, Junk, Matching,
      NoTrace, Ids, NoId, Uninvited, NoLine, IdsOK, Early, Late, Paired, Conns
  <2>4. NotYetInvited'
    BY <1>14, SMTT(10) DEF CutLine, Move, Junk, Matching, NotYetInvited,
      Uninvited, NoLine, HeldOK, ServingOK, LinesOK, Idle, Hold, Early, Late,
      Paired, Bound
  <2>5. LinesOK'
    BY <1>14, SMTT(10) DEF CutLine, Move, Junk, Matching, LinesOK, HeldOK, Idle,
      Hold, Early, Late, Paired, ConnPhase, HandlerStep, Line
  <2>6. MailboxOK' /\ TimesOK'
    BY <1>14 DEF CutLine, Move, Junk, Matching, MailboxOK, TimesOK, Paired
  <2>7. EndedLate'
    BY <1>14, WireAssumption DEF CutLine, Move, Junk, Matching, EndedLate,
      Uninvited, NoLine, Conns
  <2>8. IdsApart'
    BY <1>14, WireAssumption, SMTT(10) DEF CutLine, Move, Junk, Matching,
      IdsApart, Holds, Uninvited, NoLine, Paired, HeldOK, ConnOK, ServingOK,
      Idle, Hold, Early, Late, Bound, ConnPhase, Conns, HandlerStep, Line
  <2>9. SenderOK'
    BY <1>14 DEF CutLine, Move, Junk, Matching, SenderOK, Holds, Paired
  <2> QED
    BY <2>1, <2>2, <2>3, <2>4, <2>5, <2>6, <2>7, <2>8, <2>9 DEF Rest
<1>15. ASSUME NEW s \in Sessions, ReadFails(s), UNCHANGED serverVars
      PROVE  Rest'
  <2>1. ConnOK'
    BY <1>15 DEF ReadFails, Move, Down, Matching, ConnOK
  <2>2. ServingOK' /\ IdsOK'
    BY <1>15 DEF ReadFails, Move, Down, Matching, ServingOK, IdsOK, Bound,
      Early, Late, Paired, Ids, NoId
  <2>3. NoTrace' /\ NotYetInvited'
    BY <1>15 DEF ReadFails, Move, Down, Matching, NoTrace, NotYetInvited, Ids,
      NoId, Uninvited, NoLine
  <2>4. LinesOK'
    BY <1>15 DEF ReadFails, Move, Down, Matching, LinesOK
  <2>5. MailboxOK' /\ TimesOK'
    BY <1>15 DEF ReadFails, Move, Down, Matching, MailboxOK, TimesOK, Paired
  <2>6. EndedLate' /\ IdsApart'
    BY <1>15 DEF ReadFails, Move, Down, Matching, EndedLate, IdsApart,
      Uninvited, NoLine, Holds, Paired
  <2>7. SenderOK'
    BY <1>15 DEF ReadFails, Move, Down, Matching, SenderOK, Holds, Paired
  <2> QED
    BY <2>1, <2>2, <2>3, <2>4, <2>5, <2>6, <2>7 DEF Rest
<1>16. ASSUME NEW s \in Sessions, Crash(s), UNCHANGED serverVars PROVE Rest'
  <2>1. ConnOK'
    BY <1>16 DEF Crash, Move, Matching, ConnOK
  <2>2. ServingOK' /\ IdsOK' /\ MailboxOK' /\ TimesOK'
    BY <1>16, SMTT(10) DEF Crash, Move, Matching, ServingOK, IdsOK, MailboxOK,
      TimesOK, Bound, Early, Late, Paired, Ids, NoId
  <2>3. NoTrace'
    BY <1>16, WireAssumption DEF Crash, Move, Matching, NoTrace, Ids, NoId,
      Uninvited, NoLine, Conns
  <2>4. NotYetInvited'
    BY <1>16 DEF Crash, Move, Matching, NotYetInvited, Uninvited, NoLine,
      HeldOK, Idle, Hold, Early, Late, Paired
  <2>5. LinesOK'
    BY <1>16 DEF Crash, Move, Matching, LinesOK, TypeOK, ClientTypeOK
  <2>6. EndedLate'
    BY <1>16, WireAssumption DEF Crash, Move, Matching, EndedLate, Uninvited,
      NoLine, Conns
  <2>7. IdsApart'
    BY <1>16, WireAssumption DEF Crash, Move, Matching, IdsApart, Holds,
      Uninvited, NoLine, Paired, Conns
  <2>8. SenderOK'
    BY <1>16 DEF Crash, Move, Matching, SenderOK, Holds, Paired
  <2> QED
    BY <2>1, <2>2, <2>3, <2>4, <2>5, <2>6, <2>7, <2>8 DEF Rest
<1> QED
  BY <1>1, <1>2, <1>3, <1>4, <1>5, <1>6, <1>7, <1>8, <1>9, <1>10, <1>11, <1>12,
     <1>13, <1>14, <1>15, <1>16 DEF ClientStep, TaskStep, ClientFault

-----------------------------------------------------------------------------
\* Nothing is made, written or held to begin with.
LEMMA MatchingInit == Init => Matching
<1> SUFFICES ASSUME Init PROVE Matching
  OBVIOUS
<1> USE DEF Init, WireInit, ServerInit, ClientInit
<1>1. HeldOK
  BY TypeInit
<1>2. ConnOK /\ ServingOK
  BY DEF ConnOK, ServingOK, Bound, Idle, Hold, Conns
<1>3. IdsOK
  BY DEF IdsOK, NoId, Early, Late, Paired
<1>4. NoTrace /\ NotYetInvited
  BY WireAssumption DEF NoTrace, NotYetInvited, Uninvited, NoLine, Idle, Hold, Conns
<1>5. LinesOK /\ MailboxOK /\ TimesOK /\ SenderOK
  BY DEF LinesOK, MailboxOK, TimesOK, SenderOK, Idle, Hold, Paired
<1>6. EndedLate /\ IdsApart
  BY WireAssumption DEF EndedLate, IdsApart, Uninvited, NoLine, Holds, Paired, Conns
<1> QED
  BY <1>1, <1>2, <1>3, <1>4, <1>5, <1>6 DEF Matching

\* Every step keeps the invariant.
LEMMA MatchingNext ==
  ASSUME WholeLines, ConnectionTimeout > 0
  PROVE  TypeOK /\ Matching /\ [Next]_vars => Matching'
<1> SUFFICES ASSUME TypeOK, Matching, [Next]_vars PROVE Matching'
  OBVIOUS
<1>1. HeldOK'
  <2>1. HeldOK
    BY DEF Matching
  <2> QED
    BY <2>1, TypeNext
<1>2. Rest'
  <2>1. CASE SystemStep
    BY <2>1, AcceptorMatching, HandlerMatching, ClientMatching DEF SystemStep, Control
  <2>2. CASE OtherStep
    BY <2>2, AcceptorMatching, OutsideMatching, ClientMatching DEF OtherStep
  <2>3. CASE Tick \/ Finished \/ UNCHANGED vars
    BY <2>3, OutsideMatching DEF Finished
  <2> QED
    BY <2>1, <2>2, <2>3 DEF Next
<1> QED
  BY <1>1, <1>2 DEF Matching, Rest

\* Where every stream, line, sender and id of a handshake can be, and that one
\* which ended without its callback ended in a later tick than its id.
THEOREM MatchingHolds ==
  ASSUME WholeLines, ConnectionTimeout > 0
  PROVE  Spec => []Matching
<1>1. Init => TypeOK /\ Matching
  BY TypeInit, MatchingInit
<1>2. TypeOK /\ Matching /\ [Next]_vars => TypeOK' /\ Matching'
  <2>1. Matching => HeldOK
    BY DEF Matching
  <2> QED
    BY <2>1, TypeNext, MatchingNext
<1> QED
  BY <1>1, <1>2, PTL DEF Spec

\* What reaches the handler that waits for the callback of p is the callback
\* the client made for p: handle_public_connection never joins a user to
\* another user's stream.
THEOREM Matched ==
  ASSUME WholeLines, ConnectionTimeout > 0
  PROVE  Spec => []MatchedToOwn
<1>1. Matching => MatchedToOwn
  BY DEF Matching, MailboxOK, MatchedToOwn
<1> QED
  BY <1>1, MatchingHolds, PTL
=============================================================================
