---------------------------- MODULE TunnelProofs ----------------------------
(***************************************************************************)
(* What else the handshake promises, for every instance: an entry of the   *)
(* registry has a handler at work on it, a callback that was sent is used, *)
(* a handler that waits in time keeps its sender and its callback finds    *)
(* one, the client's reads keep in step with the server's writes, and its  *)
(* set of active sessions keeps to its limit.  They lean on Matching,      *)
(* which says where the streams, lines and ids are.                        *)
(***************************************************************************)
EXTENDS MatchingProofs, FiniteSetTheorems

USE DEF vars, wireVars, serverVars, clientVars, acceptVars, registryVars,
        handlerVars, publicVars

\* Neither the eviction at a registration nor the periodic cleanup takes an entry
\* that is younger than --connection-timeout.
RegistryPatient == ConnectionTimeout <= StaleAfter + 1 /\ ConnectionTimeout <= Retention

-----------------------------------------------------------------------------
(* Entries, mailboxes and senders.                                         *)

Working(p) == \E s \in Sessions : cur[s] = p /\ handler[s] \in Late

EntryKept == \A p \in clients : Working(p) \/ home[p] \in broken
DeliveredKept ==
  \A p \in Publics : mailbox[p] # None =>
    public[p] = "proxied" \/ Working(p) \/ conn[mailbox[p]] = "closed"

\* From the registration on, not only in the wait.
Reachable(p) == \/ p \in clients /\ tx[p] = "held"
                \/ acceptor.at = "send" /\ acceptor.sender = p
                \/ mailbox[p] # None
SenderKept ==
  RegistryPatient =>
    \A s \in Sessions : handler[s] \in Paired /\ InTime(cur[s]) => Reachable(cur[s])

Kept == EntryKept /\ DeliveredKept /\ SenderKept

\* A step that leaves the registry, the channels and the ids alone, and moves a
\* handler only forward within its handshake, or outside one.
Quiet ==
  /\ UNCHANGED <<clients, older, tx, mailbox, handshakeId>>
  /\ acceptor.at = "send" => acceptor' = acceptor
  /\ now <= now' /\ broken \subseteq broken'
  /\ \A p \in clients : home'[p] = home[p]
  /\ \A p \in Publics : /\ public[p] = "proxied" => public'[p] = "proxied"
                        /\ conn[p] = "closed" => conn'[p] = "closed"
  /\ \A s \in Sessions :
       /\ handler[s] \in Late => handler'[s] \in Late /\ cur'[s] = cur[s]
       /\ handler'[s] \in Paired => handler[s] \in Paired /\ cur'[s] = cur[s]

LEMMA QuietKept ==
  ASSUME TypeOK, TypeOK', Matching, Kept, Quiet
  PROVE  Kept'
<1> USE DEF Quiet
<1>1. \A p : Working(p) => Working(p)'
  BY DEF Working
<1>2. EntryKept'
  BY <1>1 DEF Kept, EntryKept
<1>3. DeliveredKept'
  BY <1>1, WireAssumption DEF Kept, DeliveredKept, TypeOK, ServerTypeOK, Conns
<1>4. SenderKept'
  <2> SUFFICES ASSUME RegistryPatient, NEW s \in Sessions, handler'[s] \in Paired, InTime(cur[s])'
               PROVE  Reachable(cur[s])'
    BY DEF SenderKept, RegistryPatient
  <2>1. handler[s] \in Paired /\ cur'[s] = cur[s]
    OBVIOUS
  <2>2. cur[s] \in Publics
    BY <2>1 DEF Matching, HeldOK, Late, TypeOK, ServerTypeOK
  <2>3. InTime(cur[s])
    <3>1. handshakeId[cur[s]][1] \in Nat /\ now \in Nat /\ now' \in Nat
      BY <2>2, IdTime DEF TypeOK, WireTypeOK
    <3> QED
      BY <2>1, <3>1, ServerAssumption DEF InTime, ServerAssumption
  <2>4. Reachable(cur[s])
    BY <2>1, <2>3 DEF Kept, SenderKept
  <2> QED
    BY <2>1, <2>4 DEF Reachable
<1> QED BY <1>2, <1>3, <1>4 DEF Kept

\* An entry of a handshake in time is young.
LEMMA EntryYoung ==
  ASSUME TypeOK, Matching, RegistryPatient, NEW p \in clients, InTime(p)
  PROVE  Age(p) <= StaleAfter /\ Age(p) < Retention
<1>1. lastActivity[p] >= handshakeId[p][1] /\ p \in Publics
  BY DEF Matching, TimesOK, TypeOK, ServerTypeOK
<1>2. lastActivity[p] \in Nat /\ now \in Nat /\ handshakeId[p][1] \in Nat
  BY <1>1, IdTime DEF TypeOK, ServerTypeOK, WireTypeOK
<1> QED
  BY <1>1, <1>2, ServerAssumption DEF InTime, Age, RegistryPatient, ServerAssumption

-----------------------------------------------------------------------------
(* The accept loop and the periodic cleanup.                               *)

LEMMA TakeSenderKept ==
  ASSUME TypeOK, Matching, Kept, NEW c \in Conns, TakeSender(c)
  PROVE  Kept'
<1> USE DEF TypeOK, WireTypeOK, ServerTypeOK
<1>1. PICK f \in clients :
        IF tx[f] = "held"
          THEN /\ tx' = [tx EXCEPT ![f] = "taken"] /\ acceptor' = Hold("send", c, f)
               /\ conn' = conn
          ELSE /\ tx' = tx /\ acceptor' = Idle /\ conn' = [conn EXCEPT ![c] = "closed"]
  BY DEF TakeSender, FirstEntry, Entries
<1>2. /\ acceptor.at = "take"
      /\ UNCHANGED <<now, handshakeId, home, clients, mailbox, handlerVars, publicVars>>
  BY DEF TakeSender
<1>3. EntryKept'
  BY <1>2 DEF Kept, EntryKept, Working
<1>4. DeliveredKept'
  BY <1>1, <1>2, WireAssumption DEF Kept, DeliveredKept, Working, Conns
<1>5. SenderKept'
  <2>1. \A p \in Publics : Reachable(p) => Reachable(p)'
    BY <1>1, <1>2 DEF Reachable, Hold, Idle
  <2>2. \A s \in Sessions : handler[s] \in Paired => cur[s] \in Publics
    BY DEF Matching, HeldOK, Late
  <2> QED
    BY <1>2, <2>1, <2>2 DEF Kept, SenderKept, InTime, RegistryPatient
<1> QED BY <1>3, <1>4, <1>5 DEF Kept

LEMMA SendKept ==
  ASSUME TypeOK, Matching, Kept, NEW c \in Conns, Send(c)
  PROVE  Kept'
<1> USE DEF TypeOK, WireTypeOK, ServerTypeOK
<1> DEFINE f == acceptor.sender
<1>1. f \in Publics /\ c = acceptor.stream /\ acceptor.at = "send" /\ c \in Publics /\ c # None
  BY WireAssumption DEF Send, Matching, HeldOK, Conns
<1>2. UNCHANGED <<now, handshakeId, home, clients, tx, handlerVars, publicVars>>
  BY DEF Send
<1>3. EntryKept'
  BY <1>2 DEF Kept, EntryKept, Working
<1>4. CASE ReceiverAlive(f)
  <2>1. mailbox' = [mailbox EXCEPT ![f] = c] /\ conn' = [conn EXCEPT ![c] = "delivered"]
    BY <1>4 DEF Send
  <2>2. conn[c] = "accepting"
    BY <1>1 DEF Matching, ConnOK
  <2>3. Working(f)
    BY <1>4 DEF ReceiverAlive, Working, Late, Paired
  <2>4. DeliveredKept'
    BY <1>1, <1>2, <2>1, <2>2, <2>3, WireAssumption DEF Kept, DeliveredKept, Working, Conns
  <2>5. \A p \in Publics : Reachable(p) => Reachable(p)'
    BY <1>1, <1>2, <2>1 DEF Reachable
  <2>6. \A s \in Sessions : handler[s] \in Paired => cur[s] \in Publics
    BY DEF Matching, HeldOK, Late
  <2>7. SenderKept'
    BY <1>2, <2>5, <2>6 DEF Kept, SenderKept, InTime, RegistryPatient
  <2> QED BY <1>3, <2>4, <2>7 DEF Kept
<1>5. CASE ~ReceiverAlive(f)
  <2>1. mailbox' = mailbox /\ conn' = [conn EXCEPT ![c] = "closed"]
    BY <1>5 DEF Send
  <2>2. DeliveredKept'
    BY <1>1, <1>2, <2>1, WireAssumption DEF Kept, DeliveredKept, Working, Conns
  <2>3. \A s \in Sessions : handler[s] \in Paired => cur[s] # f
    BY <1>5 DEF ReceiverAlive, Paired
  <2>4. \A p \in Publics : Reachable(p) /\ p # f => Reachable(p)'
    BY <1>1, <1>2, <2>1 DEF Reachable
  <2>5. \A s \in Sessions : handler[s] \in Paired => cur[s] \in Publics
    BY DEF Matching, HeldOK, Late
  <2>6. SenderKept'
    BY <1>2, <2>3, <2>4, <2>5 DEF Kept, SenderKept, InTime, RegistryPatient
  <2> QED BY <1>3, <2>2, <2>6 DEF Kept
<1> QED BY <1>4, <1>5

LEMMA PeriodicCleanupKept ==
  ASSUME TypeOK, Matching, Kept, PeriodicCleanup
  PROVE  Kept'
<1> USE DEF TypeOK, WireTypeOK, ServerTypeOK
<1>1. /\ clients' = clients \ Expired /\ tx' = SendersWithout(Expired)
      /\ UNCHANGED <<wireVars, mailbox, acceptVars, handlerVars, publicVars>>
  BY DEF PeriodicCleanup, RemoveEntries
<1>2. EntryKept'
  BY <1>1 DEF Kept, EntryKept, Working
<1>3. DeliveredKept'
  BY <1>1 DEF Kept, DeliveredKept, Working
<1>4. SenderKept'
  <2> SUFFICES ASSUME RegistryPatient, NEW s \in Sessions, handler[s] \in Paired, InTime(cur[s])
               PROVE  Reachable(cur[s])'
    BY <1>1 DEF SenderKept, InTime, RegistryPatient
  <2>1. Reachable(cur[s]) /\ cur[s] \in Publics
    BY DEF Kept, SenderKept, Matching, HeldOK, Late
  <2>2. cur[s] \in clients => cur[s] \notin Expired
    BY EntryYoung, ServerAssumption DEF Expired, Age, ServerAssumption
  <2> QED
    BY <1>1, <2>1, <2>2 DEF Reachable, SendersWithout
<1> QED BY <1>2, <1>3, <1>4 DEF Kept

-----------------------------------------------------------------------------
(* The handlers.                                                           *)

\* The eviction spares the entries of the handlers that wait in time, and the new
\* entry has the handler that pushed it.
LEMMA RegisterKept ==
  ASSUME TypeOK, Matching, Kept, NEW s \in Sessions, Register(s)
  PROVE  Kept'
<1> USE DEF TypeOK, WireTypeOK, ServerTypeOK
<1> DEFINE p == cur[s]
<1>1. p \in Publics /\ handler[s] = "register"
  BY DEF Register, Matching, HeldOK, Early
<1>2. /\ clients' = (clients \ Stale) \cup {p}
      /\ tx' = [SendersWithout(Stale) EXCEPT ![p] = "held"]
      /\ handler' = [handler EXCEPT ![s] = "connect"]
      /\ UNCHANGED <<now, conn, mailbox, home, acceptor, cur, broken, public>>
  BY DEF Register, Goto
<1>3. \A q : Working(q) => Working(q)'
  BY <1>1, <1>2 DEF Working, Late, Paired
<1>4. EntryKept'
  <2>1. Working(p)'
    BY <1>2 DEF Working, Late, Paired
  <2> QED
    BY <1>2, <1>3, <2>1 DEF Kept, EntryKept
<1>5. DeliveredKept'
  BY <1>2, <1>3 DEF Kept, DeliveredKept
<1>6. SenderKept'
  <2> SUFFICES ASSUME RegistryPatient, NEW t \in Sessions, handler'[t] \in Paired, InTime(cur[t])'
               PROVE  Reachable(cur[t])'
    BY <1>2 DEF SenderKept, RegistryPatient
  <2>1. CASE t = s
    BY <1>1, <1>2, <2>1 DEF Reachable, SendersWithout
  <2>2. CASE t # s
    <3>1. handler[t] \in Paired /\ cur[t] \in Publics /\ cur[t] # p
      BY <1>1, <1>2, <2>2, CurTellsHandler DEF Matching, HeldOK, Late, Early
    <3>2. InTime(cur[t])
      BY <1>2, <3>1 DEF Register, InTime
    <3>3. Reachable(cur[t])
      BY <3>1, <3>2 DEF Kept, SenderKept
    <3>4. cur[t] \in clients => cur[t] \notin Stale
      <4>1. cur[t] \in clients => Age(cur[t]) <= StaleAfter
        BY <3>2, EntryYoung
      <4>2. cur[t] \in clients => Age(cur[t]) \in Int
        BY DEF Age
      <4> QED
        BY <4>1, <4>2, ServerAssumption DEF Stale, ServerAssumption
    <3> QED
      BY <1>2, <3>1, <3>3, <3>4 DEF Reachable, SendersWithout
  <2> QED BY <2>1, <2>2
<1> QED BY <1>4, <1>5, <1>6 DEF Kept

\* The one way an entry outlives its handshake; a stream that was already delivered
\* is closed with the receiver.
LEMMA WriteConnectFailsKept ==
  ASSUME TypeOK, Matching, Kept, NEW s \in Sessions, WriteConnectFails(s)
  PROVE  Kept'
<1> USE DEF TypeOK, WireTypeOK, ServerTypeOK
<1> DEFINE p == cur[s]
<1>1. p \in Publics /\ handler[s] = "connect" /\ home[p] = s /\ public[p] = "serving"
  BY WireAssumption DEF WriteConnectFails, Matching, HeldOK, ServingOK, Late, Paired, Conns
<1>2. /\ broken' = broken \cup {s}
      /\ handler' = [handler EXCEPT ![s] = "listen"]
      /\ cur' = [cur EXCEPT ![s] = None]
      /\ public' = [public EXCEPT ![p] = "dropped"]
      /\ conn' = Closed({mailbox[p]} \cap Conns)
      /\ UNCHANGED <<now, handshakeId, home, clients, tx, mailbox, acceptor>>
  BY DEF WriteConnectFails, GiveUp, Goto
<1>3. \A q \in Publics \ {p} : Working(q) => Working(q)'
  BY <1>2 DEF Working
<1>4. EntryKept'
  BY <1>1, <1>2, <1>3 DEF Kept, EntryKept
<1>5. DeliveredKept'
  <2> SUFFICES ASSUME NEW q \in Publics, mailbox[q] # None
               PROVE  \/ public'[q] = "proxied" \/ Working(q)'
                      \/ conn'[mailbox[q]] = "closed"
    BY <1>2 DEF DeliveredKept
  <2>1. mailbox[q] = q /\ q \in Conns
    BY DEF Matching, MailboxOK, Conns
  <2>2. CASE q = p
    BY <1>2, <2>1, <2>2 DEF Closed
  <2>3. CASE q # p
    BY <1>2, <1>3, <2>1, <2>3 DEF Kept, DeliveredKept, Closed
  <2> QED BY <2>2, <2>3
<1>6. SenderKept'
  <2>1. \A t \in Sessions : handler'[t] \in Paired => handler[t] \in Paired /\ cur'[t] = cur[t]
    BY <1>2 DEF Paired
  <2> QED
    BY <1>2, <2>1 DEF Kept, SenderKept, InTime, Reachable, RegistryPatient
<1> QED BY <1>4, <1>5, <1>6 DEF Kept

\* No other handler past Register has this id, so the removal takes this handshake's
\* entry and those that have no handler.
LEMMA CleanupKept ==
  ASSUME TypeOK, Matching, Kept, NEW s \in Sessions, Cleanup(s)
  PROVE  Kept'
<1> USE DEF TypeOK, WireTypeOK, ServerTypeOK
<1> DEFINE p == cur[s]
           gone == Entries(handshakeId[p])
<1>1. p \in Publics /\ handler[s] = "cleanup" /\ handler[s] \in Late
  BY DEF Cleanup, Matching, HeldOK, Late
<1>2. /\ clients' = clients \ gone /\ tx' = SendersWithout(gone)
      /\ handler' = [handler EXCEPT ![s] = "listen"]
      /\ cur' = [cur EXCEPT ![s] = None]
      /\ public' = [public EXCEPT ![p] = IF mailbox[p] # None THEN "proxied" ELSE "dropped"]
      /\ UNCHANGED <<now, conn, handshakeId, home, mailbox, acceptor, broken>>
  BY DEF Cleanup, RemoveEntries, Goto
<1>3. \A q \in Publics \ {p} : Working(q) => Working(q)'
  BY <1>2 DEF Working
<1>4. EntryKept'
  <2>1. p \notin clients'
    BY <1>2 DEF Entries
  <2> QED
    BY <1>2, <1>3, <2>1 DEF Kept, EntryKept
<1>5. DeliveredKept'
  BY <1>1, <1>2, <1>3 DEF Kept, DeliveredKept
<1>6. SenderKept'
  <2> SUFFICES ASSUME RegistryPatient, NEW t \in Sessions, handler'[t] \in Paired, InTime(cur[t])'
               PROVE  Reachable(cur[t])'
    BY DEF SenderKept, RegistryPatient
  <2>1. t # s /\ handler[t] \in Paired /\ cur'[t] = cur[t]
    BY <1>2 DEF Paired
  <2>2. cur[t] \in Publics
    BY <2>1 DEF Matching, HeldOK, Late
  <2>3. cur[t] \notin gone
    BY <1>1, <2>1, IdTellsHandler DEF Entries, Late
  <2>4. Reachable(cur[t])
    BY <1>2, <2>1 DEF Kept, SenderKept, InTime
  <2> QED
    BY <1>2, <2>1, <2>2, <2>3, <2>4 DEF Reachable, SendersWithout
<1> QED BY <1>4, <1>5, <1>6 DEF Kept

-----------------------------------------------------------------------------
(* Every step.                                                             *)

LEMMA AcceptorQuiet ==
  ASSUME TypeOK, TypeOK', Matching, AcceptorStep
  PROVE  Quiet \/ \E c \in Conns : TakeSender(c) \/ Send(c)
<1> USE DEF TypeOK, WireTypeOK, ServerTypeOK
<1> PICK c \in Conns : \/ Accept(c) \/ PeekCallback(c) \/ PeekOther(c)
                       \/ TakeSender(c) \/ NoEntry(c) \/ Send(c)
  BY DEF AcceptorStep
<1>1. CASE Accept(c) \/ PeekCallback(c) \/ NoEntry(c)
  <2>1. UNCHANGED <<now, clients, older, tx, mailbox, handshakeId, home, handlerVars, publicVars>>
    BY <1>1 DEF Accept, PeekCallback, NoEntry
  <2>2. \A p \in Publics : conn[p] = "closed" => conn'[p] = "closed"
    BY <1>1 DEF Accept, PeekCallback, NoEntry, Conns
  <2>3. acceptor.at # "send"
    BY <1>1 DEF Accept, PeekCallback, NoEntry
  <2> QED
    BY <2>1, <2>2, <2>3 DEF Quiet
<1>2. CASE PeekOther(c)
  <2>1. UNCHANGED <<now, clients, older, tx, mailbox, handshakeId, home, cur, broken, publicVars>>
    BY <1>2 DEF PeekOther
  <2>2. \A p \in Publics : conn[p] = "closed" => conn'[p] = "closed"
    BY <1>2, WireAssumption DEF PeekOther, Conns
  <2>3. acceptor.at # "send"
    BY <1>2 DEF PeekOther
  <2>4. \A s \in Sessions : /\ handler[s] \in Late => handler'[s] = handler[s]
                            /\ handler'[s] \in Paired => handler'[s] = handler[s]
    <3>1. conn[c] = "accepting"
      BY <1>2 DEF PeekOther, Matching, ConnOK
    <3>2. \A s \in Sessions : s = c => handler[s] \in {"none", "gone"}
      BY <3>1 DEF Matching, ConnOK
    <3>3. handler' = handler \/ handler' = [handler EXCEPT ![c] = "start"]
      BY <1>2 DEF PeekOther
    <3> QED
      BY <3>2, <3>3 DEF Late, Paired
  <2> QED
    BY <2>1, <2>2, <2>3, <2>4 DEF Quiet
<1> QED
  BY <1>1, <1>2

LEMMA HandlerQuiet ==
  ASSUME TypeOK, TypeOK', Matching, NEW s \in Sessions, HandlerStepOf(s)
  PROVE  Quiet \/ Register(s) \/ WriteConnectFails(s) \/ Cleanup(s)
<1> USE DEF TypeOK, WireTypeOK, ServerTypeOK
<1>1. CASE Bind(s) \/ Refuse(s) \/ StartEof(s) \/ SeesDisconnect(s)
  <2>1. UNCHANGED <<now, clients, older, tx, mailbox, handshakeId, home, acceptor, cur, broken>>
    BY <1>1 DEF Bind, Refuse, StartEof, SeesDisconnect
  <2>2. \A p \in Publics : /\ public[p] = "proxied" => public'[p] = "proxied"
                           /\ conn[p] = "closed" => conn'[p] = "closed"
    BY <1>1 DEF Bind, Refuse, StartEof, SeesDisconnect, Conns
  <2>3. \A t \in Sessions : /\ handler[t] \in Late => handler'[t] = handler[t]
                            /\ handler'[t] \in Paired => handler'[t] = handler[t]
    BY <1>1 DEF Bind, Refuse, StartEof, SeesDisconnect, Goto, Late, Paired
  <2> QED
    BY <2>1, <2>2, <2>3 DEF Quiet
<1>2. CASE \E p \in Publics : AcceptPublic(s, p)
  <2>1. UNCHANGED <<now, conn, clients, older, tx, mailbox, handshakeId, home, acceptor, broken>>
    BY <1>2 DEF AcceptPublic
  <2>2. \A p \in Publics : public[p] = "proxied" => public'[p] = "proxied"
    BY <1>2 DEF AcceptPublic
  <2>3. \A t \in Sessions :
          /\ handler[t] \in Late => handler'[t] = handler[t] /\ cur'[t] = cur[t]
          /\ handler'[t] \in Paired => handler'[t] = handler[t] /\ cur'[t] = cur[t]
    BY <1>2 DEF AcceptPublic, Goto, Late, Paired
  <2> QED
    BY <2>1, <2>2, <2>3 DEF Quiet
<1>3. CASE ReadFirstBytes(s) \/ WriteReady(s)
  <2>1. UNCHANGED <<now, conn, clients, older, tx, mailbox, handshakeId, home, acceptor, cur,
                    broken, public>>
    BY <1>3 DEF ReadFirstBytes, WriteReady
  <2>2. \A t \in Sessions : /\ handler[t] \in Late => handler'[t] = handler[t]
                            /\ handler'[t] \in Paired => handler'[t] = handler[t]
    BY <1>3 DEF ReadFirstBytes, WriteReady, Goto, Late, Paired
  <2> QED
    BY <2>1, <2>2 DEF Quiet
<1>4. CASE NoFirstBytes(s) \/ WriteReadyFails(s)
  <2>1. /\ UNCHANGED <<now, conn, clients, older, tx, mailbox, handshakeId, home, acceptor>>
        /\ broken \subseteq broken' /\ GiveUp(s) /\ handler[s] \in {"reading", "ready"}
    BY <1>4 DEF NoFirstBytes, WriteReadyFails
  <2>2. \A p \in Publics : public[p] = "proxied" => public'[p] = "proxied"
    BY <2>1 DEF GiveUp, Matching, HeldOK, ServingOK, Early
  <2>3. \A t \in Sessions :
          /\ handler[t] \in Late => handler'[t] = handler[t] /\ cur'[t] = cur[t]
          /\ handler'[t] \in Paired => handler'[t] = handler[t] /\ cur'[t] = cur[t]
    BY <2>1 DEF GiveUp, Goto, Late, Paired
  <2> QED
    BY <2>1, <2>2, <2>3 DEF Quiet
<1>5. CASE WriteConnect(s) \/ EndAwait(s)
  <2>1. UNCHANGED <<now, conn, clients, older, tx, mailbox, handshakeId, home, acceptor, cur,
                    broken, public>>
    BY <1>5 DEF WriteConnect, EndAwait
  <2>2. \A t \in Sessions : /\ handler[t] \in Late => handler'[t] \in Late
                            /\ handler'[t] \in Paired => handler[t] \in Paired
    BY <1>5 DEF WriteConnect, EndAwait, Goto, Late, Paired
  <2> QED
    BY <2>1, <2>2 DEF Quiet
<1> QED
  BY <1>1, <1>2, <1>3, <1>4, <1>5
  DEF HandlerStepOf

LEMMA OutsideQuiet ==
  ASSUME TypeOK, TypeOK', Matching, OutsideStep \/ Tick \/ UNCHANGED vars
  PROVE  Quiet
<1> USE DEF TypeOK, WireTypeOK, ServerTypeOK
<1>1. CASE \E p \in Publics, s \in Sessions : Arrives(p, s)
  <2>1. PICK p \in Publics, s \in Sessions : Arrives(p, s)
    BY <1>1
  <2>2. UNCHANGED <<now, conn, clients, older, tx, mailbox, handshakeId, acceptor, handlerVars>>
    BY <2>1 DEF Arrives
  <2>3. p \notin clients
    BY <2>1 DEF Arrives, Matching, IdsOK, NoTrace
  <2>4. \A q \in clients : home'[q] = home[q]
    BY <2>1, <2>3 DEF Arrives
  <2>5. \A q \in Publics : public[q] = "proxied" => public'[q] = "proxied"
    BY <2>1 DEF Arrives
  <2> QED
    BY <2>2, <2>4, <2>5 DEF Quiet
<1>2. CASE \/ \E p \in Publics : Speaks(p) \/ Leaves(p)
           \/ \E c \in Probes : ProbeConnects(c) \/ ProbeSpeaks(c) \/ ProbeHangsUp(c)
           \/ Tick \/ UNCHANGED vars
  <2>1. /\ UNCHANGED <<clients, older, tx, mailbox, handshakeId, home, acceptor>>
        /\ UNCHANGED <<handlerVars, public>>
        /\ now <= now'
    BY <1>2 DEF Speaks, Leaves, ProbeConnects, ProbeSpeaks, ProbeHangsUp, Tick
  <2>2. \A q \in Publics : conn[q] = "closed" => conn'[q] = "closed"
    BY <1>2, WireAssumption
    DEF Speaks, Leaves, ProbeConnects, ProbeSpeaks, ProbeHangsUp, Tick, Conns
  <2> QED
    BY <2>1, <2>2 DEF Quiet
<1> QED
  BY <1>1, <1>2 DEF OutsideStep

LEMMA ClientQuiet ==
  ASSUME TypeOK, TypeOK', Matching, NEW s \in Sessions,
         ClientStep(s) \/ TaskStep(s) \/ ClientFault(s), UNCHANGED serverVars
  PROVE  Quiet
<1> USE DEF TypeOK, WireTypeOK, ServerTypeOK
<1>1. UNCHANGED <<now, handshakeId, home>>
  BY DEF ClientStep, TaskStep, ClientFault, Start, WriteRegister, ReadReady, ReadOther,
         ReadConnect, ConnectTimeout, Dial, WriteCallback, Eof, SweepActive, TaskEnds,
         DialFails, WriteCallbackFails, CutLine, ReadFails, Crash
<1>2. \A p \in Publics : conn[p] = "closed" => conn'[p] = "closed"
  <2>1. CASE Start(s) \/ Dial(s)
    BY <2>1, WireAssumption DEF Start, Dial, Matching, LinesOK, Conns
  <2>2. CASE ~(Start(s) \/ Dial(s))
    <3>1. conn' = conn
      BY <2>2
      DEF ClientStep, TaskStep, ClientFault, WriteRegister, ReadReady, ReadOther,
          ReadConnect, ConnectTimeout, WriteCallback, Eof, SweepActive, TaskEnds,
          DialFails, WriteCallbackFails, CutLine, ReadFails, Crash
    <3> QED BY <3>1
  <2> QED BY <2>1, <2>2
<1> QED
  BY <1>1, <1>2 DEF Quiet

\* What the steps that are not quiet do.
LEMMA LoudSteps ==
  ASSUME TypeOK, TypeOK', Matching, [Next]_vars
  PROVE  \/ Quiet \/ PeriodicCleanup
         \/ \E c \in Conns : (TakeSender(c) \/ Send(c)) /\ UNCHANGED clientVars
         \/ \E s \in Sessions : Register(s) \/ WriteConnectFails(s) \/ Cleanup(s)
<1>1. CASE Acceptor
  BY <1>1, AcceptorQuiet DEF Acceptor
<1>2. CASE \E s \in Sessions : Handler(s) \/ Control(s)
  BY <1>2, HandlerQuiet, ClientQuiet DEF Handler, Control
<1>3. CASE OtherStep
  BY <1>3, OutsideQuiet, ClientQuiet DEF OtherStep
<1>4. CASE Tick \/ Finished \/ UNCHANGED vars
  BY <1>4, OutsideQuiet DEF Finished
<1> QED
  BY <1>1, <1>2, <1>3, <1>4 DEF Next, SystemStep

LEMMA KeptNext ==
  ASSUME TypeOK, TypeOK', Matching, Kept, [Next]_vars
  PROVE  Kept'
BY LoudSteps, QuietKept, PeriodicCleanupKept, TakeSenderKept, SendKept, RegisterKept,
   WriteConnectFailsKept, CleanupKept

LEMMA KeptHolds ==
  ASSUME WholeLines, ConnectionTimeout > 0
  PROVE  Spec => [](TypeOK /\ Matching /\ Kept)
<1>1. Init => Kept
  BY DEF Init, ServerInit, Kept, EntryKept, DeliveredKept, SenderKept, Paired
<1>2. TypeOK /\ TypeOK' /\ Matching /\ Kept /\ [Next]_vars => Kept'
  BY KeptNext
<1> QED
  BY <1>1, <1>2, TypeCorrect, MatchingHolds, PTL DEF Spec

\* handle_client removes the entry it pushed on every way out of a handshake but
\* one: when the CONNECT line cannot be written, `continue` skips the removal.
THEOREM EntriesHaveHandlers ==
  ASSUME WholeLines, ConnectionTimeout > 0
  PROVE  Spec => []EntryHasHandler
<1>1. TypeOK /\ Matching /\ Kept => EntryHasHandler
  BY WireAssumption
  DEF TypeOK, ServerTypeOK, Matching, ServingOK, Kept, EntryKept, Working, Late, Paired,
      EntryHasHandler, Conns
<1> QED
  BY <1>1, KeptHolds, PTL

\* A stream that tx.send gave to a handshake is joined to its public connection, or
\* closed together with the receiver; it is never left open and unread.
THEOREM DeliveriesUsed ==
  ASSUME WholeLines, ConnectionTimeout > 0
  PROVE  Spec => []DeliveredIsUsed
<1>1. TypeOK /\ Matching /\ Kept => DeliveredIsUsed
  BY WireAssumption
  DEF TypeOK, ServerTypeOK, Matching, ServingOK, Kept, DeliveredKept, Working, Late, Paired,
      DeliveredIsUsed, Conns
<1> QED
  BY <1>1, KeptHolds, PTL

\* With the code's 30 s and 300 s above --connection-timeout, neither the eviction of
\* another port's registration nor the periodic cleanup takes the sender of a handler
\* that still waits in time.
THEOREM WaitersKeepSenders ==
  ASSUME WholeLines, ConnectionTimeout > 0, RegistryPatient
  PROVE  Spec => []WaiterKeepsSender
<1>1. TypeOK /\ Matching /\ Kept => WaiterKeepsSender
  BY DEF Kept, SenderKept, Reachable, WaiterKeepsSender, Paired
<1> QED
  BY <1>1, KeptHolds, PTL

-----------------------------------------------------------------------------
(* What a callback finds in the registry.                                  *)

\* Entries are older than one another as they are pushed: an order without cycles.
OlderOK ==
  \A f \in clients : /\ older[f] \subseteq clients /\ f \notin older[f]
                     /\ \A g \in older[f] : older[g] \subseteq older[f]

\* The entry of a handshake that got its callback goes with it.
SentOK == \A p \in clients : mailbox[p] # None => Working(p)

\* The callback q took the sender of f, and is through with it, or on the way.
TookSender(q, f) ==
  \/ acceptor.at = "send" /\ acceptor.stream = q /\ acceptor.sender = f
  \/ mailbox[f] = q
  \/ conn[q] = "closed" /\ mailbox[q] = None

\* The sender of an entry is there, or a callback with its id took it.
TakenOK ==
  \A f \in clients :
    \/ tx[f] = "held"
    \/ tx[f] = "taken" /\ \E q \in Publics : handshakeId[q] = handshakeId[f] /\ TookSender(q, f)

Registry == IsFiniteSet(clients) /\ OlderOK /\ SentOK /\ TakenOK

\* A finite registry with an entry of an id has a first one.
LEMMA FirstEntryExists ==
  ASSUME IsFiniteSet(clients), OlderOK, NEW id, Entries(id) # {}
  PROVE  FirstEntry(id) # {}
<1> DEFINE R == StrictSubsetOrdering(clients)
           T == {older[f] : f \in Entries(id)}
<1>1. IsWellFoundedOn(R, SUBSET clients)
  BY FS_StrictSubsetOrderingWellFounded, FS_FiniteSubsetsOfFinite
<1>2. T \subseteq SUBSET clients /\ T # {}
  BY DEF Entries, OlderOK
<1>3. PICK x \in T : \A y \in T : ~ (<<y, x>> \in R)
  <2> HIDE DEF R, T
  <2> QED BY <1>1, <1>2, WFMin
<1>4. PICK f \in Entries(id) : x = older[f]
  OBVIOUS
<1>5. ASSUME NEW g \in older[f] \cap Entries(id) PROVE FALSE
  <2>1. f \in clients /\ g \in clients
    BY DEF Entries
  <2>2. older[g] \subseteq older[f] /\ older[g] # older[f] /\ older[f] \subseteq clients
    BY <1>5, <2>1 DEF OlderOK
  <2>3. <<older[g], older[f]>> \in R
    BY <2>2 DEF StrictSubsetOrdering
  <2> QED BY <1>3, <1>4, <2>3
<1> QED BY <1>5 DEF FirstEntry

LEMMA QuietRegistry ==
  ASSUME TypeOK, TypeOK', Matching, Registry, Quiet
  PROVE  Registry'
<1> USE DEF Quiet
<1>1. IsFiniteSet(clients)' /\ OlderOK'
  BY DEF Registry, OlderOK
<1>2. SentOK'
  BY DEF Registry, SentOK, Working
<1>3. TakenOK'
  BY DEF Registry, TakenOK, TookSender
<1> QED BY <1>1, <1>2, <1>3 DEF Registry

\* Removing entries leaves the others as they are, but for their elders.
LEMMA RemoveRegistry ==
  ASSUME TypeOK, Matching, Registry, NEW gone \in SUBSET clients, RemoveEntries(gone),
         UNCHANGED <<conn, mailbox, handshakeId, acceptor>>,
         \A p \in clients \ gone : Working(p) => Working(p)'
  PROVE  Registry'
<1> USE DEF TypeOK, ServerTypeOK
<1>1. /\ clients' = clients \ gone /\ clients \subseteq Publics
      /\ \A p \in clients' : older'[p] = older[p] \ gone /\ tx'[p] = tx[p]
  BY DEF RemoveEntries, SendersWithout, OlderWithout
<1>2. IsFiniteSet(clients)'
  BY <1>1, FS_Subset DEF Registry
<1>3. OlderOK'
  <2>1. OlderOK
    BY DEF Registry
  <2>2. \A f \in clients' : older'[f] \subseteq clients' /\ f \notin older'[f]
    BY <1>1, <2>1 DEF OlderOK
  <2>3. \A f \in clients' : \A g \in older'[f] : older'[g] \subseteq older'[f]
    BY <1>1, <2>1, <2>2 DEF OlderOK
  <2> QED BY <2>2, <2>3 DEF OlderOK
<1>4. SentOK'
  BY <1>1 DEF Registry, SentOK
<1>5. TakenOK'
  BY <1>1 DEF Registry, TakenOK, TookSender
<1> QED BY <1>2, <1>3, <1>4, <1>5 DEF Registry

\* A peek that shows the whole line shows the id in it.
LEMMA SeesOwnId ==
  ASSUME WholeLines, TypeOK, Matching, NEW c \in Publics, conn[c] = "accepting"
  PROVE  SeenIds(c) = {handshakeId[c]}
<1>1. handshakeId[c] \in Ids
  BY DEF Matching, NoTrace, Uninvited, TypeOK, WireTypeOK
<1> QED
  BY <1>1 DEF SeenIds, WholeLines, Ids

LEMMA TakeSenderRegistry ==
  ASSUME WholeLines, TypeOK, Matching, Registry, NEW c \in Conns, TakeSender(c)
  PROVE  Registry'
<1> USE DEF TypeOK, WireTypeOK, ServerTypeOK
<1>1. /\ c \in Publics /\ conn[c] = "accepting" /\ mailbox[c] = None
      /\ acceptor.at = "take" /\ acceptor.stream = c
      /\ UNCHANGED <<clients, older, mailbox, handshakeId, handlerVars>>
  BY DEF TakeSender, Matching, HeldOK, ConnOK, MailboxOK
<1>2. SeenIds(c) = {handshakeId[c]}
  BY <1>1, SeesOwnId
<1>3. PICK f \in FirstEntry(handshakeId[c]) :
        IF tx[f] = "held"
          THEN /\ tx' = [tx EXCEPT ![f] = "taken"] /\ acceptor' = Hold("send", c, f)
               /\ conn' = conn
          ELSE /\ tx' = tx /\ acceptor' = Idle /\ conn' = [conn EXCEPT ![c] = "closed"]
  BY <1>2 DEF TakeSender
<1>4. f \in clients /\ f \in Publics /\ handshakeId[f] = handshakeId[c]
  BY DEF FirstEntry, Entries
<1>5. \A p \in Publics : conn[p] = "closed" => conn'[p] = "closed"
  BY <1>3 DEF Conns
<1>6. TakenOK'
  <2> SUFFICES ASSUME NEW g \in clients
               PROVE  \/ tx'[g] = "held"
                      \/ /\ tx'[g] = "taken"
                         /\ \E q \in Publics : /\ handshakeId'[q] = handshakeId'[g]
                                               /\ TookSender(q, g)'
    BY <1>1 DEF TakenOK
  <2>1. CASE g = f /\ tx[f] = "held"
    <3>1. tx'[g] = "taken" /\ TookSender(c, g)'
      BY <1>3, <1>4, <2>1 DEF TookSender, Hold
    <3> QED BY <1>1, <1>4, <2>1, <3>1
  <2>2. CASE ~(g = f /\ tx[f] = "held")
    <3>1. tx'[g] = tx[g]
      BY <1>3, <1>4, <2>2
    <3>2. \A q \in Publics : TookSender(q, g) => TookSender(q, g)'
      BY <1>1, <1>5 DEF TookSender
    <3> QED BY <1>1, <3>1, <3>2 DEF Registry, TakenOK
  <2> QED BY <2>1, <2>2
<1> QED
  BY <1>1, <1>6 DEF Registry, OlderOK, SentOK, Working

LEMMA SendRegistry ==
  ASSUME TypeOK, Matching, Registry, NEW c \in Conns, Send(c)
  PROVE  Registry'
<1> USE DEF TypeOK, WireTypeOK, ServerTypeOK
<1> DEFINE f == acceptor.sender
<1>1. /\ f \in Publics /\ c \in Publics /\ acceptor.at = "send" /\ acceptor.stream = c
      /\ UNCHANGED <<clients, older, tx, handshakeId, handlerVars>>
  BY DEF Send, Matching, HeldOK
<1>2. conn[c] = "accepting" /\ mailbox[c] = None
  BY <1>1 DEF Matching, ConnOK, MailboxOK
<1>3. CASE ReceiverAlive(f)
  <2>1. mailbox' = [mailbox EXCEPT ![f] = c] /\ conn' = [conn EXCEPT ![c] = "delivered"]
    BY <1>3 DEF Send
  <2>2. Working(f) /\ f = c
    BY <1>1, <1>3 DEF ReceiverAlive, Working, Late, Paired, Matching, SenderOK, Holds
  <2>3. SentOK'
    BY <1>1, <2>1, <2>2 DEF Registry, SentOK, Working
  <2>4. \A q, g \in Publics : TookSender(q, g) => TookSender(q, g)'
    <3>1. \A q \in Publics : conn[q] = "closed" => q # c /\ conn'[q] = "closed"
      BY <1>2, <2>1 DEF Conns
    <3>2. mailbox'[f] = c /\ \A g \in Publics : g # f => mailbox'[g] = mailbox[g]
      BY <1>1, <2>1
    <3>3. mailbox[f] = None /\ \A q \in Publics : q # None
      BY <1>2, <2>2, WireAssumption DEF Conns
    <3> QED BY <1>1, <2>2, <3>1, <3>2, <3>3 DEF TookSender
  <2>5. TakenOK'
    BY <1>1, <2>4 DEF Registry, TakenOK
  <2> QED
    BY <1>1, <2>3, <2>5 DEF Registry, OlderOK
<1>4. CASE ~ReceiverAlive(f)
  <2>1. mailbox' = mailbox /\ conn' = [conn EXCEPT ![c] = "closed"]
    BY <1>4 DEF Send
  <2>2. \A q, g \in Publics : TookSender(q, g) => TookSender(q, g)'
    BY <1>1, <1>2, <2>1 DEF TookSender, Conns
  <2>3. TakenOK'
    BY <1>1, <2>2 DEF Registry, TakenOK
  <2> QED
    BY <1>1, <2>1, <2>3 DEF Registry, OlderOK, SentOK, Working
<1> QED BY <1>3, <1>4

\* The new entry is younger than all those that the eviction leaves.
LEMMA RegisterRegistry ==
  ASSUME TypeOK, Matching, Registry, NEW s \in Sessions, Register(s)
  PROVE  Registry'
<1> USE DEF TypeOK, WireTypeOK, ServerTypeOK
<1> DEFINE p == cur[s]
           rest == clients \ Stale
<1>1. p \in Publics /\ handler[s] = "register" /\ handshakeId[p] = NoId
  BY DEF Register, Matching, HeldOK, IdsOK, Early
<1>2. p \notin clients /\ tx[p] = "none" /\ mailbox[p] = None
  BY <1>1 DEF Matching, NoTrace
<1>3. /\ clients' = rest \cup {p}
      /\ older'[p] = rest /\ tx'[p] = "held"
      /\ \A f \in rest : older'[f] = older[f] \ Stale /\ tx'[f] = tx[f]
      /\ \A q \in Publics : q # p => handshakeId'[q] = handshakeId[q]
      /\ UNCHANGED <<conn, mailbox, acceptor, cur>>
      /\ handler' = [handler EXCEPT ![s] = "connect"]
  BY <1>1, <1>2 DEF Register, Goto, OlderWithout, SendersWithout
<1>4. IsFiniteSet(clients)'
  <2>1. IsFiniteSet(rest)
    BY FS_Subset DEF Registry
  <2> QED BY <1>3, <2>1, FS_AddElement
<1>5. OlderOK'
  <2>1. OlderOK
    BY DEF Registry
  <2>2. \A f \in rest : older'[f] \subseteq rest /\ f \notin older'[f]
    BY <1>3, <2>1 DEF OlderOK
  <2>3. \A f \in rest : \A g \in older'[f] : older'[g] \subseteq older'[f]
    BY <1>3, <2>1, <2>2 DEF OlderOK
  <2> QED BY <1>2, <1>3, <2>2, <2>3 DEF OlderOK
<1>6. SentOK'
  <2>1. \A q : Working(q) => Working(q)'
    BY <1>1, <1>3 DEF Working, Late, Paired
  <2> QED BY <1>2, <1>3, <2>1 DEF Registry, SentOK
<1>7. TakenOK'
  <2> SUFFICES ASSUME NEW f \in rest, tx[f] # "held"
               PROVE  /\ tx[f] = "taken"
                      /\ \E q \in Publics : handshakeId'[q] = handshakeId'[f] /\ TookSender(q, f)'
    BY <1>3 DEF TakenOK
  <2>1. PICK q \in Publics : handshakeId[q] = handshakeId[f] /\ TookSender(q, f)
    BY DEF Registry, TakenOK
  <2>2. tx[f] = "taken" /\ f # p
    BY <1>2 DEF Registry, TakenOK
  <2>3. q # p
    BY <1>1, <2>1 DEF Matching, NoTrace
  <2> QED
    BY <1>3, <2>1, <2>2, <2>3 DEF TookSender
<1> QED BY <1>4, <1>5, <1>6, <1>7 DEF Registry

LEMMA WriteConnectFailsRegistry ==
  ASSUME TypeOK, Matching, Registry, NEW s \in Sessions, WriteConnectFails(s)
  PROVE  Registry'
<1> USE DEF TypeOK, WireTypeOK, ServerTypeOK
<1> DEFINE p == cur[s]
<1>1. /\ handler[s] = "connect" /\ p \in Publics
      /\ cur' = [cur EXCEPT ![s] = None] /\ handler' = [handler EXCEPT ![s] = "listen"]
      /\ conn' = Closed({mailbox[p]} \cap Conns)
      /\ UNCHANGED <<clients, older, tx, mailbox, handshakeId, acceptor>>
  BY DEF WriteConnectFails, GiveUp, Goto, Matching, HeldOK, Late, Paired
<1>2. mailbox[p] = None
  BY <1>1 DEF Matching, NotYetInvited, Uninvited, MailboxOK
<1>3. \A q \in Publics \ {p} : Working(q) => Working(q)'
  BY <1>1 DEF Working
<1>4. \A q \in Publics : conn[q] = "closed" => conn'[q] = "closed"
  BY <1>1 DEF Closed, Conns
<1>5. SentOK'
  BY <1>1, <1>2, <1>3 DEF Registry, SentOK
<1>6. TakenOK'
  <2>1. \A q, f \in Publics : TookSender(q, f) => TookSender(q, f)'
    BY <1>1, <1>4 DEF TookSender
  <2> QED BY <1>1, <2>1 DEF Registry, TakenOK
<1> QED
  BY <1>1, <1>5, <1>6 DEF Registry, OlderOK

LEMMA CleanupRegistry ==
  ASSUME TypeOK, Matching, Registry, NEW s \in Sessions, Cleanup(s)
  PROVE  Registry'
<1> DEFINE gone == Entries(handshakeId[cur[s]])
<1>1. /\ RemoveEntries(gone) /\ gone \subseteq clients
      /\ UNCHANGED <<conn, mailbox, handshakeId, acceptor>>
      /\ cur' = [cur EXCEPT ![s] = None] /\ handler' = [handler EXCEPT ![s] = "listen"]
  BY DEF Cleanup, Goto, Entries
<1>2. \A p \in clients \ gone : Working(p) => Working(p)'
  BY <1>1 DEF Working, Entries, TypeOK, ServerTypeOK
<1> QED BY <1>1, <1>2, RemoveRegistry

LEMMA RegistryNext ==
  ASSUME WholeLines, TypeOK, TypeOK', Matching, Registry, [Next]_vars
  PROVE  Registry'
<1>1. CASE PeriodicCleanup
  BY <1>1, RemoveRegistry DEF PeriodicCleanup, Expired, Working
<1> QED
  BY <1>1, LoudSteps, QuietRegistry, TakeSenderRegistry, SendRegistry, RegisterRegistry,
     WriteConnectFailsRegistry, CleanupRegistry

\* The lookup of a callback in time comes upon a sender: CONNECT is written after the
\* entry is pushed, nothing removes that entry early, and whoever had the same id and
\* took a sender has used its own entry up.
THEOREM CallbacksFindWaiters ==
  ASSUME WholeLines, ConnectionTimeout > 0, RegistryPatient
  PROVE  Spec => []CallbackFindsWaiter
<1>1. Init => Registry
  BY FS_EmptySet DEF Init, ServerInit, Registry, OlderOK, SentOK, TakenOK
<1>2. TypeOK /\ TypeOK' /\ Matching /\ Registry /\ [Next]_vars => Registry'
  BY RegistryNext
<1>3. TypeOK /\ Matching /\ Kept /\ Registry => CallbackFindsWaiter
  <2> SUFFICES ASSUME TypeOK, Matching, Kept, Registry,
                      NEW s \in Sessions, NEW p \in Publics,
                      acceptor.at = "take", acceptor.stream = p,
                      cur[s] = p, handler[s] \in Paired, InTime(p)
               PROVE  \E f \in FirstEntry(handshakeId[p]) :
                        tx[f] = "held" /\ (f = p \/ home[f] \in broken)
    BY DEF CallbackFindsWaiter, Paired
  <2>1. conn[p] = "accepting" /\ mailbox[p] = None
    BY DEF Matching, ConnOK, MailboxOK
  <2>2. p \in clients
    BY <2>1 DEF Kept, SenderKept, Reachable
  <2>3. PICK f \in FirstEntry(handshakeId[p]) : TRUE
    BY <2>2, FirstEntryExists DEF Registry, Entries
  <2>4. f \in clients /\ handshakeId[f] = handshakeId[p]
    BY DEF FirstEntry, Entries
  <2>5. Working(f) => f = p
    BY <2>4, IdTellsHandler DEF Working, Late
  <2>6. f = p \/ home[f] \in broken
    BY <2>4, <2>5 DEF Kept, EntryKept
  <2>7. ASSUME NEW q \in Publics, handshakeId[q] = handshakeId[f], TookSender(q, f)
        PROVE  FALSE
    <3>1. CASE mailbox[f] = q
      BY <2>1, <2>4, <2>5, <3>1, WireAssumption DEF Registry, SentOK, Conns
    <3>2. CASE conn[q] = "closed" /\ mailbox[q] = None
      BY <2>1, <2>4, <2>7, <3>2 DEF Matching, IdsApart, Holds, Uninvited
    <3> QED BY <2>7, <3>1, <3>2 DEF TookSender
  <2>8. tx[f] = "held"
    BY <2>4, <2>7 DEF Registry, TakenOK
  <2> QED BY <2>6, <2>8
<1> QED
  BY <1>1, <1>2, <1>3, KeptHolds, PTL DEF Spec

-----------------------------------------------------------------------------
(* The lines of a control connection.                                      *)

\* A READY in flight is followed by its CONNECT, and a client that waits for CONNECT
\* has no other line before it.
InStep(q, at) ==
  /\ \A i \in DOMAIN q : i + 1 \in DOMAIN q /\ q[i].verb = "READY" => q[i + 1].verb = "CONNECT"
  /\ at = "connect" /\ q # <<>> => q[1].verb = "CONNECT"

\* The last READY has no CONNECT yet.
Owed(q, at) == IF q = <<>> THEN at = "connect" ELSE q[Len(q)].verb = "READY"

LinesInStep ==
  \A s \in Sessions :
    /\ InStep(control[s], client[s])
    /\ Owed(control[s], client[s]) => handler[s] \in {"register", "connect"} \/ s \in hung

\* READY is taken by a client that goes on to wait for CONNECT, or the line is
\* lost on it.
LEMMA ReadInStep ==
  ASSUME NEW q \in Seq(Line), q # <<>>, NEW at, InStep(q, at), NEW to,
         to = "connect" => q[1].verb = "READY"
  PROVE  InStep(Tail(q), to) /\ (Owed(Tail(q), to) => Owed(q, at))
<1> DEFINE r == Tail(q)
<1>1. /\ Len(q) \in Nat \ {0} /\ DOMAIN q = 1 .. Len(q)
      /\ r \in Seq(Line) /\ Len(r) = Len(q) - 1
      /\ \A i \in 1 .. Len(r) : r[i] = q[i + 1]
  BY HeadTailProperties, LenProperties
<1>2. DOMAIN r = 1 .. Len(r) /\ (r = <<>> <=> Len(r) = 0)
  BY <1>1, LenProperties, EmptySeq
<1> HIDE DEF r
<1>3. InStep(r, to)
  <2>1. \A i \in DOMAIN r : i + 1 \in DOMAIN r /\ r[i].verb = "READY" => r[i + 1].verb = "CONNECT"
    BY <1>1, <1>2, SMTT(20) DEF InStep
  <2>2. r # <<>> => 1 \in DOMAIN q /\ 1 + 1 \in DOMAIN q /\ r[1] = q[1 + 1]
    BY <1>1, <1>2
  <2> QED BY <2>1, <2>2 DEF InStep
<1>4. Owed(r, to) => Owed(q, at)
  BY <1>1, <1>2 DEF Owed
<1> QED
  BY <1>3, <1>4 DEF r

LEMMA CutInStep ==
  ASSUME NEW q \in Seq(Line), q # <<>>, NEW at, InStep(q, at), NEW to, to # "connect"
  PROVE  InStep(<<Junk>> \o Tail(q), to) /\ (Owed(<<Junk>> \o Tail(q), to) => Owed(q, at))
<1> DEFINE r == <<Junk>> \o Tail(q)
<1>1. /\ Len(q) \in Nat \ {0} /\ DOMAIN q = 1 .. Len(q)
      /\ Tail(q) \in Seq(Line) /\ Len(Tail(q)) = Len(q) - 1
      /\ \A i \in 1 .. (Len(q) - 1) : Tail(q)[i] = q[i + 1]
  BY HeadTailProperties, LenProperties
<1>2. /\ Len(r) = Len(q) /\ DOMAIN r = 1 .. Len(q) /\ r # <<>> /\ r[1].verb = "JUNK"
      /\ \A i \in 2 .. Len(q) : r[i] = q[i]
  BY <1>1 DEF Junk
<1> HIDE DEF r
<1>3. \A i \in DOMAIN r : i + 1 \in DOMAIN r /\ r[i].verb = "READY" => r[i + 1].verb = "CONNECT"
  BY <1>1, <1>2 DEF InStep
<1>4. Owed(r, to) => Owed(q, at)
  BY <1>1, <1>2 DEF Owed
<1> QED
  BY <1>3, <1>4 DEF InStep, r

LEMMA WrittenInStep ==
  ASSUME NEW q \in Seq(Line), NEW at, InStep(q, at), NEW line \in Line,
         line.verb # "CONNECT" => ~Owed(q, at)
  PROVE  /\ InStep(Append(q, line), at)
         /\ Owed(Append(q, line), at) <=> line.verb = "READY"
<1>1. /\ Len(q) \in Nat /\ DOMAIN q = 1 .. Len(q) /\ (q = <<>> <=> Len(q) = 0)
      /\ Append(q, line) # <<>>
      /\ Len(Append(q, line)) = Len(q) + 1 /\ DOMAIN Append(q, line) = 1 .. (Len(q) + 1)
      /\ \A i \in 1 .. Len(q) : Append(q, line)[i] = q[i]
      /\ Append(q, line)[Len(q) + 1] = line
  BY AppendProperties, LenProperties, EmptySeq
<1> QED
  BY <1>1 DEF InStep, Owed

\* Leaving the wait, or never having been in it, asks less.
LEMMA LeaveInStep ==
  ASSUME NEW q, NEW at, InStep(q, at), NEW to, to # "connect"
  PROVE  InStep(q, to) /\ (Owed(q, to) => Owed(q, at))
BY DEF InStep, Owed

LEMMA ClientInStep ==
  ASSUME TypeOK, LinesInStep, NEW s \in Sessions,
         ClientStep(s) \/ TaskStep(s) \/ ClientFault(s), UNCHANGED serverVars
  PROVE  LinesInStep'
<1> USE DEF TypeOK, WireTypeOK, ClientTypeOK
<1> DEFINE q == control[s]
<1>1. /\ hung \subseteq hung' /\ handler' = handler
      /\ \A t \in Sessions \ {s} : control'[t] = control[t] /\ client'[t] = client[t]
  BY DEF ClientStep, TaskStep, ClientFault, Start, WriteRegister, ReadReady, ReadOther, Reads,
         ReadConnect, ConnectTimeout, Dial, WriteCallback, Eof, SweepActive, TaskEnds,
         DialFails, WriteCallbackFails, CutLine, ReadFails, Crash, Down, Move
<1>2. q \in Seq(Line) /\ InStep(q, client[s])
  BY DEF LinesInStep
<1>3. /\ InStep(control'[s], client'[s])
      /\ Owed(control'[s], client'[s]) => Owed(q, client[s])
  <2>1. CASE ReadReady(s)
    <3>1. q # <<>> /\ q[1].verb = "READY" /\ control'[s] = Tail(q) /\ client'[s] = "connect"
      BY <1>2, <2>1, Popped DEF ReadReady, Reads, Move
    <3> QED BY <1>2, <3>1, ReadInStep
  <2>2. CASE ReadOther(s) \/ ReadConnect(s)
    <3>1. q # <<>> /\ control'[s] = Tail(q) /\ client'[s] # "connect"
      BY <2>2 DEF ReadOther, ReadConnect, Reads, Move
    <3> QED BY <1>2, <3>1, ReadInStep
  <2>3. CASE CutLine(s)
    <3>1. q # <<>> /\ control'[s] = <<Junk>> \o Tail(q) /\ client'[s] # "connect"
      BY <2>3 DEF CutLine, Move
    <3> QED BY <1>2, <3>1, CutInStep
  <2>4. CASE ~(ReadReady(s) \/ ReadOther(s) \/ ReadConnect(s) \/ CutLine(s))
    <3>1. control' = control /\ (client' = client \/ client'[s] # "connect")
      BY <2>4
      DEF ClientStep, TaskStep, ClientFault, Start, WriteRegister, ConnectTimeout, Dial,
          WriteCallback, Eof, SweepActive, TaskEnds, DialFails, WriteCallbackFails,
          ReadFails, Crash, Down, Move
    <3> QED BY <1>2, <3>1, LeaveInStep
  <2> QED BY <2>1, <2>2, <2>3, <2>4
<1> QED
  BY <1>1, <1>3 DEF LinesInStep

LEMMA HandlerInStep ==
  ASSUME TypeOK, Matching, LinesInStep, NEW s \in Sessions, HandlerStepOf(s), UNCHANGED clientVars
  PROVE  LinesInStep'
<1> USE DEF TypeOK, WireTypeOK, ServerTypeOK
<1> DEFINE q == control[s]
<1>1. /\ UNCHANGED <<hung, client>>
      /\ \A t \in Sessions \ {s} : control'[t] = control[t] /\ handler'[t] = handler[t]
  BY DEF HandlerStepOf, Bind, Refuse, StartEof, AcceptPublic, SeesDisconnect, ReadFirstBytes,
         NoFirstBytes, WriteReady, WriteReadyFails, Register, WriteConnect, WriteConnectFails,
         EndAwait, Cleanup, GiveUp, Goto, Write
<1>2. /\ q \in Seq(Line) /\ InStep(q, client[s])
      /\ Owed(q, client[s]) => handler[s] \in {"register", "connect"} \/ s \in hung
  BY DEF LinesInStep
<1>3. /\ InStep(control'[s], client[s])
      /\ Owed(control'[s], client[s]) => handler'[s] \in {"register", "connect"} \/ s \in hung
  <2>1. CASE s \in hung
    <3>1. control' = control
      BY <2>1
      DEF HandlerStepOf, Bind, Refuse, StartEof, AcceptPublic, SeesDisconnect, ReadFirstBytes,
          NoFirstBytes, WriteReady, WriteReadyFails, Register, WriteConnect, WriteConnectFails,
          EndAwait, Cleanup, Write, InFlight
    <3> QED BY <1>2, <2>1, <3>1
  <2>2. CASE s \notin hung /\ Refuse(s)
    <3>1. control'[s] = Append(q, Error) /\ ~Owed(q, client[s])
      BY <1>2, <2>2 DEF Refuse, Write, InFlight
    <3>2. Error \in Line /\ Error.verb = "ERROR"
      BY DEF Error, Line
    <3> QED BY <1>2, <3>1, <3>2, WrittenInStep
  <2>3. CASE s \notin hung /\ WriteReady(s)
    <3>1. /\ control'[s] = Append(q, Ready) /\ ~Owed(q, client[s])
          /\ handler'[s] = "register"
      BY <1>2, <2>3 DEF WriteReady, Write, InFlight, Goto
    <3>2. Ready \in Line /\ Ready.verb = "READY"
      BY DEF Ready, Line
    <3> QED BY <1>2, <3>1, <3>2, WrittenInStep
  <2>4. CASE s \notin hung /\ WriteConnect(s)
    <3>1. control'[s] = Append(q, Connect(cur[s]))
      BY <2>4 DEF WriteConnect, Write, InFlight
    <3>2. Connect(cur[s]) \in Line /\ Connect(cur[s]).verb = "CONNECT"
      BY <2>4 DEF Connect, Line, WriteConnect, Matching, HeldOK, Late, Paired
    <3> QED BY <1>2, <3>1, <3>2, WrittenInStep
  <2>5. CASE s \notin hung /\ ~(Refuse(s) \/ WriteReady(s) \/ WriteConnect(s))
    <3>1. /\ control' = control
          /\ handler[s] \in {"register", "connect"} => handler'[s] \in {"register", "connect"}
      BY <2>5
      DEF HandlerStepOf, Bind, StartEof, AcceptPublic, SeesDisconnect, ReadFirstBytes,
          NoFirstBytes, WriteReadyFails, Register, WriteConnectFails, EndAwait, Cleanup,
          GiveUp, Goto, MayFail
    <3> QED BY <1>2, <3>1
  <2> QED BY <2>1, <2>2, <2>3, <2>4, <2>5
<1> QED
  BY <1>1, <1>3 DEF LinesInStep

\* The accept loop starts a handler on a connection that has none.
LEMMA OtherInStep ==
  ASSUME TypeOK, Matching, LinesInStep,
         \/ AcceptorStep \/ PeriodicCleanup \/ OutsideStep \/ Tick \/ UNCHANGED vars,
         UNCHANGED clientVars
  PROVE  LinesInStep'
<1>1. control' = control /\ client' = client /\ hung \subseteq hung'
  BY DEF AcceptorStep, Accept, PeekCallback, PeekOther, TakeSender, NoEntry, Send,
         PeriodicCleanup, OutsideStep, Arrives, Speaks, Leaves, ProbeConnects, ProbeSpeaks,
         ProbeHangsUp, Tick
<1>2. \A s \in Sessions : handler[s] \in {"register", "connect"} => handler'[s] = handler[s]
  <2>1. CASE \E c \in Conns : PeekOther(c)
    BY <2>1 DEF PeekOther, Matching, ConnOK, TypeOK, ServerTypeOK
  <2>2. CASE ~\E c \in Conns : PeekOther(c)
    BY <2>2 DEF AcceptorStep, Accept, PeekCallback, TakeSender, NoEntry, Send,
       PeriodicCleanup, OutsideStep, Arrives, Speaks, Leaves, ProbeConnects, ProbeSpeaks,
       ProbeHangsUp, Tick
  <2> QED BY <2>1, <2>2
<1> QED
  BY <1>1, <1>2 DEF LinesInStep

\* The server writes CONNECT after READY, or nothing ever after, so what a client that
\* has read READY reads next is a CONNECT, whatever it missed or had cut before.
THEOREM ConnectFollowsReady ==
  ASSUME WholeLines, ConnectionTimeout > 0
  PROVE  Spec => []ConnectIsNext
<1>1. Init => LinesInStep
  BY DEF Init, WireInit, ClientInit, LinesInStep, InStep, Owed
<1>2. TypeOK /\ Matching /\ LinesInStep /\ [Next]_vars => LinesInStep'
  <2> SUFFICES ASSUME TypeOK, Matching, LinesInStep, [Next]_vars PROVE LinesInStep'
    OBVIOUS
  <2>1. CASE Acceptor \/ Tick \/ Finished \/ UNCHANGED vars
    BY <2>1, OtherInStep DEF Acceptor, Tick, Finished
  <2>2. CASE \E s \in Sessions : Handler(s) \/ Control(s)
    BY <2>2, HandlerInStep, ClientInStep DEF Handler, Control
  <2>3. CASE OtherStep
    BY <2>3, OtherInStep, ClientInStep DEF OtherStep
  <2> QED BY <2>1, <2>2, <2>3 DEF Next, SystemStep
<1>3. TypeOK /\ LinesInStep => ConnectIsNext
  BY Popped DEF TypeOK, WireTypeOK, LinesInStep, InStep, ConnectIsNext
<1> QED
  BY <1>1, <1>2, <1>3, KeptHolds, PTL DEF Spec

-----------------------------------------------------------------------------
(* The client's set of active sessions.                                    *)

ActiveFinite ==
  \A s \in Sessions : IsFiniteSet(activeSessions[s]) /\ Cardinality(activeSessions[s]) <= MaxActive

\* What a step may do with the set of one client.
Kindly(old, new) ==
  \/ new = old
  \/ new = {}
  \/ \E id : new = old \ {id}
  \/ \E id : new = {id}
  \/ Cardinality(old) < MaxActive /\ \E id : new = old \cup {id}

\* Each of them keeps a finite set to the limit.
LEMMA KindStep ==
  ASSUME MaxActive > 0, NEW old, NEW new,
         IsFiniteSet(old), Cardinality(old) <= MaxActive, Kindly(old, new)
  PROVE  IsFiniteSet(new) /\ Cardinality(new) <= MaxActive
<1>1. Cardinality(old) \in Nat /\ MaxActive \in Nat
  BY FS_CardinalityType, ClientAssumption DEF ClientAssumption
<1>2. CASE new = old
  BY <1>2
<1>3. CASE new = {}
  BY <1>1, <1>3, FS_EmptySet
<1>4. ASSUME NEW id, new = old \ {id} PROVE IsFiniteSet(new) /\ Cardinality(new) <= MaxActive
  BY <1>1, <1>4, FS_RemoveElement
<1>5. ASSUME NEW id, new = {id} PROVE IsFiniteSet(new) /\ Cardinality(new) <= MaxActive
  <2>1. IsFiniteSet({id}) /\ Cardinality({id}) = 1
    BY FS_Singleton
  <2> QED BY <1>1, <1>5, <2>1
<1>6. ASSUME NEW id, new = old \cup {id}, Cardinality(old) < MaxActive
      PROVE  IsFiniteSet(new) /\ Cardinality(new) <= MaxActive
  BY <1>1, <1>6, FS_AddElement
<1> QED
  BY <1>2, <1>3, <1>4, <1>5, <1>6 DEF Kindly

LEMMA ActiveNext ==
  ASSUME MaxActive > 0, TypeOK, ActiveFinite, [Next]_vars
  PROVE  ActiveFinite'
<1> USE DEF TypeOK, ClientTypeOK
<1> SUFFICES ASSUME NEW s \in Sessions PROVE Kindly(activeSessions[s], activeSessions'[s])
  BY KindStep DEF ActiveFinite
<1>1. CASE UNCHANGED activeSessions
  BY <1>1 DEF Kindly
<1>2. CASE \E t \in Sessions : ReadConnect(t)
  <2> PICK t \in Sessions : ReadConnect(t)
    BY <1>2
  <2> DEFINE id == handshakeId[Head(control[t]).pub]
             full == Cardinality(activeSessions[t]) >= MaxActive
             kept == IF full THEN {} ELSE activeSessions[t]
  <2>1. activeSessions' = [activeSessions EXCEPT ![t] = kept \cup {id}]
    BY DEF ReadConnect
  <2>2. ~full => Cardinality(activeSessions[t]) < MaxActive
    BY FS_CardinalityType, ClientAssumption DEF ActiveFinite, ClientAssumption
  <2>3. CASE s # t
    BY <2>1, <2>3 DEF Kindly
  <2>4. CASE s = t /\ full
    <3>1. activeSessions'[s] = {id}
      BY <2>1, <2>4
    <3> QED BY <3>1 DEF Kindly
  <2>5. CASE s = t /\ ~full
    <3>1. activeSessions'[s] = activeSessions[s] \cup {id}
      BY <2>1, <2>5
    <3> QED BY <2>2, <2>5, <3>1 DEF Kindly
  <2> QED BY <2>3, <2>4, <2>5
<1>3. CASE \E t \in Sessions : SweepActive(t) \/ Crash(t)
  BY <1>3 DEF SweepActive, Crash, Kindly
<1>4. CASE \E t \in Sessions, p \in Publics : TaskEnds(t, p)
  <2> PICK t \in Sessions, p \in Publics : TaskEnds(t, p)
    BY <1>4
  <2>1. activeSessions'[s] = activeSessions[s]
          \/ activeSessions'[s] = activeSessions[s] \ {handshakeId[p]}
    BY DEF TaskEnds
  <2> QED BY <2>1 DEF Kindly
<1>5. \/ \E t \in Sessions : ReadConnect(t) \/ SweepActive(t) \/ Crash(t)
      \/ \E t \in Sessions, p \in Publics : TaskEnds(t, p)
      \/ UNCHANGED activeSessions
  <2>1. CASE \E t \in Sessions : ClientStep(t) \/ TaskStep(t) \/ ClientFault(t)
    BY <2>1
    DEF ClientStep, TaskStep, ClientFault, Start, WriteRegister, ReadReady, ReadOther,
        ConnectTimeout, Dial, WriteCallback, Eof, DialFails, WriteCallbackFails, CutLine,
        ReadFails
  <2>2. CASE UNCHANGED clientVars \/ Tick \/ Finished
    BY <2>2 DEF Tick, Finished
  <2> QED
    BY <2>1, <2>2 DEF Next, SystemStep, OtherStep, Acceptor, Handler, Control
<1> QED
  BY <1>1, <1>2, <1>3, <1>4, <1>5

\* CONNECT empties a full set before it adds to it, so the set of a client never
\* passes MAX_ACTIVE_SESSIONS, whatever its tasks and its 60 s sweep do.
THEOREM ActiveKeepsLimit ==
  ASSUME MaxActive > 0
  PROVE  Spec => []ActiveBounded
<1>1. Init => ActiveFinite
  BY FS_EmptySet, ClientAssumption DEF Init, ClientInit, ActiveFinite, ClientAssumption
<1>2. TypeOK /\ ActiveFinite /\ [Next]_vars => ActiveFinite'
  BY ActiveNext
<1>3. ActiveFinite => ActiveBounded
  BY DEF ActiveFinite, ActiveBounded
<1> QED
  BY <1>1, <1>2, <1>3, TypeCorrect, PTL DEF Spec
=============================================================================
