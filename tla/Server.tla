------------------------------- MODULE Server -------------------------------
(***************************************************************************)
(* The tunnel server: the accept loop and the periodic cleanup task of     *)
(* bin/server.rs, and one handle_client task per control connection        *)
(* (server/handlers/client.rs), up to the moment a public connection and   *)
(* its callback stream are handed to handle_public_connection.             *)
(*                                                                         *)
(* Every await that may yield separates two actions; a section under the   *)
(* registry's lock is one action.                                          *)
(***************************************************************************)
EXTENDS Wire

CONSTANTS PortViews,           \* what one peek may see of each port's digits
          ConnectionTimeout,   \* --connection-timeout
          StaleAfter,          \* 30 s: age at which a registration evicts
          Retention            \* 300 s: age at which the periodic task removes

ASSUME ServerAssumption ==
  /\ PortViews \in [Ports -> SUBSET Ports]
  /\ ConnectionTimeout \in Nat
  /\ StaleAfter \in Nat
  /\ Retention \in Nat \ {0}

VARIABLES acceptor,      \* the accept loop: where it is, and what it holds
          clients,       \* the registry: the publics with a ProxyClientInfo
          older,         \* the entries pushed before each entry, still there then
          lastActivity,  \* ProxyClientInfo.last_activity
          tx,            \* where the sender of each handshake's channel is
          mailbox,       \* the callback stream sent through the channel
          handler,       \* where each handle_client task is
          cur,           \* the public each handler is serving
          since,         \* when the handler's running timer was started
          broken,        \* control connections on which a write has failed
          public,        \* what became of each public connection
          spoke,         \* publics that sent their first bytes
          left           \* publics that closed without having sent any

acceptVars   == <<acceptor>>
registryVars == <<clients, older, lastActivity, tx, mailbox>>
handlerVars  == <<handler, cur, since, broken>>
publicVars   == <<public, spoke, left>>
serverVars   == <<acceptVars, registryVars, handlerVars, publicVars>>

HandlerStep == {"none", "start", "listen", "reading", "ready", "register",
                "connect", "await", "cleanup", "gone"}

\* What the accept loop has in its hands, and where it is with it.
Hold(at, stream, sender) == [at |-> at, stream |-> stream, sender |-> sender]
Idle == Hold("accept", None, None)

ServerTypeOK ==
  /\ acceptor \in [at : {"accept", "peek", "take", "send"},
                   stream : Conns \cup {None}, sender : Publics \cup {None}]
  /\ clients \subseteq Publics
  /\ older \in [Publics -> SUBSET Publics]
  /\ lastActivity \in [Publics -> Nat]
  /\ tx \in [Publics -> {"none", "held", "taken", "dropped"}]
  /\ mailbox \in [Publics -> Publics \cup {None}]
  /\ handler \in [Sessions -> HandlerStep]
  /\ cur \in [Sessions -> Publics \cup {None}]
  /\ since \in [Sessions -> Nat]
  /\ broken \subseteq Sessions
  /\ public \in [Publics -> {"away", "queued", "serving", "proxied", "dropped"}]
  /\ spoke \subseteq Publics
  /\ left \subseteq Publics

ServerInit ==
  /\ acceptor = Idle
  /\ clients = {}
  /\ older = [p \in Publics |-> {}]
  /\ lastActivity = [p \in Publics |-> 0]
  /\ tx = [p \in Publics |-> "none"]
  /\ mailbox = [p \in Publics |-> None]
  /\ handler = [s \in Sessions |-> "none"]
  /\ cur = [s \in Sessions |-> None]
  /\ since = [s \in Sessions |-> 0]
  /\ broken = {}
  /\ public = [p \in Publics |-> "away"]
  /\ spoke = {}
  /\ left = {}

-----------------------------------------------------------------------------
(* The accept loop: one connection at a time, peek and all.                *)

\* listener.accept(); the backlog's order is left open.
Accept(c) ==
  /\ acceptor.at = "accept"
  /\ conn[c] = "queued"
  /\ conn' = [conn EXCEPT ![c] = "accepting"]
  /\ acceptor' = Hold("peek", c, None)
  /\ UNCHANGED <<now, said, hung, control, handshakeId, home>>
  /\ UNCHANGED <<registryVars, handlerVars, publicVars>>

\* The peek saw "CALLBACK <id>"; the line is read and discarded, and the loop
\* goes on to look the id up.
PeekCallback(c) ==
  /\ acceptor.at = "peek" /\ acceptor.stream = c
  /\ c \in Publics /\ c \in said
  /\ acceptor' = Hold("take", c, None)
  /\ UNCHANGED wireVars
  /\ UNCHANGED <<registryVars, handlerVars, publicVars>>

\* Anything else is taken for a registration and gets a handle_client task.
\* A session's REGISTER (or its EOF) is served there; of any other connection
\* the task reads one invalid line or EOF, and ends.
PeekOther(c) ==
  /\ acceptor.at = "peek" /\ acceptor.stream = c
  /\ c \in said \cup hung
  /\ ~(c \in Publics /\ c \in said)
  /\ acceptor' = Idle
  /\ conn' = [conn EXCEPT ![c] = IF c \in Sessions THEN "serving" ELSE "closed"]
  /\ handler' = IF c \in Sessions THEN [handler EXCEPT ![c] = "start"] ELSE handler
  /\ UNCHANGED <<now, said, hung, control, handshakeId, home>>
  /\ UNCHANGED <<registryVars, cur, since, broken, publicVars>>

\* The ids one peek may read from the callback line of c: the whole id, or the
\* id with its port cut short when the line arrives in pieces.
SeenIds(c) == {<<handshakeId[c][1], port>> : port \in PortViews[handshakeId[c][2]]}

\* The first entry, in the order of the Vec, whose handshake_id is id.
EntriesOfPort(id) == {f \in clients : handshakeId[f][2] = id[2]}
Entries(id) == {f \in clients : handshakeId[f] = id}
FirstEntry(id) == {f \in Entries(id) : older[f] \cap Entries(id) = {}}

\* The lookup under the lock takes the sender out of the first matching entry
\* and refreshes the entry; it stops there even when the sender is gone.
TakeSender(c) ==
  /\ acceptor.at = "take" /\ acceptor.stream = c
  /\ \E id \in SeenIds(c) : \E f \in FirstEntry(id) :
       /\ lastActivity' = [lastActivity EXCEPT ![f] = now]
       /\ IF tx[f] = "held"
            THEN /\ tx' = [tx EXCEPT ![f] = "taken"]
                 /\ acceptor' = Hold("send", c, f)
                 /\ conn' = conn
            ELSE /\ tx' = tx
                 /\ acceptor' = Idle
                 /\ conn' = [conn EXCEPT ![c] = "closed"]
  /\ UNCHANGED <<now, said, hung, control, handshakeId, home, clients, older, mailbox>>
  /\ UNCHANGED <<handlerVars, publicVars>>

\* "No waiting handler found": the stream is dropped.
NoEntry(c) ==
  /\ acceptor.at = "take" /\ acceptor.stream = c
  /\ \E id \in SeenIds(c) : Entries(id) = {}
  /\ acceptor' = Idle
  /\ conn' = [conn EXCEPT ![c] = "closed"]
  /\ UNCHANGED <<now, said, hung, control, handshakeId, home>>
  /\ UNCHANGED <<registryVars, handlerVars, publicVars>>

\* The receiver lives from the channel's creation to the end of the wait.
ReceiverAlwaysAlive(f) == TRUE
ReceiverAlive(f) ==
  \E s \in Sessions : cur[s] = f /\ handler[s] \in {"connect", "await"}

\* tx.send(stream), outside the lock.
Send(c) ==
  /\ acceptor.at = "send" /\ acceptor.stream = c
  /\ acceptor' = Idle
  /\ LET f == acceptor.sender IN
       IF ReceiverAlive(f)
         THEN /\ mailbox' = [mailbox EXCEPT ![f] = c]
              /\ conn' = [conn EXCEPT ![c] = "delivered"]
         ELSE /\ mailbox' = mailbox
              /\ conn' = [conn EXCEPT ![c] = "closed"]
  /\ UNCHANGED <<now, said, hung, control, handshakeId, home>>
  /\ UNCHANGED <<clients, older, lastActivity, tx, handlerVars, publicVars>>

-----------------------------------------------------------------------------
(* The registry.                                                           *)

Age(p) == now - lastActivity[p]

\* retain drops entries, and a dropped entry drops the sender it still holds.
SendersWithout(ps) ==
  [p \in Publics |-> IF p \in ps /\ tx[p] = "held" THEN "dropped" ELSE tx[p]]
OlderWithout(ps) == [p \in Publics |-> IF p \in ps THEN {} ELSE older[p] \ ps]
ActivityWithout(ps) == [p \in Publics |-> IF p \in ps THEN 0 ELSE lastActivity[p]]

RemoveEntries(ps) ==
  /\ clients' = clients \ ps
  /\ tx' = SendersWithout(ps)
  /\ older' = OlderWithout(ps)
  /\ lastActivity' = ActivityWithout(ps)

\* The 60 s task; it may run at any moment.
ExpiredAnyAge == {p \in clients : tx[p] = "held"}
Expired == {p \in clients : Age(p) >= Retention}
PeriodicCleanup ==
  /\ Expired # {}
  /\ RemoveEntries(Expired)
  /\ UNCHANGED wireVars
  /\ UNCHANGED <<mailbox, acceptVars, handlerVars, publicVars>>

StaleOneSooner == {p \in clients : Age(p) >= StaleAfter /\ tx[p] = "held"}
Stale == {p \in clients : Age(p) > StaleAfter /\ tx[p] = "held"}

-----------------------------------------------------------------------------
(* handle_client.                                                          *)

Goto(s, step) == handler' = [handler EXCEPT ![s] = step]
StopTimer(s) == since' = [since EXCEPT ![s] = 0]

Bound(s) == handler[s] \notin {"none", "start", "gone"}

\* REGISTER read and parsed; the public port is free.
Bind(s) ==
  /\ handler[s] = "start" /\ s \in said
  /\ \A t \in Sessions : Bound(t) => PortOf[t] # PortOf[s]
  /\ Goto(s, "listen")
  /\ UNCHANGED wireVars
  /\ UNCHANGED <<acceptVars, registryVars, cur, since, broken, publicVars>>

\* "ERROR: Public port in use", and the control connection is dropped.
Refuse(s) ==
  /\ handler[s] = "start" /\ s \in said
  /\ \E t \in Sessions : Bound(t) /\ PortOf[t] = PortOf[s]
  /\ Goto(s, "gone")
  /\ Write(s, Error)
  /\ conn' = [conn EXCEPT ![s] = "closed"]
  /\ UNCHANGED <<now, said, hung, handshakeId, home>>
  /\ UNCHANGED <<acceptVars, registryVars, cur, since, broken, publicVars>>

\* The client closed before it sent a line.
StartEof(s) ==
  /\ handler[s] = "start" /\ s \notin said /\ s \in hung
  /\ Goto(s, "gone")
  /\ conn' = [conn EXCEPT ![s] = "closed"]
  /\ UNCHANGED <<now, said, hung, control, handshakeId, home>>
  /\ UNCHANGED <<acceptVars, registryVars, cur, since, broken, publicVars>>

AcceptPublicReadyFirst(s, p) ==
  /\ handler[s] = "listen"
  /\ public[p] = "queued" /\ home[p] = s
  /\ Goto(s, "reading")
  /\ Write(s, Ready)
  /\ cur' = [cur EXCEPT ![s] = p]
  /\ since' = [since EXCEPT ![s] = now]
  /\ public' = [public EXCEPT ![p] = "serving"]
  /\ UNCHANGED <<now, conn, said, hung, handshakeId, home>>
  /\ UNCHANGED <<acceptVars, registryVars, broken, spoke, left>>

\* The accept branch of select!; the wait for the first bytes begins.
AcceptPublic(s, p) ==
  /\ handler[s] = "listen"
  /\ public[p] = "queued" /\ home[p] = s
  /\ Goto(s, "reading")
  /\ cur' = [cur EXCEPT ![s] = p]
  /\ since' = [since EXCEPT ![s] = now]
  /\ public' = [public EXCEPT ![p] = "serving"]
  /\ UNCHANGED wireVars
  /\ UNCHANGED <<acceptVars, registryVars, broken, spoke, left>>

\* The disconnect branch of select!, polled only here: the listener goes, and
\* with it the connections of its backlog.
SeesDisconnect(s) ==
  /\ handler[s] = "listen" /\ s \in hung
  /\ Goto(s, "gone")
  /\ conn' = [conn EXCEPT ![s] = "closed"]
  /\ public' = [p \in Publics |-> IF public[p] = "queued" /\ home[p] = s
                                    THEN "dropped" ELSE public[p]]
  /\ UNCHANGED <<now, said, hung, control, handshakeId, home>>
  /\ UNCHANGED <<acceptVars, registryVars, cur, since, broken, spoke, left>>

ReadFirstBytes(s) ==
  /\ handler[s] = "reading" /\ cur[s] \in spoke
  /\ Goto(s, "ready")
  /\ StopTimer(s)
  /\ UNCHANGED wireVars
  /\ UNCHANGED <<acceptVars, registryVars, cur, broken, publicVars>>

\* `continue`: the public stream is dropped, the handler listens again.
GiveUp(s) ==
  /\ Goto(s, "listen")
  /\ cur' = [cur EXCEPT ![s] = None]
  /\ public' = [public EXCEPT ![cur[s]] = "dropped"]

ReadTimer == 2 * ConnectionTimeout
ReadExpired(s) == handler[s] = "reading" /\ now - since[s] >= ReadTimer

\* EOF, an error or the timeout of connection_timeout * 2 before any byte.
NoFirstBytes(s) ==
  /\ handler[s] = "reading" /\ cur[s] \notin spoke
  /\ cur[s] \in left \/ ReadExpired(s)
  /\ GiveUp(s)
  /\ StopTimer(s)
  /\ UNCHANGED wireVars
  /\ UNCHANGED <<acceptVars, registryVars, broken, spoke, left>>

\* A write fails only on a connection whose peer is gone, and then ever after.
MayWrite(s) == s \notin broken
MayFail(s) == s \in hung

WriteReady(s) ==
  /\ handler[s] = "ready" /\ MayWrite(s)
  /\ Write(s, Ready)
  /\ Goto(s, "register")
  /\ UNCHANGED <<now, conn, said, hung, handshakeId, home>>
  /\ UNCHANGED <<acceptVars, registryVars, cur, since, broken, publicVars>>

WriteReadyFails(s) ==
  /\ handler[s] = "ready" /\ MayFail(s)
  /\ broken' = broken \cup {s}
  /\ GiveUp(s)
  /\ UNCHANGED wireVars
  /\ UNCHANGED <<acceptVars, registryVars, since, spoke, left>>

TimeOnlyId(s) == <<now, CHOOSE port \in Ports : TRUE>>
NewId(s) == <<now, PortOf[s]>>

\* The id is made from the clock and the port; under the lock, entries gone
\* stale with their sender are evicted and the new entry is pushed.
Register(s) ==
  /\ handler[s] = "register"
  /\ LET p == cur[s] IN
       /\ handshakeId' = [handshakeId EXCEPT ![p] = NewId(s)]
       /\ clients' = (clients \ Stale) \cup {p}
       /\ older' = [OlderWithout(Stale) EXCEPT ![p] = clients \ Stale]
       /\ lastActivity' = [ActivityWithout(Stale) EXCEPT ![p] = now]
       /\ tx' = [SendersWithout(Stale) EXCEPT ![p] = "held"]
  /\ Goto(s, "connect")
  /\ UNCHANGED <<now, conn, said, hung, control, home, mailbox>>
  /\ UNCHANGED <<acceptVars, cur, since, broken, publicVars>>

WriteConnect(s) ==
  /\ handler[s] = "connect" /\ MayWrite(s)
  /\ Write(s, Connect(cur[s]))
  /\ Goto(s, "await")
  /\ since' = [since EXCEPT ![s] = now]
  /\ UNCHANGED <<now, conn, said, hung, handshakeId, home>>
  /\ UNCHANGED <<acceptVars, registryVars, cur, broken, publicVars>>

\* `continue` leaves the entry of this handshake in the registry, and drops the
\* receiver with whatever it was sent.
WriteConnectFails(s) ==
  /\ handler[s] = "connect" /\ MayFail(s)
  /\ broken' = broken \cup {s}
  /\ GiveUp(s)
  /\ conn' = Closed({mailbox[cur[s]]} \cap Conns)
  /\ UNCHANGED <<now, said, hung, control, handshakeId, home>>
  /\ UNCHANGED <<acceptVars, registryVars, since, spoke, left>>

AwaitExpiredEarly(s) == handler[s] = "await" /\ now - since[s] + 1 >= ConnectionTimeout
AwaitExpired(s) == handler[s] = "await" /\ now - since[s] >= ConnectionTimeout

EndAwaitNoTimeout(s) ==
  /\ handler[s] = "await"
  /\ mailbox[cur[s]] # None \/ tx[cur[s]] = "dropped"
  /\ Goto(s, "cleanup")
  /\ StopTimer(s)
  /\ UNCHANGED wireVars
  /\ UNCHANGED <<acceptVars, registryVars, cur, broken, publicVars>>

\* The wait for the callback ends: with the stream (looked at before the
\* deadline is), because the sender was dropped, or at the timeout.
EndAwait(s) ==
  /\ handler[s] = "await"
  /\ \/ mailbox[cur[s]] # None
     \/ tx[cur[s]] = "dropped"
     \/ AwaitExpired(s)
  /\ Goto(s, "cleanup")
  /\ StopTimer(s)
  /\ UNCHANGED wireVars
  /\ UNCHANGED <<acceptVars, registryVars, cur, broken, publicVars>>

CleanupOnSuccessOnly(s) ==
  /\ handler[s] = "cleanup"
  /\ LET p == cur[s] IN
       /\ RemoveEntries(IF mailbox[p] # None THEN Entries(handshakeId[p]) ELSE {})
       /\ public' = [public EXCEPT ![p] =
                       IF mailbox[p] # None THEN "proxied" ELSE "dropped"]
  /\ cur' = [cur EXCEPT ![s] = None]
  /\ Goto(s, "listen")
  /\ UNCHANGED wireVars
  /\ UNCHANGED <<acceptVars, mailbox, since, broken, spoke, left>>

CleanupOnTaken(s) ==
  /\ handler[s] = "cleanup"
  /\ LET p == cur[s] IN
       /\ RemoveEntries(Entries(handshakeId[p]))
       /\ public' = [public EXCEPT ![p] =
                       IF tx[p] = "taken" THEN "proxied" ELSE "dropped"]
  /\ cur' = [cur EXCEPT ![s] = None]
  /\ Goto(s, "listen")
  /\ UNCHANGED wireVars
  /\ UNCHANGED <<acceptVars, mailbox, since, broken, spoke, left>>

\* Every entry with this handshake's id is removed; the two connections are
\* handed to handle_public_connection, or the public one is dropped.
Cleanup(s) ==
  /\ handler[s] = "cleanup"
  /\ LET p == cur[s] IN
       /\ RemoveEntries(Entries(handshakeId[p]))
       /\ public' = [public EXCEPT ![p] =
                       IF mailbox[p] # None THEN "proxied" ELSE "dropped"]
  /\ cur' = [cur EXCEPT ![s] = None]
  /\ Goto(s, "listen")
  /\ UNCHANGED wireVars
  /\ UNCHANGED <<acceptVars, mailbox, since, broken, spoke, left>>

-----------------------------------------------------------------------------
(* Outside users and stray connections.                                    *)

ArrivesAtPort(p, s) ==
  /\ public[p] = "away" /\ Bound(s)
  /\ public' = [public EXCEPT ![p] = "queued"]
  /\ home' = [home EXCEPT ![p] = PortOf[s]]
  /\ UNCHANGED <<now, conn, said, hung, control, handshakeId>>
  /\ UNCHANGED <<acceptVars, registryVars, handlerVars, spoke, left>>

Arrives(p, s) ==
  /\ public[p] = "away" /\ Bound(s)
  /\ public' = [public EXCEPT ![p] = "queued"]
  /\ home' = [home EXCEPT ![p] = s]
  /\ UNCHANGED <<now, conn, said, hung, control, handshakeId>>
  /\ UNCHANGED <<acceptVars, registryVars, handlerVars, spoke, left>>

Speaks(p) ==
  /\ public[p] \in {"queued", "serving"} /\ p \notin spoke \cup left
  /\ spoke' = spoke \cup {p}
  /\ UNCHANGED wireVars
  /\ UNCHANGED <<acceptVars, registryVars, handlerVars, public, left>>

Leaves(p) ==
  /\ public[p] \in {"queued", "serving"} /\ p \notin spoke \cup left
  /\ left' = left \cup {p}
  /\ UNCHANGED wireVars
  /\ UNCHANGED <<acceptVars, registryVars, handlerVars, public, spoke>>

ProbeConnects(c) ==
  /\ c \in Probes /\ conn[c] = "none"
  /\ conn' = [conn EXCEPT ![c] = "queued"]
  /\ UNCHANGED <<now, said, hung, control, handshakeId, home, serverVars>>

ProbeSpeaks(c) ==
  /\ c \in Probes /\ conn[c] \in {"queued", "accepting"} /\ c \notin said \cup hung
  /\ said' = said \cup {c}
  /\ UNCHANGED <<now, conn, hung, control, handshakeId, home, serverVars>>

ProbeHangsUp(c) ==
  /\ c \in Probes /\ conn[c] \in {"queued", "accepting"} /\ c \notin hung
  /\ hung' = hung \cup {c}
  /\ UNCHANGED <<now, conn, said, control, handshakeId, home, serverVars>>

-----------------------------------------------------------------------------
AcceptorStep ==
  \E c \in Conns : \/ Accept(c) \/ PeekCallback(c) \/ PeekOther(c)
                   \/ TakeSender(c) \/ NoEntry(c) \/ Send(c)

HandlerStepOf(s) ==
  \/ Bind(s) \/ Refuse(s) \/ StartEof(s)
  \/ \E p \in Publics : AcceptPublic(s, p)
  \/ SeesDisconnect(s)
  \/ ReadFirstBytes(s) \/ NoFirstBytes(s)
  \/ WriteReady(s) \/ WriteReadyFails(s)
  \/ Register(s)
  \/ WriteConnect(s) \/ WriteConnectFails(s)
  \/ EndAwait(s) \/ Cleanup(s)

OutsideStep ==
  \/ \E p \in Publics : \/ \E s \in Sessions : Arrives(p, s)
                        \/ Speaks(p) \/ Leaves(p)
  \/ \E c \in Probes : ProbeConnects(c) \/ ProbeSpeaks(c) \/ ProbeHangsUp(c)
=============================================================================
