------------------------------- MODULE Tunnel -------------------------------
(***************************************************************************)
(* The whole tunnel up to the relay: the server, its clients, the outside  *)
(* users, and time.  What it must achieve is stated here: every public     *)
(* connection is joined to the callback made for it, and to no other.      *)
(***************************************************************************)
EXTENDS Server, Client

CONSTANT MaxTime   \* past it, the clock runs only for a handler's timer

ASSUME TunnelAssumption == MaxTime \in Nat

vars == <<wireVars, serverVars, clientVars>>

TypeOK == WireTypeOK /\ ServerTypeOK /\ ClientTypeOK

Init == WireInit /\ ServerInit /\ ClientInit

TimerPending(s) == handler[s] \in {"reading", "await"} /\ ~ReadExpired(s) /\ ~AwaitExpired(s)

Tick ==
  /\ now < MaxTime \/ \E s \in Sessions : TimerPending(s)
  /\ now' = now + 1
  /\ UNCHANGED <<conn, said, hung, control, handshakeId, home, serverVars, clientVars>>

\* What the runtime schedules: the accept loop, each handler, each client.
Acceptor   == AcceptorStep /\ UNCHANGED clientVars
Handler(s) == HandlerStepOf(s) /\ UNCHANGED clientVars
Control(s) == ClientStep(s) /\ UNCHANGED serverVars
SystemStep == Acceptor \/ \E s \in Sessions : Handler(s) \/ Control(s)

\* Every session over, or waiting for a user, and every public settled: nothing
\* is left to happen.
Finished ==
  /\ \A s \in Sessions : \/ client[s] = "down" /\ handler[s] = "gone"
                         \/ client[s] = "ready" /\ handler[s] = "listen"
  /\ \A p \in Publics : public[p] \notin {"queued", "serving"}
  /\ UNCHANGED vars

\* What comes from outside, and what may come at any time.
OtherStep ==
  \/ (PeriodicCleanup \/ OutsideStep) /\ UNCHANGED clientVars
  \/ \E s \in Sessions : (TaskStep(s) \/ ClientFault(s)) /\ UNCHANGED serverVars

Next == SystemStep \/ OtherStep \/ Tick \/ Finished

Spec == Init /\ [][Next]_vars

\* tokio runs every task that can run, and time goes on.
Fairness ==
  /\ WF_vars(Acceptor)
  /\ \A s \in Sessions : WF_vars(Handler(s)) /\ WF_vars(Control(s))
  /\ WF_vars(Tick)

FairSpec == Spec /\ Fairness

\* The same system on an idle machine: time passes only when nothing can run.
PromptTick == ~ENABLED SystemStep /\ Tick
PromptNext == SystemStep \/ OtherStep \/ PromptTick \/ Finished
PromptSpec == Init /\ [][PromptNext]_vars /\ Fairness

-----------------------------------------------------------------------------
(* Safety.                                                                 *)

\* README.md "Architecture" 4: the stream that reaches a handshake's waiter is
\* the callback its own client made for it, never another session's.
MatchedToOwn == \A p \in Publics : mailbox[p] \in {p, None}

\* The handshake of p is younger than the timeout that ends it.
InTime(p) == now - handshakeId[p][1] < ConnectionTimeout

\* While handle_client waits in time, its sender is where the callback can find
\* it: in its registry entry, in the accept loop's hands, or already used.
WaiterKeepsSender ==
  \A s \in Sessions : handler[s] = "await" /\ InTime(cur[s]) =>
    LET p == cur[s] IN
      \/ p \in clients /\ tx[p] = "held"
      \/ acceptor.sender = p
      \/ mailbox[p] # None

\* A callback looked up while its own handler still waits in time finds a
\* sender: CONNECT is never sent before the entry is there.  (The sender is its
\* own, unless an entry left behind by a failed CONNECT has the very same id.)
CallbackFindsWaiter ==
  \A s \in Sessions : \A p \in Publics :
    /\ acceptor.at = "take" /\ acceptor.stream = p
    /\ cur[s] = p /\ handler[s] \in {"connect", "await"} /\ InTime(p)
    => \E f \in FirstEntry(handshakeId[p]) : tx[f] = "held" /\ (f = p \/ home[f] \in broken)

\* An entry outlives its handshake only where the CONNECT line could not be
\* written: otherwise the handler that pushed it is still at work on it.
EntryHasHandler ==
  \A p \in clients :
    \/ cur[home[p]] = p /\ handler[home[p]] \in {"connect", "await", "cleanup"}
    \/ home[p] \in broken

\* A callback stream given to a handshake's channel is one its handler will
\* join to the public connection: none is lost between send and timeout.
DeliveredIsUsed ==
  \A p \in Publics : mailbox[p] # None =>
    \/ public[p] = "proxied"
    \/ cur[home[p]] = p /\ handler[home[p]] \in {"connect", "await", "cleanup"}
    \/ conn[mailbox[p]] = "closed"

\* The client's two reads stay in step with the server's two writes: whatever
\* was lost or late before, the line it takes for a CONNECT is one.
ConnectIsNext ==
  \A s \in Sessions : client[s] = "connect" /\ control[s] # <<>> =>
    Head(control[s]).verb = "CONNECT"

\* The set of active sessions never grows past the limit CONNECT enforces, though
\* every connect back that fails, and every CALLBACK line that cannot be written,
\* leaves its id there, and only the next CONNECT or the sweep removes it.
ActiveBounded == \A s \in Sessions : Cardinality(activeSessions[s]) <= MaxActive
-----------------------------------------------------------------------------
(* Liveness.                                                               *)

\* handle_client deals with every public connection its port received: one
\* slow or silent user, or a client that is gone, never holds up the next.
EveryPublicSettled ==
  \A p \in Publics : public[p] \in {"queued", "serving"} ~> public[p] \in {"proxied", "dropped"}

\* A stray connection that the accept loop has, or will have, to wait for.
SilentProbe == \E c \in Probes : conn[c] \in {"queued", "accepting"} /\ c \notin said \cup hung

\* A user who has sent a request to the port of a live client reaches it, unless
\* a connection that stays silent holds up the accept loop.
RequestsProxied ==
  \A p \in Publics : public[p] = "queued" /\ p \in spoke ~> public[p] = "proxied" \/ SilentProbe
=============================================================================
