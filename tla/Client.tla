------------------------------- MODULE Client -------------------------------
(***************************************************************************)
(* The tunnel client: connect_and_serve (client/handlers/connection.rs),   *)
(* its control loop, the callback connections it makes, the tasks it       *)
(* spawns for them, and the set of active sessions it keeps.               *)
(***************************************************************************)
EXTENDS Wire

CONSTANTS ConnectWindow,   \* 1 s: how long CONNECT may follow READY
          SweepAbove,      \* 10: size above which the 60 s task clears the set
          MaxActive,       \* 100: size at which CONNECT clears the set first
          Faults           \* the faults below that an instance lets happen

ASSUME ClientAssumption ==
  /\ ConnectWindow \in Nat
  /\ SweepAbove \in Nat
  /\ MaxActive \in Nat
  /\ Faults \subseteq {"dial", "callback", "cut", "read", "crash"}

VARIABLES client,           \* where each connect_and_serve is
          csince,           \* when its wait for CONNECT was started
          dialing,          \* the public it is connecting back for
          activeSessions,   \* active_sessions: a set of handshake ids
          task              \* the proxy task spawned for each public

clientVars == <<client, csince, dialing, activeSessions, task>>

ClientTypeOK ==
  /\ client \in [Sessions -> {"idle", "register", "ready", "connect", "dial", "write", "down"}]
  /\ csince \in [Sessions -> Nat]
  /\ dialing \in [Sessions -> Publics \cup {None}]
  /\ activeSessions \in [Sessions -> SUBSET (Ids \cup {NoId})]
  /\ task \in [Publics -> {"none", "running", "ended"}]

ClientInit ==
  /\ client = [s \in Sessions |-> "idle"]
  /\ csince = [s \in Sessions |-> 0]
  /\ dialing = [s \in Sessions |-> None]
  /\ activeSessions = [s \in Sessions |-> {}]
  /\ task = [p \in Publics |-> "none"]

\* Leaving the wait for CONNECT ends its timer.
Move(s, step) ==
  /\ client' = [client EXCEPT ![s] = step]
  /\ csince' = [csince EXCEPT ![s] = IF step = "connect" THEN now ELSE 0]

\* TcpStream::connect: the kernel completes it as soon as the backlog holds it.
Start(s) ==
  /\ client[s] = "idle"
  /\ Move(s, "register")
  /\ conn' = [conn EXCEPT ![s] = "queued"]
  /\ UNCHANGED <<now, said, hung, control, handshakeId, home>>
  /\ UNCHANGED <<dialing, activeSessions, task>>

WriteRegister(s) ==
  /\ client[s] = "register"
  /\ said' = said \cup {s}
  /\ Move(s, "ready")
  /\ UNCHANGED <<now, conn, hung, control, handshakeId, home>>
  /\ UNCHANGED <<dialing, activeSessions, task>>

\* read_line delivers the next whole line.
Reads(s, verb) ==
  /\ control[s] # <<>> /\ Head(control[s]).verb = verb
  /\ control' = [control EXCEPT ![s] = Tail(@)]

\* READY: wait for CONNECT, for one second.
ReadReady(s) ==
  /\ client[s] = "ready" /\ Reads(s, "READY")
  /\ Move(s, "connect")
  /\ UNCHANGED <<now, conn, said, hung, handshakeId, home>>
  /\ UNCHANGED <<dialing, activeSessions, task>>

\* Any other line is ignored where READY is expected, and where CONNECT is
\* expected it is reported and the loop starts over.
ReadOther(s) ==
  /\ \/ client[s] = "ready" /\ \E verb \in {"CONNECT", "ERROR", "JUNK"} : Reads(s, verb)
     \/ client[s] = "connect" /\ \E verb \in {"READY", "ERROR", "JUNK"} : Reads(s, verb)
  /\ Move(s, "ready")
  /\ UNCHANGED <<now, conn, said, hung, handshakeId, home>>
  /\ UNCHANGED <<dialing, activeSessions, task>>

ReadConnectOneMore(s) ==
  /\ client[s] = "connect" /\ Reads(s, "CONNECT")
  /\ LET p == Head(control[s]).pub
         kept == IF Cardinality(activeSessions[s]) > MaxActive
                   THEN {} ELSE activeSessions[s] IN
       /\ activeSessions' = [activeSessions EXCEPT ![s] = kept \cup {handshakeId[p]}]
       /\ dialing' = [dialing EXCEPT ![s] = p]
  /\ Move(s, "dial")
  /\ UNCHANGED <<now, conn, said, hung, handshakeId, home, task>>

\* CONNECT <id>: a full set is emptied, the id goes in, the client connects back.
ReadConnect(s) ==
  /\ client[s] = "connect" /\ Reads(s, "CONNECT")
  /\ LET p == Head(control[s]).pub
         kept == IF Cardinality(activeSessions[s]) >= MaxActive
                   THEN {} ELSE activeSessions[s] IN
       /\ activeSessions' = [activeSessions EXCEPT ![s] = kept \cup {handshakeId[p]}]
       /\ dialing' = [dialing EXCEPT ![s] = p]
  /\ Move(s, "dial")
  /\ UNCHANGED <<now, conn, said, hung, handshakeId, home, task>>

ConnectExpiredEarly(s) == client[s] = "connect" /\ now - csince[s] + 1 >= ConnectWindow
ConnectExpired(s) == client[s] = "connect" /\ now - csince[s] >= ConnectWindow

\* No CONNECT within the window: back to waiting for READY.  The line may be on
\* its way all the same.
ConnectTimeout(s) ==
  /\ ConnectExpired(s)
  /\ Move(s, "ready")
  /\ UNCHANGED <<wireVars, dialing, activeSessions, task>>

\* The connection of the callback; a small delay may come first.
Dial(s) ==
  /\ client[s] = "dial"
  /\ conn' = [conn EXCEPT ![dialing[s]] = "queued"]
  /\ Move(s, "write")
  /\ UNCHANGED <<now, said, hung, control, handshakeId, home>>
  /\ UNCHANGED <<dialing, activeSessions, task>>

\* CALLBACK <id> written: the stream goes to a task of its own.
WriteCallback(s) ==
  /\ client[s] = "write"
  /\ said' = said \cup {dialing[s]}
  /\ task' = [task EXCEPT ![dialing[s]] = "running"]
  /\ dialing' = [dialing EXCEPT ![s] = None]
  /\ Move(s, "ready")
  /\ UNCHANGED <<now, conn, hung, control, handshakeId, home, activeSessions>>

Down(s) == Move(s, "down") /\ hung' = hung \cup {s}

\* The server gone, both reads return EOF once the lines in flight are read.
\* connect_and_serve returns an error; its tasks live on.
Eof(s) ==
  /\ client[s] \in {"ready", "connect"}
  /\ control[s] = <<>> /\ conn[s] = "closed"
  /\ Down(s)
  /\ UNCHANGED <<now, conn, said, control, handshakeId, home>>
  /\ UNCHANGED <<dialing, activeSessions, task>>

\* The proxy task of p is over (backend refused, one end closed, an error).
TaskEnds(s, p) ==
  /\ task[p] = "running" /\ home[p] = s
  /\ task' = [task EXCEPT ![p] = "ended"]
  /\ activeSessions' = [activeSessions EXCEPT ![s] = @ \ {handshakeId[p]}]
  /\ UNCHANGED <<wireVars, client, csince, dialing>>

\* The 60 s task of active_sessions; it may run at any moment.
SweepActive(s) ==
  /\ Cardinality(activeSessions[s]) > SweepAbove
  /\ activeSessions' = [activeSessions EXCEPT ![s] = {}]
  /\ UNCHANGED <<wireVars, client, csince, dialing, task>>

-----------------------------------------------------------------------------
(* What the network and the operator may do to a client.                   *)

\* The connection back is refused, or not made within the timeout: the id stays
\* in active_sessions.
DialFails(s) ==
  /\ client[s] = "dial"
  /\ Move(s, "ready")
  /\ dialing' = [dialing EXCEPT ![s] = None]
  /\ UNCHANGED <<wireVars, activeSessions, task>>

\* The CALLBACK line cannot be written: the stream is dropped, the id stays.
WriteCallbackFails(s) ==
  /\ client[s] = "write"
  /\ hung' = hung \cup {dialing[s]}
  /\ dialing' = [dialing EXCEPT ![s] = None]
  /\ Move(s, "ready")
  /\ UNCHANGED <<now, conn, said, control, handshakeId, home, activeSessions, task>>

\* A one-second timeout strikes while part of a line has been read: read_line
\* loses that part, and the rest is read later as a line of its own.
CutLine(s) ==
  /\ client[s] \in {"ready", "connect"}
  /\ control[s] # <<>>
  /\ control' = [control EXCEPT ![s] = <<Junk>> \o Tail(@)]
  /\ Move(s, "ready")
  /\ UNCHANGED <<now, conn, said, hung, handshakeId, home>>
  /\ UNCHANGED <<dialing, activeSessions, task>>

\* The control connection breaks: reading it fails, like EOF does.
ReadFails(s) ==
  /\ client[s] \in {"ready", "connect"}
  /\ Down(s)
  /\ UNCHANGED <<now, conn, said, control, handshakeId, home>>
  /\ UNCHANGED <<dialing, activeSessions, task>>

\* The client process dies, or is stopped, with its tasks and connections.
Crash(s) ==
  /\ client[s] \notin {"idle", "down"}
  /\ Move(s, "down")
  /\ hung' = hung \cup {s} \cup ({dialing[s]} \cap Publics)
  /\ dialing' = [dialing EXCEPT ![s] = None]
  /\ activeSessions' = [activeSessions EXCEPT ![s] = {}]
  /\ task' = [p \in Publics |-> IF task[p] = "running" /\ home[p] = s
                                  THEN "ended" ELSE task[p]]
  /\ UNCHANGED <<now, conn, said, control, handshakeId, home>>

ClientStep(s) ==
  \/ Start(s) \/ WriteRegister(s)
  \/ ReadReady(s) \/ ReadOther(s) \/ ReadConnect(s) \/ ConnectTimeout(s)
  \/ Dial(s) \/ WriteCallback(s) \/ Eof(s)

TaskStep(s) == SweepActive(s) \/ \E p \in Publics : TaskEnds(s, p)

ClientFault(s) ==
  \/ "dial" \in Faults /\ DialFails(s)
  \/ "callback" \in Faults /\ WriteCallbackFails(s)
  \/ "cut" \in Faults /\ CutLine(s)
  \/ "read" \in Faults /\ ReadFails(s)
  \/ "crash" \in Faults /\ Crash(s)
=============================================================================
