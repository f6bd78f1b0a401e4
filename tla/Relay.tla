-------------------------------- MODULE Relay --------------------------------
(***************************************************************************)
(* One tunnelled session after the handshake: four copy tasks move bytes   *)
(* over three TCP connections,                                             *)
(*                                                                         *)
(*   public user == pub == server == call == client == back == backend     *)
(*                                                                         *)
(* two at the server (server/handlers/tcp.rs, server/proxy.rs) and two at  *)
(* the client (client/handlers/backend.rs, legacy.rs, websocket.rs).       *)
(* Each task owns a read half of one connection and a write half of the    *)
(* other, made by tokio::io::split: dropping one half says nothing to the  *)
(* peer, and only when both tasks of a side are over are its sockets       *)
(* closed.  A chunk is what one read returns; users number theirs.         *)
(***************************************************************************)
EXTENDS Naturals, Sequences, FiniteSets

CONSTANTS MaxChunks,    \* chunks each user may send
          Capacity,     \* chunks one direction of a connection holds in flight
          Modes         \* how the two programs may have been started, and used

\* pooled: the client runs with --use-connection-pool, else in legacy mode;
\* websocket: the first request is a WebSocket upgrade, which each program sees or
\* misses on its own; serverIdle, clientIdle: that program's --idle-timeout is not
\* 0 (the default).
ModeType == [pooled : BOOLEAN, websocket : BOOLEAN, serverIdle : BOOLEAN, clientIdle : BOOLEAN]

ASSUME RelayAssumption ==
  /\ MaxChunks \in Nat \ {0}
  /\ Capacity \in Nat \ {0}
  /\ Modes \subseteq ModeType

VARIABLES sent,      \* how many chunks each user has sent
          got,       \* the chunks each direction has delivered
          pipe,      \* the chunks in flight, per connection and direction
          held,      \* the chunk a task has read and not written, or 0
          ended,     \* the tasks that are over
          phase,     \* how far each side's handler is
          user,      \* the two ends outside the tunnel
          reset,     \* connections on which data reached a closed end
          waiting,   \* legacy mode: the handler's select!, and how it ended
          mode,      \* the options of this session; they never change
          timed      \* the tasks that a timer ended

vars == <<sent, got, pipe, held, ended, phase, user, reset, waiting, mode, timed>>

Dirs  == {"up", "down"}
Links == {"pub", "call", "back"}
Users == {"public", "backend"}
Sides == {"server", "client"}

Tasks == {"server_up", "server_down", "client_up", "client_down"}
TasksOf == [server |-> {"server_up", "server_down"}, client |-> {"client_up", "client_down"}]
Side(t) == IF t \in TasksOf["server"] THEN "server" ELSE "client"
Dir(t)  == IF t \in {"server_up", "client_up"} THEN "up" ELSE "down"
From == [server_up |-> "pub", client_up |-> "call", client_down |-> "back", server_down |-> "call"]
To   == [server_up |-> "call", client_up |-> "back", client_down |-> "call", server_down |-> "pub"]

Upper == [pub |-> "public", call |-> "server", back |-> "client"]
Lower == [pub |-> "server", call |-> "client", back |-> "backend"]
Sender(l, d)   == IF d = "up" THEN Upper[l] ELSE Lower[l]
Receiver(l, d) == IF d = "up" THEN Lower[l] ELSE Upper[l]

Over(side) == TasksOf[side] \subseteq ended

\* The end's socket is closed; it has at least sent a FIN.
HasClosed(e) == IF e \in Users THEN user[e] = "closed" ELSE Over(e)
HasShut(e)   == IF e \in Users THEN user[e] \in {"shut", "closed"} ELSE Over(e)

TypeOK ==
  /\ sent \in [Dirs -> 0 .. MaxChunks]
  /\ got \in [Dirs -> Seq(1 .. MaxChunks)]
  /\ pipe \in [Links -> [Dirs -> Seq(1 .. MaxChunks)]]
  /\ \A l \in Links : \A d \in Dirs : Len(pipe[l][d]) <= Capacity
  /\ held \in [Tasks -> 0 .. MaxChunks]
  /\ ended \subseteq Tasks
  /\ phase \in [Sides -> {"dial", "first", "upgrade", "relay", "websocket"}]
  /\ user \in [Users -> {"away", "open", "shut", "closed"}]
  /\ reset \subseteq Links
  /\ waiting \in {"select", "stopped", "idle"}
  /\ mode \in ModeType
  /\ timed \subseteq ended

\* handle_public_connection starts with the first bytes handle_client read; or
\* nobody waits for the callback any more, the server drops it, and the client
\* serves a connection that is already over.
Init ==
  /\ \E waiter \in BOOLEAN :
       /\ sent = [d \in Dirs |-> IF d = "up" /\ waiter THEN 1 ELSE 0]
       /\ held = [t \in Tasks |-> IF t = "server_up" /\ waiter THEN 1 ELSE 0]
       /\ ended = IF waiter THEN {} ELSE TasksOf["server"]
       /\ user = [u \in Users |-> IF u = "public" /\ waiter THEN "open" ELSE "away"]
  /\ got = [d \in Dirs |-> <<>>]
  /\ pipe = [l \in Links |-> [d \in Dirs |-> <<>>]]
  /\ phase = [side \in Sides |-> IF side = "server" THEN "first" ELSE "dial"]
  /\ reset = {}
  /\ waiting = "select"
  /\ mode \in Modes
  /\ timed = {}

-----------------------------------------------------------------------------
(* Connections.                                                            *)

\* Closing an end drops what was in flight to it, and resets the connection if
\* anything was.
CloseEnds(es) ==
  /\ pipe' = [l \in Links |-> [d \in Dirs |->
                IF Receiver(l, d) \in es THEN <<>> ELSE pipe[l][d]]]
  /\ reset' = reset \cup {l \in Links : \E d \in Dirs :
                              Receiver(l, d) \in es /\ pipe[l][d] # <<>>}

-----------------------------------------------------------------------------
(* The copy tasks.                                                         *)

\* The two tasks run: with the timers of a plain relay, or as a WebSocket.
Spawned(side) == phase[side] \in {"relay", "websocket"}

Active(t) ==
  /\ t \notin ended
  /\ \/ Spawned(Side(t))
     \/ phase[Side(t)] = "first" /\ Dir(t) = "up"
     \/ phase[Side(t)] = "upgrade" /\ Dir(t) = "down"

\* A task that is over drops its two halves; an error before the tasks are
\* spawned ends the whole handler.  The last half dropped closes the sockets.
EndTasks(ts) ==
  /\ ended' = ended \cup ts
  /\ held' = [t \in Tasks |-> IF t \in ts THEN 0 ELSE held[t]]
  /\ CloseEnds({side \in Sides : ~Over(side) /\ TasksOf[side] \subseteq ended \cup ts})

\* legacy.rs: a task's last act is to send to the stop channel, of capacity one,
\* which the handler reads once: in its select!, and never after the idle branch.
\* Until the channel takes the message the task keeps its halves.
ClientEnded == ended \cap TasksOf["client"]
StopNeverRead == ClientEnded # {}
StopUnread == ClientEnded # {} /\ waiting # "stopped"
CanStop(t) == Side(t) = "client" /\ ~mode.pooled /\ phase["client"] = "relay" => ~StopUnread

StopBoth(t) == EndTasks(TasksOf[Side(t)])
Stop(t) ==
  /\ CanStop(t)
  /\ EndTasks(IF Spawned(Side(t)) THEN {t} ELSE TasksOf[Side(t)])

Input(t) == pipe[From[t]][Dir(t)]
AtEof(t) == Input(t) = <<>> /\ HasShut(Sender(From[t], Dir(t)))

Read(t) ==
  /\ Active(t) /\ held[t] = 0 /\ Input(t) # <<>>
  /\ held' = [held EXCEPT ![t] = Head(Input(t))]
  /\ pipe' = [pipe EXCEPT ![From[t]][Dir(t)] = Tail(@)]
  /\ UNCHANGED <<sent, got, ended, phase, user, reset, waiting, mode, timed>>

\* EOF, or a read error on a connection that was reset.
ReadEnds(t) ==
  /\ Active(t) /\ held[t] = 0
  /\ AtEof(t) \/ From[t] \in reset
  /\ ~(phase[Side(t)] = "first" /\ AtEof(t))
  /\ Stop(t)
  /\ UNCHANGED <<sent, got, phase, user, waiting, mode, timed>>

\* The client's first read returns 0: "just a notification of connection", and
\* the tasks are spawned all the same.
FirstReadEmpty ==
  /\ phase["client"] = "first" /\ Active("client_up") /\ held["client_up"] = 0
  /\ AtEof("client_up")
  /\ phase' = [phase EXCEPT !["client"] = "relay"]
  /\ UNCHANGED <<sent, got, pipe, held, ended, user, reset, waiting, mode, timed>>

\* Each program looks for an upgrade in its own first read, and one whose read ended
\* within the head relays it like any other bytes.  In pool mode the client then
\* awaits the answer, and goes on as a plain relay when that is no upgrade after all.
Upgraded(side) ==
  IF side = "client" /\ mode.pooled /\ phase[side] # "upgrade" THEN "upgrade" ELSE "websocket"
NextPhases(side) ==
  IF Spawned(side) THEN {phase[side]}
  ELSE {"relay"} \cup (IF mode.websocket THEN {Upgraded(side)} ELSE {})

EnterNextPhase(t) == \E next \in NextPhases(Side(t)) : phase' = [phase EXCEPT ![Side(t)] = next]

WrittenTwice(t) ==
  /\ held' = IF Spawned(Side(t)) THEN [held EXCEPT ![t] = 0] ELSE held
  /\ EnterNextPhase(t)
Written(t) ==
  /\ held' = [held EXCEPT ![t] = 0]
  /\ EnterNextPhase(t)

Output(t) == pipe[To[t]][Dir(t)]

WriteWithoutWaiting(t) ==
  /\ Active(t) /\ held[t] # 0 /\ To[t] \notin reset
  /\ ~HasClosed(Receiver(To[t], Dir(t)))
  /\ pipe' = [pipe EXCEPT ![To[t]][Dir(t)] = Append(@, held[t])]
  /\ Written(t)
  /\ UNCHANGED <<sent, got, ended, user, reset, waiting, mode, timed>>

\* write_all waits while the connection is full.
Write(t) ==
  /\ Active(t) /\ held[t] # 0 /\ To[t] \notin reset
  /\ ~HasClosed(Receiver(To[t], Dir(t)))
  /\ Len(Output(t)) < Capacity
  /\ pipe' = [pipe EXCEPT ![To[t]][Dir(t)] = Append(@, held[t])]
  /\ Written(t)
  /\ UNCHANGED <<sent, got, ended, user, reset, waiting, mode, timed>>

\* The first write to a closed end succeeds and the data is lost ...
WriteVanishes(t) ==
  /\ Active(t) /\ held[t] # 0 /\ To[t] \notin reset
  /\ HasClosed(Receiver(To[t], Dir(t)))
  /\ reset' = reset \cup {To[t]}
  /\ Written(t)
  /\ UNCHANGED <<sent, got, pipe, ended, user, waiting, mode, timed>>

\* ... and the next one fails.
WriteFails(t) ==
  /\ Active(t) /\ held[t] # 0 /\ To[t] \in reset
  /\ Stop(t)
  /\ UNCHANGED <<sent, got, phase, user, waiting, mode, timed>>

\* Each direction's own idle timer: tcp.rs and backend.rs only, and only once
\* the tasks run.  It fires when nothing came for the task to read.
ServerTimerOnly(side) == phase[side] = "relay" /\ side = "server" /\ mode.serverIdle
HasIdleTimer(side) ==
  /\ phase[side] = "relay"
  /\ IF side = "server" THEN mode.serverIdle ELSE mode.clientIdle /\ mode.pooled
IdleEndsSession(t) ==
  /\ Active(t) /\ HasIdleTimer(Side(t))
  /\ held[t] = 0 /\ Input(t) = <<>>
  /\ EndTasks(TasksOf[Side(t)])
  /\ timed' = timed \cup {t}
  /\ UNCHANGED <<sent, got, phase, user, waiting, mode>>
IdleEnds(t) ==
  /\ Active(t) /\ HasIdleTimer(Side(t))
  /\ held[t] = 0 /\ Input(t) = <<>>
  /\ Stop(t)
  /\ timed' = timed \cup {t}
  /\ UNCHANGED <<sent, got, phase, user, waiting, mode>>

\* The backend does not answer the upgrade within the connection timeout, and the
\* handler ends with both its tasks.
UpgradeTimeout ==
  /\ phase["client"] = "upgrade" /\ Active("client_down")
  /\ held["client_down"] = 0 /\ Input("client_down") = <<>>
  /\ Stop("client_down")
  /\ timed' = timed \cup TasksOf["client"]
  /\ UNCHANGED <<sent, got, phase, user, waiting, mode>>

\* legacy.rs: the handler's select!.  A direction that is over ends it ...
LegacyStop ==
  /\ ~mode.pooled /\ phase["client"] = "relay"
  /\ waiting = "select" /\ ClientEnded # {}
  /\ waiting' = "stopped"
  /\ UNCHANGED <<sent, got, pipe, held, ended, phase, user, reset, mode, timed>>

\* ... or its sleep does: a line is logged.  Either way the handler goes on to
\* wait for both tasks.
LegacyIdle ==
  /\ ~mode.pooled /\ mode.clientIdle
  /\ phase["client"] = "relay" /\ ~Over("client")
  /\ waiting = "select"
  /\ waiting' = "idle"
  /\ UNCHANGED <<sent, got, pipe, held, ended, phase, user, reset, mode, timed>>

\* The client's connection to the backend.
BackendAccepts ==
  /\ phase["client"] = "dial" /\ ~Over("client")
  /\ phase' = [phase EXCEPT !["client"] = "first"]
  /\ user' = [user EXCEPT !["backend"] = "open"]
  /\ UNCHANGED <<sent, got, pipe, held, ended, reset, waiting, mode, timed>>

BackendRefuses ==
  /\ phase["client"] = "dial" /\ ~Over("client")
  /\ EndTasks(TasksOf["client"])
  /\ UNCHANGED <<sent, got, phase, user, waiting, mode, timed>>

-----------------------------------------------------------------------------
(* The two users.                                                          *)

Own(u) == IF u = "public" THEN "pub" ELSE "back"
OutDir(u) == IF u = "public" THEN "up" ELSE "down"
InDir(u)  == IF u = "public" THEN "down" ELSE "up"

UserSends(u) ==
  LET d == OutDir(u) IN
  /\ user[u] = "open" /\ sent[d] < MaxChunks /\ Own(u) \notin reset
  /\ ~HasClosed(Receiver(Own(u), d)) /\ Len(pipe[Own(u)][d]) < Capacity
  /\ sent' = [sent EXCEPT ![d] = @ + 1]
  /\ pipe' = [pipe EXCEPT ![Own(u)][d] = Append(@, sent[d] + 1)]
  /\ UNCHANGED <<got, held, ended, phase, user, reset, waiting, mode, timed>>

UserReads(u) ==
  LET d == InDir(u) IN
  /\ user[u] \in {"open", "shut"} /\ pipe[Own(u)][d] # <<>>
  /\ got' = [got EXCEPT ![d] = Append(@, Head(pipe[Own(u)][d]))]
  /\ pipe' = [pipe EXCEPT ![Own(u)][d] = Tail(@)]
  /\ UNCHANGED <<sent, held, ended, phase, user, reset, waiting, mode, timed>>

UserShuts(u) ==
  /\ user[u] = "open"
  /\ user' = [user EXCEPT ![u] = "shut"]
  /\ UNCHANGED <<sent, got, pipe, held, ended, phase, reset, waiting, mode, timed>>

UserCloses(u) ==
  /\ user[u] \in {"open", "shut"}
  /\ user' = [user EXCEPT ![u] = "closed"]
  /\ CloseEnds({u})
  /\ UNCHANGED <<sent, got, held, ended, phase, waiting, mode, timed>>

-----------------------------------------------------------------------------
TaskStep(t) == \/ Read(t) \/ ReadEnds(t)
               \/ Write(t) \/ WriteVanishes(t) \/ WriteFails(t) \/ IdleEnds(t)

ClientStep == FirstReadEmpty \/ UpgradeTimeout \/ LegacyStop \/ LegacyIdle

UserStep(u) == UserSends(u) \/ UserShuts(u) \/ UserCloses(u)

\* Nothing is left to do, or only a silent user could do something.
Finished == (\A u \in Users : user[u] # "open") /\ UNCHANGED vars

Next ==
  \/ \E t \in Tasks : TaskStep(t)
  \/ ClientStep \/ BackendAccepts \/ BackendRefuses
  \/ \E u \in Users : UserStep(u) \/ UserReads(u)
  \/ Finished

\* tokio runs the tasks, timers fire, the backend answers or refuses, and each
\* user reads what reaches it; nobody has to send, shut or close.
Fairness ==
  /\ \A t \in Tasks : WF_vars(TaskStep(t))
  /\ WF_vars(ClientStep) /\ WF_vars(BackendAccepts \/ BackendRefuses)
  /\ \A u \in Users : WF_vars(UserReads(u))

Spec == Init /\ [][Next]_vars
FairSpec == Spec /\ Fairness

-----------------------------------------------------------------------------
(* Safety.                                                                 *)

\* What a user receives is what the other sent, from the first chunk on, with
\* no gap, repetition or change of order, whoever hands the chunk over: the
\* handshake, the first read, the upgrade's answer or a copy task.
InOrder == \A d \in Dirs : \A i \in 1 .. Len(got[d]) : got[d][i] = i

\* A timer ended a task of this direction: nobody promises the rest of it.
CutShort(d) == \E t \in timed : Dir(t) = d

\* The server had dropped the callback.
Dropped == user["public"] = "away"

\* With no reset and no timer of its own direction, a side that closed its sockets
\* had moved all it was given: the public user that reads to the end has the whole
\* response.  Neither a direction that is done, nor the idle timer of a silent
\* upload (tcp.rs:254), may take a busy download with it.
EofMeansAll ==
  Over("server") /\ reset = {} /\ ~CutShort("down") /\ ~Dropped =>
    got["down"] \o pipe["pub"]["down"] = [i \in 1 .. sent["down"] |-> i]

-----------------------------------------------------------------------------
(* Liveness.                                                               *)

\* As long as neither user closes and the backend is there, all that was sent in a
\* direction arrives unless a timer of that direction went off: through full
\* connections, and beside a direction that is over or timed out.
Refused == user["backend"] = "away" /\ Over("client")
Undeliverable == reset # {} \/ Refused \/ Dropped \/ \E u \in Users : user[u] = "closed"
EveryChunkArrives ==
  \A d \in Dirs :
    sent[d] # Len(got[d]) ~> sent[d] = Len(got[d]) \/ Undeliverable \/ CutShort(d)

\* With idle timers that both sides obey, a session whose users are gone or
\* silent is torn down: no task is left waiting.  A program that took the request
\* for an upgrade has no timer; one that missed it has.
BothTimed ==
  /\ mode.pooled /\ mode.serverIdle /\ mode.clientIdle
  /\ \A side \in Sides : phase[side] # "websocket"
SessionFreed == <>[](BothTimed => Over("server") /\ Over("client"))

\* Once both users are gone, the server's idle timer is enough to end the tasks of
\* both programs and close their sockets, whether or not the client has a timer and
\* sees an upgrade where the server saw none.  Two cases are left out.  A server that
\* saw an upgrade has no timer (two tasks may wait for each other's FIN).  And a
\* legacy client whose own idle timeout came first has given up its one receive
\* (legacy.rs:401-412): its second task waits for ever at stop_tx.send (:392) and
\* keeps the client's sockets.
Gone == user["backend"] = "closed" /\ user["public"] \in {"away", "closed"}
ClosedSessionFreed ==
  Gone /\ mode.serverIdle ~>
    \/ phase["server"] = "websocket"
    \/ Over("server") /\ (Over("client") \/ waiting = "idle")
=============================================================================
