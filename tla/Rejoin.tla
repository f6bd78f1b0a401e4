------------------------------- MODULE Rejoin -------------------------------
(***************************************************************************)
(* A client that lost its server comes back (Reconnect), and finds what    *)
(* its earlier registrations left there: handle_client of a session whose  *)
(* client is gone keeps the public port until it is back at its select!,   *)
(* which a user it serves may put off for the length of its timeouts; and  *)
(* a REGISTER nobody waits for any more still binds the port when the      *)
(* accept loop comes to it.                                                *)
(***************************************************************************)
EXTENDS Reconnect

CONSTANTS Hold,        \* 3 * --connection-timeout: the longest one user takes
          MaxFaults,   \* bound: how often the network or the server fails
          MaxUsers     \* bound: how many users come

ASSUME RejoinAssumption == Hold \in Nat /\ MaxFaults \in Nat /\ MaxUsers \in Nat

VARIABLES answer,   \* what became of the session's REGISTER
          port,     \* whose handler listens on the public port
          stay,     \* seconds until that handler is at its select! again, at most
          orphans,  \* REGISTER lines not yet read whose client is gone
          faults,   \* faults so far
          users,    \* users so far
          quiet     \* seconds of waiting since the last fault, user or bind, counted no
                    \* further than RecoversInTime looks

serverVars == <<answer, port, stay, orphans, faults, users, quiet>>
vars == <<clientVars, serverVars>>

TypeOK ==
  /\ ClientTypeOK
  /\ answer \in {"none", "bound", "refused"}
  /\ port \in {"free", "client", "ghost"}
  /\ stay \in 0 .. Hold
  /\ orphans \in Nat
  /\ faults \in Nat /\ users \in Nat /\ quiet \in Nat
  /\ port = "client" <=> loop = "serving" /\ answer = "bound"

Init ==
  /\ ClientInit
  /\ answer = "none"
  /\ port = "free"
  /\ stay = 0
  /\ orphans = 0
  /\ faults = 0
  /\ users = 0
  /\ quiet = 0

-----------------------------------------------------------------------------
(* The server.                                                             *)

\* handle_client reads the session's REGISTER and binds the port ...
Bind ==
  /\ loop = "serving" /\ answer = "none" /\ port = "free"
  /\ answer' = "bound"
  /\ port' = "client"
  /\ quiet' = 0
  /\ UNCHANGED <<clientVars, stay, orphans, faults, users>>

\* ... or finds it in use.
Refuse ==
  /\ loop = "serving" /\ answer = "none" /\ port # "free"
  /\ answer' = "refused"
  /\ UNCHANGED <<clientVars, port, stay, orphans, faults, users, quiet>>

\* A REGISTER whose client is gone is served like any other.
ReadOrphan ==
  /\ orphans > 0
  /\ orphans' = orphans - 1
  /\ port' = IF port = "free" THEN "ghost" ELSE port
  /\ UNCHANGED <<clientVars, answer, stay, faults, users, quiet>>

\* The disconnect branch of select!.
SeeDisconnectNever == port = "ghost" /\ stay > Hold
SeeDisconnect == port = "ghost" /\ stay = 0
FreePort ==
  /\ SeeDisconnect
  /\ port' = "free"
  /\ UNCHANGED <<clientVars, answer, stay, orphans, faults, users, quiet>>

\* The accept branch, which select! may take as well.
UserComes ==
  /\ port # "free" /\ stay = 0 /\ users < MaxUsers
  /\ stay' = Hold
  /\ users' = users + 1
  /\ quiet' = 0
  /\ UNCHANGED <<clientVars, answer, port, orphans, faults>>

\* The user is proxied, turned away or gone before the timeouts are over.
UserDone ==
  /\ stay > 0
  /\ stay' = 0
  /\ UNCHANGED <<clientVars, answer, port, orphans, faults, users, quiet>>

ServerStep == Bind \/ Refuse \/ ReadOrphan \/ FreePort

-----------------------------------------------------------------------------
(* Sessions that fail.                                                     *)

\* What the server is left with when the client closes.
LeaveBehind ==
  /\ answer' = "none"
  /\ port' = IF answer = "bound" THEN "ghost" ELSE port
  /\ orphans' = IF answer = "none" THEN orphans + 1 ELSE orphans
  /\ UNCHANGED <<stay, users>>

Fault == faults < MaxFaults /\ faults' = faults + 1 /\ quiet' = 0

\* "Public port in use": a line, and EOF.
Refused ==
  /\ answer = "refused"
  /\ SessionFails
  /\ answer' = "none"
  /\ UNCHANGED <<port, stay, orphans, faults, users, quiet>>

Unreachable == ConnectFails /\ Fault /\ UNCHANGED <<answer, port, stay, orphans, users>>
Broken == answer # "refused" /\ SessionFails /\ Fault /\ LeaveBehind

\* The server's process ends, with its listeners and tasks, and is started again.
ServerRestarts ==
  /\ Fault
  /\ SessionFails \/ (loop # "serving" /\ UNCHANGED clientVars)
  /\ answer' = "none"
  /\ port' = "free"
  /\ stay' = 0
  /\ orphans' = 0
  /\ UNCHANGED users

\* The operator stops the client.
Leaves == ReadTimeout /\ LeaveBehind /\ UNCHANGED <<faults, quiet>>

-----------------------------------------------------------------------------
\* The server is quick: a second passes only when it has nothing to do at once.
ServerIdle ==
  /\ orphans = 0
  /\ ~(loop = "serving" /\ answer = "none")
  /\ ~SeeDisconnect
ClockRuns ==
  /\ ServerIdle
  /\ stay' = IF stay > 0 THEN stay - 1 ELSE 0
  /\ UNCHANGED <<answer, port, orphans, faults, users>>

Second == WaitSecond /\ quiet' = Lesser(quiet + 1, Hold + BackoffCap + 1) /\ ClockRuns
SecondElsewhere == loop # "wait" /\ stay > 0 /\ UNCHANGED <<clientVars, quiet>> /\ ClockRuns

Loop == (LoopStep \/ Registers) /\ UNCHANGED serverVars

Finished == loop = "exited" /\ port = "free" /\ orphans = 0 /\ UNCHANGED vars

Next ==
  \/ Loop \/ Second \/ SecondElsewhere \/ Refused \/ Leaves
  \/ (Signal \/ LineArrives) /\ UNCHANGED serverVars
  \/ Unreachable \/ Broken \/ ServerRestarts
  \/ ServerStep \/ UserComes \/ UserDone
  \/ Finished

\* The loop's own steps and the server's happen, seconds pass, and a second
\* without a line lets the read time out.  select! is fair to its branches.  No
\* signal, line, fault or user has to come.
Fairness ==
  /\ WF_vars(Loop) /\ WF_vars(Second \/ SecondElsewhere) /\ WF_vars(Refused) /\ WF_vars(Leaves)
  /\ WF_vars(Bind \/ Refuse \/ ReadOrphan) /\ SF_vars(FreePort)

Spec == Init /\ [][Next]_vars
FairSpec == Spec /\ Fairness

-----------------------------------------------------------------------------
\* A client that waits has its port back within the longest time its old handler
\* may keep it and one longest backoff, once nothing else goes wrong.
RecoversInTime ==
  ReconnectInterval <= BackoffCap => quiet <= Hold + BackoffCap

\* A signal ends the client, whatever it was doing, once its server has nothing
\* more to say: lines that come faster than one a second keep the flag unread.
ShutsDown == ~running ~> loop = "exited"

\* A client without a limit ends up registered, whatever its earlier sessions left
\* at the server; nothing but the operator, or a reconnect interval of 0, ends it.
Rejoins ==
  limit = 0 /\ ReconnectInterval > 0 ~> port = "client" \/ (loop = "exited" /\ ~running)

\* A client that is gone leaves nothing at the server: its port becomes free.
PortFreed == loop = "exited" ~> port = "free" /\ orphans = 0
=============================================================================
