----------------------------- MODULE TypeProofs -----------------------------
(***************************************************************************)
(* TypeOK is an invariant of the tunnel, for every value of the constants. *)
(* By itself it is not inductive: a step that uses the connection in the   *)
(* accept loop's hands, the public a handler serves or the one a client    *)
(* dials needs to know that there is one.  HeldOK says so.                 *)
(***************************************************************************)
EXTENDS Matching, SequenceTheorems, TLAPS

USE DEF vars, wireVars, serverVars, clientVars, acceptVars, registryVars,
        handlerVars, publicVars

\* read_line takes the first line and leaves the others.
LEMMA FirstLine ==
  ASSUME NEW q \in Seq(Line), q # <<>>
  PROVE  Head(q) \in Line /\ Tail(q) \in Seq(Line)
BY HeadTailProperties

\* The lookup of the accept loop finds an entry of the registry.
LEMMA TakeSenderTypes ==
  ASSUME TypeOK, HeldOK, NEW c \in Conns, TakeSender(c), UNCHANGED clientVars
  PROVE  TypeOK'
<1> USE DEF TypeOK, WireTypeOK, ServerTypeOK, ClientTypeOK
<1>1. PICK id \in SeenIds(c) : \E f \in FirstEntry(id) :
       /\ lastActivity' = [lastActivity EXCEPT ![f] = now]
       /\ IF tx[f] = "held"
            THEN /\ tx' = [tx EXCEPT ![f] = "taken"]
                 /\ acceptor' = Hold("send", c, f)
                 /\ conn' = conn
            ELSE /\ tx' = tx
                 /\ acceptor' = Idle
                 /\ conn' = [conn EXCEPT ![c] = "closed"]
  BY DEF TakeSender
<1>2. PICK f \in FirstEntry(id) :
       /\ lastActivity' = [lastActivity EXCEPT ![f] = now]
       /\ IF tx[f] = "held"
            THEN /\ tx' = [tx EXCEPT ![f] = "taken"]
                 /\ acceptor' = Hold("send", c, f)
                 /\ conn' = conn
            ELSE /\ tx' = tx
                 /\ acceptor' = Idle
                 /\ conn' = [conn EXCEPT ![c] = "closed"]
  BY <1>1
<1>3. f \in Publics /\ c \in Conns
  BY DEF FirstEntry, Entries
<1>4. ServerTypeOK'
  <2>1. lastActivity' \in [Publics -> Nat]
    BY <1>2
  <2>2. tx' \in [Publics -> {"none", "held", "taken", "dropped"}]
    <3>1. tx' = tx \/ tx' = [tx EXCEPT ![f] = "taken"]
      BY <1>2
    <3> QED
      BY <3>1
  <2>3. acceptor' \in [at : {"accept", "peek", "take", "send"},
                       stream : Conns \cup {None}, sender : Publics \cup {None}]
    BY <1>2, <1>3 DEF Hold, Idle
  <2>4. UNCHANGED <<clients, older, mailbox, handlerVars, publicVars>>
    BY DEF TakeSender
  <2> QED
    BY <2>1, <2>2, <2>3, <2>4
<1>5. WireTypeOK'
  <2>1. conn' \in [Conns -> ConnPhase]
    BY <1>2 DEF ConnPhase
  <2>2. UNCHANGED <<now, said, hung, control, handshakeId, home>>
    BY DEF TakeSender
  <2> QED
    BY <2>1, <2>2
<1>6. ClientTypeOK'
  OBVIOUS
<1> QED
  BY <1>4, <1>5, <1>6

\* What tx.send delivers is a callback connection.
LEMMA SendTypes ==
  ASSUME TypeOK, HeldOK, NEW c \in Conns, Send(c), UNCHANGED clientVars
  PROVE  TypeOK'
<1> USE DEF TypeOK, WireTypeOK, ServerTypeOK, ClientTypeOK
<1>1. c \in Publics /\ acceptor.sender \in Publics
  BY DEF Send, HeldOK
<1>2. mailbox' \in [Publics -> Publics \cup {None}]
  BY <1>1 DEF Send
<1>3. ServerTypeOK'
  BY <1>2 DEF Send, Idle, Hold
<1>4. WireTypeOK'
  BY DEF Send, ConnPhase
<1> QED
  BY <1>3, <1>4

\* A registration works on the public its handler serves.
LEMMA RegisterTypes ==
  ASSUME TypeOK, HeldOK, NEW s \in Sessions, Register(s), UNCHANGED clientVars
  PROVE  TypeOK'
<1> USE DEF TypeOK, WireTypeOK, ServerTypeOK, ClientTypeOK
<1>1. cur[s] \in Publics
  BY DEF Register, HeldOK, Early
<1>2. ServerTypeOK'
  <2>1. clients' \subseteq Publics /\ older' \in [Publics -> SUBSET Publics]
    BY <1>1 DEF Register, OlderWithout, Stale
  <2>2. lastActivity' \in [Publics -> Nat]
    BY <1>1 DEF Register, ActivityWithout
  <2>3. tx' \in [Publics -> {"none", "held", "taken", "dropped"}]
    BY <1>1 DEF Register, SendersWithout
  <2>4. handler' \in [Sessions -> HandlerStep]
    BY DEF Register, Goto, HandlerStep
  <2> QED
    BY <2>1, <2>2, <2>3, <2>4 DEF Register
<1>3. WireTypeOK'
  <2>1. NewId(s) \in Ids
    BY WireAssumption DEF NewId, Ids
  <2>2. handshakeId' \in [Publics -> Ids \cup {NoId}]
    BY <1>1, <2>1 DEF Register
  <2> QED
    BY <2>2 DEF Register
<1> QED
  BY <1>2, <1>3

\* A line that is ignored leaves lines.
LEMMA ReadOtherTypes ==
  ASSUME TypeOK, HeldOK, NEW s \in Sessions, ReadOther(s), UNCHANGED serverVars
  PROVE  TypeOK'
<1> USE DEF TypeOK, WireTypeOK, ServerTypeOK, ClientTypeOK
<1>1. control[s] # <<>> /\ control' = [control EXCEPT ![s] = Tail(@)]
  BY DEF ReadOther, Reads
<1>2. control' \in [Sessions -> Seq(Line)]
  BY <1>1, FirstLine
<1>3. /\ client' \in [Sessions -> {"idle", "register", "ready", "connect", "dial", "write", "down"}]
      /\ csince' \in [Sessions -> Nat]
  BY DEF ReadOther, Move
<1> QED
  BY <1>2, <1>3 DEF ReadOther

\* The public that a CONNECT line names is one to dial for.
LEMMA ReadConnectTypes ==
  ASSUME TypeOK, HeldOK, NEW s \in Sessions, ReadConnect(s), UNCHANGED serverVars
  PROVE  TypeOK' /\ HeldOK'
<1> USE DEF TypeOK, WireTypeOK, ServerTypeOK, ClientTypeOK
<1>1. control' \in [Sessions -> Seq(Line)]
  BY FirstLine DEF ReadConnect, Reads
<1>2. /\ client' \in [Sessions -> {"idle", "register", "ready", "connect", "dial", "write", "down"}]
      /\ csince' \in [Sessions -> Nat]
  BY DEF ReadConnect, Move
<1>3. Head(control[s]).pub \in Publics
  BY FirstLine DEF ReadConnect, Reads, Line
<1>4. dialing' \in [Sessions -> Publics \cup {None}]
  BY <1>3 DEF ReadConnect
<1>5. activeSessions' \in [Sessions -> SUBSET (Ids \cup {NoId})]
  BY <1>3 DEF ReadConnect
<1>6. TypeOK'
  BY <1>1, <1>2, <1>4, <1>5 DEF ReadConnect
<1>7. HeldOK'
  BY <1>3, <1>4, WireAssumption DEF ReadConnect, Move, HeldOK, Idle, Hold, Conns
<1> QED
  BY <1>6, <1>7

-----------------------------------------------------------------------------

\* Every step of the accept loop and of the registry's periodic cleanup keeps the types.
LEMMA AcceptorTypes ==
  ASSUME TypeOK, HeldOK, (Acceptor \/ (PeriodicCleanup /\ UNCHANGED clientVars))
  PROVE  TypeOK' /\ HeldOK'
<1> USE WireAssumption, ServerAssumption
    DEF TypeOK, WireTypeOK, ServerTypeOK, ClientTypeOK, ConnPhase, Conns, HandlerStep,
        Line, Ids, NoId, HeldOK, Idle, Hold, Early, Late, Paired
<1>1. ASSUME NEW c \in Conns, Accept(c), UNCHANGED clientVars
      PROVE  TypeOK' /\ HeldOK'
  BY <1>1, SMTT(10) DEF Accept
<1>2. ASSUME NEW c \in Conns, PeekCallback(c), UNCHANGED clientVars
      PROVE  TypeOK' /\ HeldOK'
  BY <1>2, SMTT(10) DEF PeekCallback
<1>3. ASSUME NEW c \in Conns, PeekOther(c), UNCHANGED clientVars
      PROVE  TypeOK' /\ HeldOK'
  BY <1>3, SMTT(10) DEF PeekOther
<1>4. ASSUME NEW c \in Conns, TakeSender(c), UNCHANGED clientVars
      PROVE  TypeOK' /\ HeldOK'
  <2>1. TypeOK'
    BY <1>4, TakeSenderTypes
  <2>2. HeldOK'
    BY <1>4, SMTT(10) DEF TakeSender, FirstEntry, Entries, SeenIds
  <2> QED
    BY <2>1, <2>2
<1>5. ASSUME NEW c \in Conns, NoEntry(c), UNCHANGED clientVars
      PROVE  TypeOK' /\ HeldOK'
  BY <1>5, SMTT(10) DEF NoEntry, SeenIds
<1>6. ASSUME NEW c \in Conns, Send(c), UNCHANGED clientVars
      PROVE  TypeOK' /\ HeldOK'
  <2>1. TypeOK'
    BY <1>6, SendTypes
  <2>2. HeldOK'
    BY <1>6, SMTT(10) DEF Send, ReceiverAlive
  <2> QED
    BY <2>1, <2>2
<1>7. ASSUME PeriodicCleanup, UNCHANGED clientVars
      PROVE  TypeOK' /\ HeldOK'
  BY <1>7, SMTT(10) DEF PeriodicCleanup, Expired, RemoveEntries, SendersWithout, OlderWithout, ActivityWithout, Age
<1> QED
  BY <1>1, <1>2, <1>3, <1>4, <1>5, <1>6, <1>7 DEF Acceptor, AcceptorStep

\* Every step of handle_client keeps the types.
LEMMA HandlerTypes ==
  ASSUME TypeOK, HeldOK, (\E s \in Sessions : Handler(s))
  PROVE  TypeOK' /\ HeldOK'
<1> USE WireAssumption, ServerAssumption
    DEF TypeOK, WireTypeOK, ServerTypeOK, ClientTypeOK, ConnPhase, Conns, HandlerStep,
        Line, Ids, NoId, HeldOK, Idle, Hold, Early, Late, Paired
<1>1. ASSUME NEW s \in Sessions, Bind(s), UNCHANGED clientVars
      PROVE  TypeOK' /\ HeldOK'
  BY <1>1, SMTT(10) DEF Bind, Goto, Bound
<1>2. ASSUME NEW s \in Sessions, Refuse(s), UNCHANGED clientVars
      PROVE  TypeOK' /\ HeldOK'
  BY <1>2, SMTT(10) DEF Refuse, Goto, Bound, Write, InFlight, Error
<1>3. ASSUME NEW s \in Sessions, StartEof(s), UNCHANGED clientVars
      PROVE  TypeOK' /\ HeldOK'
  BY <1>3, SMTT(10) DEF StartEof, Goto
<1>4. ASSUME NEW s \in Sessions, NEW p0 \in Publics, AcceptPublic(s, p0), UNCHANGED clientVars
      PROVE  TypeOK' /\ HeldOK'
  BY <1>4, SMTT(10) DEF AcceptPublic, Goto
<1>5. ASSUME NEW s \in Sessions, SeesDisconnect(s), UNCHANGED clientVars
      PROVE  TypeOK' /\ HeldOK'
  BY <1>5, SMTT(10) DEF SeesDisconnect, Goto
<1>6. ASSUME NEW s \in Sessions, ReadFirstBytes(s), UNCHANGED clientVars
      PROVE  TypeOK' /\ HeldOK'
  BY <1>6, SMTT(10) DEF ReadFirstBytes, Goto, StopTimer
<1>7. ASSUME NEW s \in Sessions, NoFirstBytes(s), UNCHANGED clientVars
      PROVE  TypeOK' /\ HeldOK'
  BY <1>7, SMTT(10) DEF NoFirstBytes, GiveUp, Goto, StopTimer
<1>8. ASSUME NEW s \in Sessions, WriteReady(s), UNCHANGED clientVars
      PROVE  TypeOK' /\ HeldOK'
  BY <1>8, SMTT(10) DEF WriteReady, Goto, Write, InFlight, Ready, MayWrite
<1>9. ASSUME NEW s \in Sessions, WriteReadyFails(s), UNCHANGED clientVars
      PROVE  TypeOK' /\ HeldOK'
  BY <1>9, SMTT(10) DEF WriteReadyFails, GiveUp, Goto
<1>10. ASSUME NEW s \in Sessions, Register(s), UNCHANGED clientVars
      PROVE  TypeOK' /\ HeldOK'
  <2>1. TypeOK'
    BY <1>10, RegisterTypes
  <2>2. HeldOK'
    BY <1>10, SMTT(10) DEF Register, Goto, NewId, Stale, Age, SendersWithout, OlderWithout, ActivityWithout
  <2> QED
    BY <2>1, <2>2
<1>11. ASSUME NEW s \in Sessions, WriteConnect(s), UNCHANGED clientVars
      PROVE  TypeOK' /\ HeldOK'
  BY <1>11, SMTT(10) DEF WriteConnect, Goto, Write, InFlight, Connect
<1>12. ASSUME NEW s \in Sessions, WriteConnectFails(s), UNCHANGED clientVars
      PROVE  TypeOK' /\ HeldOK'
  BY <1>12, SMTT(10) DEF WriteConnectFails, GiveUp, Goto, Closed
<1>13. ASSUME NEW s \in Sessions, EndAwait(s), UNCHANGED clientVars
      PROVE  TypeOK' /\ HeldOK'
  BY <1>13, SMTT(10) DEF EndAwait, Goto, StopTimer, AwaitExpired
<1>14. ASSUME NEW s \in Sessions, Cleanup(s), UNCHANGED clientVars
      PROVE  TypeOK' /\ HeldOK'
  BY <1>14, SMTT(10) DEF Cleanup, Goto, Entries, RemoveEntries, SendersWithout, OlderWithout, ActivityWithout
<1> QED
  BY <1>1, <1>2, <1>3, <1>4, <1>5, <1>6, <1>7, <1>8, <1>9, <1>10, <1>11, <1>12, <1>13, <1>14 DEF Handler, HandlerStepOf

\* Every step of outside users, stray connections and the clock keeps the types.
LEMMA OutsideTypes ==
  ASSUME TypeOK, HeldOK, ((OutsideStep /\ UNCHANGED clientVars) \/ Tick \/ UNCHANGED vars)
  PROVE  TypeOK' /\ HeldOK'
<1> USE WireAssumption, ServerAssumption
    DEF TypeOK, WireTypeOK, ServerTypeOK, ClientTypeOK, ConnPhase, Conns, HandlerStep,
        Line, Ids, NoId, HeldOK, Idle, Hold, Early, Late, Paired
<1>1. ASSUME NEW s \in Sessions, NEW p0 \in Publics, Arrives(p0, s), UNCHANGED clientVars
      PROVE  TypeOK' /\ HeldOK'
  BY <1>1, SMTT(10) DEF Arrives, Bound
<1>2. ASSUME NEW p0 \in Publics, Speaks(p0), UNCHANGED clientVars
      PROVE  TypeOK' /\ HeldOK'
  BY <1>2, SMTT(10) DEF Speaks
<1>3. ASSUME NEW p0 \in Publics, Leaves(p0), UNCHANGED clientVars
      PROVE  TypeOK' /\ HeldOK'
  BY <1>3, SMTT(10) DEF Leaves
<1>4. ASSUME NEW c \in Probes, ProbeConnects(c), UNCHANGED clientVars
      PROVE  TypeOK' /\ HeldOK'
  BY <1>4, SMTT(10) DEF ProbeConnects
<1>5. ASSUME NEW c \in Probes, ProbeSpeaks(c), UNCHANGED clientVars
      PROVE  TypeOK' /\ HeldOK'
  BY <1>5, SMTT(10) DEF ProbeSpeaks
<1>6. ASSUME NEW c \in Probes, ProbeHangsUp(c), UNCHANGED clientVars
      PROVE  TypeOK' /\ HeldOK'
  BY <1>6, SMTT(10) DEF ProbeHangsUp
<1>7. ASSUME Tick
      PROVE  TypeOK' /\ HeldOK'
  BY <1>7, SMTT(10) DEF Tick
<1>8. ASSUME UNCHANGED vars PROVE TypeOK' /\ HeldOK'
  BY <1>8
<1> QED
  BY <1>1, <1>2, <1>3, <1>4, <1>5, <1>6, <1>7, <1>8 DEF OutsideStep

\* Every step of connect_and_serve and its tasks keeps the types.
LEMMA ClientTypes ==
  ASSUME TypeOK, HeldOK, (\E s \in Sessions : (ClientStep(s) \/ TaskStep(s) \/ ClientFault(s)) /\ UNCHANGED serverVars)
  PROVE  TypeOK' /\ HeldOK'
<1> USE WireAssumption, ServerAssumption
    DEF TypeOK, WireTypeOK, ServerTypeOK, ClientTypeOK, ConnPhase, Conns, HandlerStep,
        Line, Ids, NoId, HeldOK, Idle, Hold, Early, Late, Paired
<1>1. ASSUME NEW s \in Sessions, Start(s), UNCHANGED serverVars
      PROVE  TypeOK' /\ HeldOK'
  BY <1>1, SMTT(10) DEF Start, Move
<1>2. ASSUME NEW s \in Sessions, WriteRegister(s), UNCHANGED serverVars
      PROVE  TypeOK' /\ HeldOK'
  BY <1>2, SMTT(10) DEF WriteRegister, Move
<1>3. ASSUME NEW s \in Sessions, ReadReady(s), UNCHANGED serverVars
      PROVE  TypeOK' /\ HeldOK'
  BY <1>3, SMTT(10) DEF ReadReady, Move, Reads
<1>4. ASSUME NEW s \in Sessions, ReadOther(s), UNCHANGED serverVars
      PROVE  TypeOK' /\ HeldOK'
  <2>1. TypeOK'
    BY <1>4, ReadOtherTypes
  <2>2. HeldOK'
    BY <1>4, SMTT(10) DEF ReadOther, Move, Reads
  <2> QED
    BY <2>1, <2>2
<1>5. ASSUME NEW s \in Sessions, ReadConnect(s), UNCHANGED serverVars
      PROVE  TypeOK' /\ HeldOK'
  BY <1>5, ReadConnectTypes
<1>6. ASSUME NEW s \in Sessions, ConnectTimeout(s), UNCHANGED serverVars
      PROVE  TypeOK' /\ HeldOK'
  BY <1>6, SMTT(10) DEF ConnectTimeout, Move
<1>7. ASSUME NEW s \in Sessions, Dial(s), UNCHANGED serverVars
      PROVE  TypeOK' /\ HeldOK'
  BY <1>7, SMTT(10) DEF Dial, Move
<1>8. ASSUME NEW s \in Sessions, WriteCallback(s), UNCHANGED serverVars
      PROVE  TypeOK' /\ HeldOK'
  BY <1>8, SMTT(10) DEF WriteCallback, Move
<1>9. ASSUME NEW s \in Sessions, Eof(s), UNCHANGED serverVars
      PROVE  TypeOK' /\ HeldOK'
  BY <1>9, SMTT(10) DEF Eof, Move, Down
<1>10. ASSUME NEW s \in Sessions, SweepActive(s), UNCHANGED serverVars
      PROVE  TypeOK' /\ HeldOK'
  BY <1>10, SMTT(10) DEF SweepActive
<1>11. ASSUME NEW s \in Sessions, NEW p0 \in Publics, TaskEnds(s, p0), UNCHANGED serverVars
      PROVE  TypeOK' /\ HeldOK'
  BY <1>11, SMTT(10) DEF TaskEnds
<1>12. ASSUME NEW s \in Sessions, DialFails(s), UNCHANGED serverVars
      PROVE  TypeOK' /\ HeldOK'
  BY <1>12, SMTT(10) DEF DialFails, Move
<1>13. ASSUME NEW s \in Sessions, WriteCallbackFails(s), UNCHANGED serverVars
      PROVE  TypeOK' /\ HeldOK'
  BY <1>13, SMTT(10) DEF WriteCallbackFails, Move
<1>14. ASSUME NEW s \in Sessions, CutLine(s), UNCHANGED serverVars
      PROVE  TypeOK' /\ HeldOK'
  BY <1>14, SMTT(10) DEF CutLine, Move, Junk
<1>15. ASSUME NEW s \in Sessions, ReadFails(s), UNCHANGED serverVars
      PROVE  TypeOK' /\ HeldOK'
  BY <1>15, SMTT(10) DEF ReadFails, Move, Down
<1>16. ASSUME NEW s \in Sessions, Crash(s), UNCHANGED serverVars
      PROVE  TypeOK' /\ HeldOK'
  BY <1>16, SMTT(10) DEF Crash, Move
<1> QED
  BY <1>1, <1>2, <1>3, <1>4, <1>5, <1>6, <1>7, <1>8, <1>9, <1>10, <1>11, <1>12, <1>13, <1>14, <1>15, <1>16 DEF ClientStep, TaskStep, ClientFault

-----------------------------------------------------------------------------
\* Nothing is held to begin with.
LEMMA TypeInit == Init => TypeOK /\ HeldOK
<1> SUFFICES ASSUME Init PROVE TypeOK /\ HeldOK
  OBVIOUS
<1> USE DEF Init, WireInit, ServerInit, ClientInit
<1>1. WireTypeOK
  BY DEF WireTypeOK, ConnPhase
<1>2. ServerTypeOK
  BY DEF ServerTypeOK, HandlerStep, Idle, Hold
<1>3. ClientTypeOK
  BY DEF ClientTypeOK
<1>4. HeldOK
  BY DEF HeldOK, Idle, Hold, Early, Late, Paired
<1> QED
  BY <1>1, <1>2, <1>3, <1>4 DEF TypeOK

\* Every step keeps the types.
LEMMA TypeNext == TypeOK /\ HeldOK /\ [Next]_vars => TypeOK' /\ HeldOK'
<1> SUFFICES ASSUME TypeOK, HeldOK, [Next]_vars PROVE TypeOK' /\ HeldOK'
  OBVIOUS
<1>1. CASE SystemStep
  BY <1>1, AcceptorTypes, HandlerTypes, ClientTypes DEF SystemStep, Control
<1>2. CASE OtherStep
  BY <1>2, AcceptorTypes, OutsideTypes, ClientTypes DEF OtherStep
<1>3. CASE Tick \/ Finished \/ UNCHANGED vars
  BY <1>3, OutsideTypes DEF Finished
<1> QED
  BY <1>1, <1>2, <1>3 DEF Next

\* The tunnel's state keeps its types, and whatever is at work on a connection
\* has one in its hands.
THEOREM TypeCorrect == Spec => [](TypeOK /\ HeldOK)
<1>1. Init => TypeOK /\ HeldOK
  BY TypeInit
<1>2. TypeOK /\ HeldOK /\ [Next]_vars => TypeOK' /\ HeldOK'
  BY TypeNext
<1> QED
  BY <1>1, <1>2, PTL DEF Spec
=============================================================================

