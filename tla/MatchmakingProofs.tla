------------------------- MODULE MatchmakingProofs -------------------------
(***************************************************************************)
(* The tunnel implements the matchmaker, for every value of the constants: *)
(* each step of the accept loop, a handler, a client, a user or the clock  *)
(* is a step of Matchmaker or leaves its variables alone.  The argument    *)
(* needs Matching (a stream in a mailbox is the user's own) and Served (it *)
(* was really made, and a desk is empty between two users).                *)
(***************************************************************************)
EXTENDS MatchingProofs, Matchmaking

USE DEF vars, wireVars, serverVars, clientVars, acceptVars, registryVars,
        handlerVars, publicVars

\* What the abstract specification sees.
Seen == <<public, home, cur, said, mailbox>>

\* A step that touches none of it stutters.
LEMMA Stutters ==
  ASSUME UNCHANGED Seen
  PROVE  UNCHANGED Abstract!vars
BY DEF Seen, Abstract!vars, Partner

\* The accept loop and the periodic cleanup: only tx.send is seen, and what it
\* sends to a live receiver is that receiver's own callback.
LEMMA AcceptorImplements ==
  ASSUME TypeOK, Matching, Served,
         Acceptor \/ (PeriodicCleanup /\ UNCHANGED clientVars)
  PROVE  UNCHANGED Abstract!vars /\ Served'
<1> USE DEF TypeOK, WireTypeOK, ServerTypeOK
<1>1. ASSUME NEW c \in Conns,
             Accept(c) \/ PeekCallback(c) \/ PeekOther(c) \/ TakeSender(c) \/ NoEntry(c)
      PROVE  UNCHANGED Abstract!vars /\ Served'
  <2>1. UNCHANGED Seen
    BY <1>1 DEF Accept, PeekCallback, PeekOther, TakeSender, NoEntry, Seen
  <2>2. acceptor'.at \in {"take", "send"} => acceptor'.stream \in said'
    BY <1>1 DEF Accept, PeekCallback, PeekOther, TakeSender, NoEntry, Hold, Idle, Served
  <2>3. \A s \in Sessions : handler'[s] \notin Early \cup Late => cur'[s] = None
    <3>1. CASE PeekOther(c)
      <4>1. \A s \in Sessions : handler[s] \in Early \cup Late => s # c
        BY <3>1 DEF PeekOther, Matching, ConnOK, Early, Late, Paired
      <4> QED
        BY <3>1, <4>1 DEF PeekOther, Served, Early, Late, Paired
    <3>2. CASE ~PeekOther(c)
      BY <1>1, <3>2 DEF Accept, PeekCallback, TakeSender, NoEntry, Served
    <3> QED
      BY <3>1, <3>2
  <2> QED
    BY <2>1, <2>2, <2>3, Stutters DEF Served, Seen
<1>2. ASSUME NEW c \in Conns, Send(c) PROVE UNCHANGED Abstract!vars /\ Served'
  <2> DEFINE f == acceptor.sender
  <2>1. f \in Publics /\ c \in said
    BY <1>2 DEF Send, Matching, HeldOK, Served
  <2>2. UNCHANGED <<public, home, cur, said, handler>>
    BY <1>2 DEF Send
  <2>3. CASE ReceiverAlive(f)
    <3>1. mailbox' = [mailbox EXCEPT ![f] = c]
      BY <1>2, <2>3 DEF Send
    <3>2. c = f /\ public[f] = "serving"
      <4>1. PICK s \in Sessions : Holds(s, f)
        BY <2>3 DEF ReceiverAlive, Holds, Paired
      <4>2. acceptor.at = "send" /\ acceptor.stream = c /\ None \notin Publics
        BY <1>2, WireAssumption DEF Send, Conns
      <4> QED
        BY <2>1, <4>1, <4>2 DEF Matching, SenderOK, ServingOK, Holds
    <3>3. Partner' = Partner
      BY <2>1, <2>2, <3>1, <3>2 DEF Partner
    <3> QED
      BY <1>2, <2>1, <2>2, <3>1, <3>2, <3>3 DEF Send, Served, Idle, Hold, Abstract!vars
  <2>4. CASE ~ReceiverAlive(f)
    <3>1. UNCHANGED Seen
      BY <1>2, <2>2, <2>4 DEF Send, Seen
    <3> QED
      BY <1>2, <2>2, <3>1, Stutters DEF Send, Served, Idle, Hold, Seen
  <2> QED
    BY <2>3, <2>4
<1>3. ASSUME PeriodicCleanup PROVE UNCHANGED Abstract!vars /\ Served'
  <2>1. UNCHANGED Seen /\ UNCHANGED <<acceptor, handler>>
    BY <1>3 DEF PeriodicCleanup, Seen
  <2> QED
    BY <2>1, Stutters DEF Served, Seen
<1> QED
  BY <1>1, <1>2, <1>3 DEF Acceptor, AcceptorStep

\* A desk that a handler empties or fills.
LEMMA DesksAfter ==
  ASSUME Served, NEW s \in Sessions, NEW to,
         cur \in [Sessions -> Publics \cup {None}],
         handler \in [Sessions -> HandlerStep],
         handler' = [handler EXCEPT ![s] = to],
         \/ to \in Early \cup Late /\ (\A t \in Sessions \ {s} : cur'[t] = cur[t])
         \/ cur' = [cur EXCEPT ![s] = None]
         \/ UNCHANGED cur /\ handler[s] \notin Early \cup Late,
         UNCHANGED <<acceptor, mailbox, said>>
  PROVE  Served'
BY DEF Served

\* handle_client: a user is served when accept returns it, turned away where the
\* handler goes on to the next, joined or turned away at the cleanup; the session
\* is closed when the disconnect is seen.
LEMMA HandlerImplements ==
  ASSUME TypeOK, Matching, Served, NEW s \in Sessions, Handler(s)
  PROVE  [Abstract!Next]_(Abstract!vars) /\ Served'
<1> USE DEF TypeOK, WireTypeOK, ServerTypeOK
<1> DEFINE p == cur[s]
<1>0. None \notin Publics
  BY WireAssumption DEF Conns
<1>1. CASE Bind(s) \/ Refuse(s) \/ StartEof(s)
  <2>1. UNCHANGED Seen /\ UNCHANGED acceptor
    BY <1>1 DEF Bind, Refuse, StartEof, Seen
  <2>2. Served'
    BY <1>1, <2>1, DesksAfter DEF Bind, Refuse, StartEof, Goto, Seen, Early, Late, Paired
  <2> QED
    BY <2>1, <2>2, Stutters
<1>2. CASE ReadFirstBytes(s) \/ WriteReady(s) \/ Register(s) \/ WriteConnect(s) \/ EndAwait(s)
  <2>1. UNCHANGED Seen /\ UNCHANGED acceptor
    BY <1>2 DEF ReadFirstBytes, WriteReady, Register, WriteConnect, EndAwait, Write, Seen
  <2>2. Served'
    BY <1>2, <2>1, DesksAfter
    DEF ReadFirstBytes, WriteReady, Register, WriteConnect, EndAwait, Goto, Seen,
        Early, Late, Paired
  <2> QED
    BY <2>1, <2>2, Stutters
<1>3. ASSUME NEW q \in Publics, AcceptPublic(s, q) PROVE Abstract!Serve(q, s) /\ Served'
  <2>1. /\ handler[s] = "listen" /\ public[q] = "queued" /\ home[q] = s
        /\ handler' = [handler EXCEPT ![s] = "reading"]
        /\ cur' = [cur EXCEPT ![s] = q]
        /\ public' = [public EXCEPT ![q] = "serving"]
        /\ UNCHANGED <<home, said, mailbox, acceptor>>
    BY <1>3 DEF AcceptPublic, Goto
  <2>2. cur[s] = None
    BY <2>1 DEF Served, Early, Late, Paired
  <2>3. Partner' = Partner
    BY <2>1 DEF Partner
  <2>4. Served'
    BY <2>1, DesksAfter DEF Early
  <2> QED
    BY <2>1, <2>2, <2>3, <2>4 DEF Abstract!Serve
<1>4. ASSUME NoFirstBytes(s) \/ WriteReadyFails(s) \/ WriteConnectFails(s)
      PROVE  Abstract!TurnAway(p, s) /\ p \in Publics /\ Served'
  <2>1. /\ handler[s] \in Early \cup Late
        /\ handler' = [handler EXCEPT ![s] = "listen"]
        /\ cur' = [cur EXCEPT ![s] = None]
        /\ public' = [public EXCEPT ![p] = "dropped"]
        /\ UNCHANGED <<home, said, mailbox, acceptor>>
    BY <1>4 DEF NoFirstBytes, WriteReadyFails, WriteConnectFails, GiveUp, Goto, Early,
      Late, Paired
  <2>2. p \in Publics /\ public[p] = "serving"
    BY <2>1 DEF Matching, HeldOK, ServingOK
  <2>3. Partner' = Partner
    BY <2>1, <2>2 DEF Partner
  <2>4. Served'
    BY <2>1, DesksAfter
  <2> QED
    BY <2>1, <2>2, <2>3, <2>4 DEF Abstract!TurnAway
<1>5. ASSUME Cleanup(s)
      PROVE  (Abstract!Join(p, s) \/ Abstract!TurnAway(p, s)) /\ p \in Publics /\ Served'
  <2>1. /\ handler[s] = "cleanup"
        /\ handler' = [handler EXCEPT ![s] = "listen"]
        /\ cur' = [cur EXCEPT ![s] = None]
        /\ public' = [public EXCEPT ![p] = IF mailbox[p] # None THEN "proxied" ELSE "dropped"]
        /\ UNCHANGED <<home, said, mailbox, acceptor>>
    BY <1>5 DEF Cleanup, Goto
  <2>2. p \in Publics /\ public[p] = "serving"
    BY <2>1 DEF Matching, HeldOK, ServingOK, Late
  <2>3. Served'
    BY <2>1, DesksAfter
  <2>4. CASE mailbox[p] # None
    <3>1. mailbox[p] = p /\ p \in said
      BY <2>2, <2>4 DEF Matching, MailboxOK, Served
    <3>2. Partner' = [Partner EXCEPT ![p] = p]
      BY <2>1, <2>2, <3>1, <1>0 DEF Partner
    <3>3. public' = [public EXCEPT ![p] = "proxied"]
      BY <2>1, <2>4
    <3> QED
      BY <2>1, <2>2, <2>3, <3>1, <3>2, <3>3 DEF Abstract!Join
  <2>5. CASE mailbox[p] = None
    <3>1. public' = [public EXCEPT ![p] = "dropped"]
      BY <2>1, <2>5
    <3>2. Partner' = Partner
      BY <2>1, <2>2, <3>1 DEF Partner
    <3> QED
      BY <2>1, <2>2, <2>3, <3>1, <3>2 DEF Abstract!TurnAway
  <2> QED
    BY <2>4, <2>5
<1>6. ASSUME SeesDisconnect(s) PROVE Abstract!Close(s) /\ Served'
  <2>1. /\ handler[s] = "listen"
        /\ handler' = [handler EXCEPT ![s] = "gone"]
        /\ public' = [q \in Publics |-> IF public[q] = "queued" /\ home[q] = s
                                        THEN "dropped" ELSE public[q]]
        /\ UNCHANGED <<cur, home, said, mailbox, acceptor>>
    BY <1>6 DEF SeesDisconnect, Goto
  <2>2. cur[s] = None
    BY <2>1 DEF Served, Early, Late, Paired
  <2>3. Partner' = Partner
    BY <2>1 DEF Partner
  <2>4. Served'
    BY <2>1, DesksAfter DEF Early, Late, Paired
  <2> QED
    BY <2>1, <2>2, <2>3, <2>4 DEF Abstract!Close
<1> QED
  BY <1>1, <1>2, <1>3, <1>4, <1>5, <1>6 DEF Handler, HandlerStepOf, Abstract!Next

\* A client: its CALLBACK line is the answer, to a user whose handshake has begun;
\* nothing else it does, or that befalls it, is seen.
LEMMA ClientImplements ==
  ASSUME TypeOK, Matching, Served, NEW s \in Sessions,
         ClientStep(s) \/ TaskStep(s) \/ ClientFault(s), UNCHANGED serverVars
  PROVE  [Abstract!Next]_(Abstract!vars) /\ Served'
<1> USE DEF TypeOK, WireTypeOK, ServerTypeOK, ClientTypeOK
<1>1. CASE WriteCallback(s)
  <2> DEFINE p == dialing[s]
  <2>1. p \in Publics /\ said' = said \cup {p} /\ UNCHANGED home
    BY <1>1 DEF WriteCallback, Matching, HeldOK
  <2>2. ~Uninvited(p)
    BY DEF Uninvited
  <2>3. handshakeId[p] # NoId
    BY <2>1, <2>2 DEF Matching, NoTrace
  <2>4. public[p] \notin {"away", "queued"}
    BY <2>1, <2>3 DEF Matching, IdsOK
  <2>5. said' \cap Publics = (said \cap Publics) \cup {p} /\ Partner' = Partner
    BY <2>1 DEF Partner
  <2>6. Abstract!Answer(p)
    BY <2>1, <2>4, <2>5 DEF Abstract!Answer
  <2>7. Served'
    BY <2>1 DEF Served
  <2> QED
    BY <2>1, <2>6, <2>7 DEF Abstract!Next
<1>2. CASE WriteRegister(s)
  <2>1. said' = said \cup {s} /\ UNCHANGED home
    BY <1>2 DEF WriteRegister
  <2>2. said' \cap Publics = said \cap Publics
    BY <2>1, WireAssumption
  <2> QED
    BY <2>1, <2>2 DEF Served, Abstract!vars, Partner
<1>3. CASE ~WriteCallback(s) /\ ~WriteRegister(s)
  <2>1. UNCHANGED <<home, said>>
    BY <1>3 DEF ClientStep, TaskStep, ClientFault, Start, ReadReady, ReadOther, ReadConnect,
      ConnectTimeout, Dial, Eof, Down, SweepActive, TaskEnds, DialFails, WriteCallbackFails,
      CutLine, ReadFails, Crash
  <2>2. UNCHANGED Seen /\ Served'
    BY <2>1 DEF Served, Seen
  <2> QED
    BY <2>2, Stutters
<1> QED
  BY <1>1, <1>2, <1>3

\* Users, stray connections and the clock: only an arrival is seen.
LEMMA OutsideImplements ==
  ASSUME TypeOK, Matching, Served,
         (OutsideStep /\ UNCHANGED clientVars) \/ Tick \/ UNCHANGED vars
  PROVE  [Abstract!Next]_(Abstract!vars) /\ Served'
<1> USE DEF TypeOK, WireTypeOK, ServerTypeOK
<1>1. ASSUME NEW p \in Publics, NEW s \in Sessions, Arrives(p, s)
      PROVE  Abstract!Arrive(p, s) /\ Served'
  <2>1. Partner' = Partner
    BY <1>1 DEF Arrives, Partner
  <2> QED
    BY <1>1, <2>1 DEF Arrives, Abstract!Arrive, Served
<1>2. ASSUME NEW c \in Probes, ProbeSpeaks(c) PROVE UNCHANGED Abstract!vars /\ Served'
  <2>1. said' = said \cup {c} /\ UNCHANGED <<home, serverVars>>
    BY <1>2 DEF ProbeSpeaks
  <2>2. said' \cap Publics = said \cap Publics
    BY <2>1, WireAssumption
  <2> QED
    BY <2>1, <2>2 DEF Served, Abstract!vars, Partner
<1>3. ASSUME (\E p \in Publics : Speaks(p) \/ Leaves(p)) \/ Tick \/ UNCHANGED vars
             \/ (\E c \in Probes : ProbeConnects(c) \/ ProbeHangsUp(c))
      PROVE  UNCHANGED Abstract!vars /\ Served'
  <2>1. UNCHANGED Seen /\ UNCHANGED <<acceptor, handler>>
    BY <1>3 DEF Speaks, Leaves, Tick, ProbeConnects, ProbeHangsUp, Seen
  <2> QED
    BY <2>1, Stutters DEF Served, Seen
<1> QED
  BY <1>1, <1>2, <1>3 DEF OutsideStep, Abstract!Next

-----------------------------------------------------------------------------
\* README.md "Architecture" 1-4, end to end: whatever the interleaving and the
\* faults, the tunnel does nothing but serve users one at a time, and join each to
\* its own callback, made for it, or turn it away.
THEOREM Implements ==
  ASSUME WholeLines, ConnectionTimeout > 0
  PROVE  Spec => ImplementsMatchmaker
<1>1. Init => Abstract!Init /\ Served
  <2> SUFFICES ASSUME Init PROVE Abstract!Init /\ Served
    OBVIOUS
  <2>1. Partner = [p \in Publics |-> None]
    BY DEF Init, ServerInit, Partner
  <2> QED
    BY <2>1 DEF Init, WireInit, ServerInit, Served, Idle, Hold, Abstract!Init
<1>2. TypeOK /\ Matching /\ Served /\ [Next]_vars => [Abstract!Next]_(Abstract!vars) /\ Served'
  <2> SUFFICES ASSUME TypeOK, Matching, Served, [Next]_vars
               PROVE  [Abstract!Next]_(Abstract!vars) /\ Served'
    OBVIOUS
  <2>1. CASE SystemStep
    BY <2>1, AcceptorImplements, HandlerImplements, ClientImplements DEF SystemStep, Control
  <2>2. CASE OtherStep
    BY <2>2, AcceptorImplements, OutsideImplements, ClientImplements DEF OtherStep
  <2>3. CASE Tick \/ Finished \/ UNCHANGED vars
    BY <2>3, OutsideImplements DEF Finished
  <2> QED
    BY <2>1, <2>2, <2>3 DEF Next
<1>3. Spec => []TypeOK /\ []Matching
  BY TypeCorrect, MatchingHolds
<1> QED
  BY <1>1, <1>2, <1>3, PTL DEF Spec, ImplementsMatchmaker, Abstract!Spec
=============================================================================
