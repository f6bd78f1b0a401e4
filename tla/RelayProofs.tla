----------------------------- MODULE RelayProofs -----------------------------
(***************************************************************************)
(* Why a session delivers what was sent, in order and, until something     *)
(* breaks a direction, all of it, and so implements two streams: for any   *)
(* number of chunks, any capacity and every mode.  A direction is a chain  *)
(* of three connections and two tasks; each task holds the chunk that      *)
(* follows what is downstream of it, or will never write again.            *)
(***************************************************************************)
EXTENDS Streaming, SequenceTheorems, TLAPS

Run(q, n) == \A i \in 1 .. Len(q) : q[i] = n + i

\* The next chunks: one in the task's hands, and those that wait to be read by it.
Next1(chunk, q, n) == chunk \in {0, n + 1} /\ Run(q, n + One(chunk))

GiverInOrder(d) == Next1(held[Giver(d)], Middle(d), Given(d))
TakerInOrder(d) ==
  /\ Next1(held[Taker(d)], Source(d), Taken(d))
  /\ sent[d] = Taken(d) + One(held[Taker(d)]) + Len(Source(d))

ChainInOrder(d) ==
  /\ Run(got[d], 0) /\ Run(Last(d), Len(got[d]))
  /\ Delivers(Giver(d)) => GiverInOrder(d)
  /\ Delivers(Giver(d)) /\ Delivers(Taker(d)) => TakerInOrder(d)

\* What nothing disturbed is complete ...
Intact(d) ==
  /\ reset = {} /\ ~CutShort(d)
  /\ d = "up" => ~Refused /\ ~Declined
AllThere == \A d \in Dirs : Intact(d) => GiverInOrder(d) /\ TakerInOrder(d)

\* ... and a task is over only when there is nothing left for it to move.
TakerDrained(d) ==
  Intact(d) /\ Taker(d) \in ended =>
    held[Taker(d)] = 0 /\ Source(d) = <<>> /\ user[SenderOf(d)] # "open"
GiverDrained(d) ==
  Intact(d) /\ ~Dropped /\ Giver(d) \in ended =>
    held[Giver(d)] = 0 /\ Middle(d) = <<>> /\ Taker(d) \in ended
Drained == \A d \in Dirs : TakerDrained(d) /\ GiverDrained(d)

\* Before the backend answers nothing has come from it.
Undialed ==
  phase["client"] = "dial" =>
    /\ user["backend"] = "away" /\ held["client_down"] = 0 /\ Source("down") = <<>>
    /\ "client_down" \in ended => "client_up" \in ended
Dialed == user["backend"] = "away" => phase["client"] = "dial"
ServerPhase == phase["server"] \notin {"dial", "upgrade"}

Carried ==
  /\ ChainInOrder("up") /\ ChainInOrder("down")
  /\ AllThere /\ Drained /\ Undialed /\ Dialed /\ ServerPhase

-----------------------------------------------------------------------------
(* Types.                                                                  *)

Chunks == 1 .. MaxChunks
Pipes == [Links -> [Dirs -> Seq(Chunks)]]
Short(p) == \A l \in Links : \A d \in Dirs : Len(p[l][d]) <= Capacity

\* Where each task and each end of a connection is.
LEMMA Geometry ==
  /\ \A t \in Tasks : From[t] \in Links /\ To[t] \in Links /\ Dir(t) \in Dirs /\ Side(t) \in Sides
  /\ \A t \in Tasks : t \in TasksOf[Side(t)] /\ TasksOf[Side(t)] \subseteq Tasks
  /\ \A l \in Links, d \in Dirs : Receiver(l, d) \in Users \cup Sides /\ Sender(l, d) \in Users \cup Sides
  /\ \A u \in Users : Own(u) \in Links /\ OutDir(u) \in Dirs /\ InDir(u) \in Dirs
BY DEF Tasks, TasksOf, From, To, Dir, Side, Links, Dirs, Users, Sides, Receiver, Sender,
       Upper, Lower, Own, OutDir, InDir

\* One direction of one connection changes.
LEMMA PipeSet ==
  ASSUME pipe \in Pipes, NEW l \in Links, NEW d \in Dirs, NEW q \in Seq(Chunks),
         pipe' = [pipe EXCEPT ![l][d] = q]
  PROVE  /\ pipe' \in Pipes
         /\ \A m \in Links, e \in Dirs :
              pipe'[m][e] = IF m = l /\ e = d THEN q ELSE pipe[m][e]
         /\ Short(pipe) /\ Len(q) <= Capacity => Short(pipe')
<1>1. pipe' \in Pipes
  BY DEF Pipes
<1>2. \A m \in Links, e \in Dirs :
        pipe'[m][e] = IF m = l /\ e = d THEN q ELSE pipe[m][e]
  BY DEF Pipes
<1> QED BY <1>1, <1>2 DEF Short

\* Closing ends empties what flows to them.
LEMMA Closing ==
  ASSUME pipe \in Pipes, reset \subseteq Links, NEW es, CloseEnds(es)
  PROVE  /\ pipe' \in Pipes /\ reset' \subseteq Links /\ reset \subseteq reset'
         /\ \A l \in Links, d \in Dirs :
              pipe'[l][d] = IF Receiver(l, d) \in es THEN <<>> ELSE pipe[l][d]
         /\ \A l \in Links, d \in Dirs :
              Receiver(l, d) \in es /\ pipe[l][d] # <<>> => l \in reset'
         /\ Short(pipe) => Short(pipe')
<1>1. \A l \in Links, d \in Dirs :
        pipe'[l][d] = IF Receiver(l, d) \in es THEN <<>> ELSE pipe[l][d]
  BY DEF CloseEnds
<1>2. pipe' \in Pipes
  <2>1. \A l \in Links, d \in Dirs :
          (IF Receiver(l, d) \in es THEN <<>> ELSE pipe[l][d]) \in Seq(Chunks)
    BY EmptySeq DEF Pipes
  <2> QED BY <2>1 DEF CloseEnds, Pipes
<1>3. reset \subseteq reset' /\ reset' \subseteq Links
  BY DEF CloseEnds
<1>4. ASSUME NEW l \in Links, NEW d \in Dirs, Receiver(l, d) \in es, pipe[l][d] # <<>>
      PROVE  l \in reset'
  BY <1>4 DEF CloseEnds
<1>5. Short(pipe) => Short(pipe')
  BY <1>1, RelayAssumption DEF Short, RelayAssumption
<1> QED BY <1>1, <1>2, <1>3, <1>4, <1>5

\* What the other variables may be.
Rests ==
  /\ sent \in [Dirs -> 0 .. MaxChunks]
  /\ got \in [Dirs -> Seq(Chunks)]
  /\ held \in [Tasks -> 0 .. MaxChunks]
  /\ ended \subseteq Tasks
  /\ phase \in [Sides -> {"dial", "first", "upgrade", "relay", "websocket"}]
  /\ user \in [Users -> {"away", "open", "shut", "closed"}]
  /\ reset \subseteq Links
  /\ waiting \in {"select", "stopped", "idle"}
  /\ mode \in ModeType
  /\ timed \subseteq ended

LEMMA TypeParts == TypeOK <=> pipe \in Pipes /\ Short(pipe) /\ Rests
BY DEF TypeOK, Pipes, Short, Rests, Chunks

LEMMA RelayInit == Init => TypeOK
<1> SUFFICES ASSUME Init PROVE pipe \in Pipes /\ Short(pipe) /\ Rests
  BY TypeParts
<1>1. pipe \in Pipes /\ Short(pipe)
  BY EmptySeq, RelayAssumption DEF Init, Pipes, Short, RelayAssumption
<1>2. Rests
  BY EmptySeq, RelayAssumption
  DEF Init, Rests, RelayAssumption, Tasks, TasksOf, Sides, Users, Dirs
<1> QED BY <1>1, <1>2

\* Ending tasks: what it takes with it.
LEMMA Ending ==
  ASSUME TypeOK, NEW ts \in SUBSET Tasks, EndTasks(ts)
  PROVE  /\ ended' = ended \cup ts /\ ended' \subseteq Tasks
         /\ held' \in [Tasks -> 0 .. MaxChunks]
         /\ \A t \in Tasks : held'[t] = IF t \in ts THEN 0 ELSE held[t]
         /\ pipe' \in Pipes /\ Short(pipe') /\ reset' \subseteq Links /\ reset \subseteq reset'
         /\ \A l \in Links, d \in Dirs :
              \/ pipe'[l][d] = pipe[l][d]
              \/ /\ pipe'[l][d] = <<>> /\ l \in reset'
                 /\ Receiver(l, d) \in Sides /\ TasksOf[Receiver(l, d)] \subseteq ended'
<1> DEFINE es == {side \in Sides : ~Over(side) /\ TasksOf[side] \subseteq ended \cup ts}
<1>1. /\ pipe' \in Pipes /\ reset' \subseteq Links /\ reset \subseteq reset' /\ Short(pipe')
      /\ \A l \in Links, d \in Dirs :
           pipe'[l][d] = IF Receiver(l, d) \in es THEN <<>> ELSE pipe[l][d]
      /\ \A l \in Links, d \in Dirs :
           Receiver(l, d) \in es /\ pipe[l][d] # <<>> => l \in reset'
  BY Closing, TypeParts DEF EndTasks, Rests
<1>2. ended' = ended \cup ts /\ held' = [t \in Tasks |-> IF t \in ts THEN 0 ELSE held[t]]
  BY DEF EndTasks
<1>3. ended' \subseteq Tasks /\ held' \in [Tasks -> 0 .. MaxChunks]
  BY <1>2, RelayAssumption DEF TypeOK, RelayAssumption
<1>4. ASSUME NEW l \in Links, NEW d \in Dirs, pipe'[l][d] # pipe[l][d]
      PROVE  /\ pipe'[l][d] = <<>> /\ l \in reset'
             /\ Receiver(l, d) \in Sides /\ TasksOf[Receiver(l, d)] \subseteq ended'
  BY <1>1, <1>2, <1>4
<1> QED BY <1>1, <1>2, <1>3, <1>4

LEMMA Stopping ==
  ASSUME TypeOK, NEW t \in Tasks, Stop(t)
  PROVE  LET ts == IF Spawned(Side(t)) THEN {t} ELSE TasksOf[Side(t)]
         IN  t \in ts /\ ts \in SUBSET Tasks /\ EndTasks(ts)
BY Geometry DEF Stop

\* A task that stops is over, and its side's other task too, before they are spawned.
LEMMA Stopped ==
  ASSUME TypeOK, NEW t \in Tasks, Stop(t)
  PROVE  /\ t \in ended' /\ ended \subseteq ended' /\ ended' \subseteq Tasks
         /\ ~Spawned(Side(t)) => TasksOf[Side(t)] \subseteq ended'
         /\ held' \in [Tasks -> 0 .. MaxChunks]
         /\ pipe' \in Pipes /\ Short(pipe') /\ reset' \subseteq Links
<1> DEFINE ts == IF Spawned(Side(t)) THEN {t} ELSE TasksOf[Side(t)]
<1>1. t \in ts /\ ts \in SUBSET Tasks /\ EndTasks(ts)
  BY Stopping
<1>2. ended' = ended \cup ts /\ ended' \subseteq Tasks
        /\ held' \in [Tasks -> 0 .. MaxChunks]
        /\ pipe' \in Pipes /\ Short(pipe') /\ reset' \subseteq Links
  BY <1>1, Ending
<1> QED BY <1>1, <1>2

LEMMA TaskTypes ==
  ASSUME TypeOK, NEW t \in Tasks, TaskStep(t)
  PROVE  TypeOK'
<1> SUFFICES pipe' \in Pipes /\ Short(pipe') /\ Rests'
  BY DEF TypeOK, Pipes, Short, Rests, Chunks
<1> pipe \in Pipes /\ Short(pipe) /\ Rests
  BY TypeParts
<1> DEFINE lf == From[t]
           lt == To[t]
           d == Dir(t)
<1>0. lf \in Links /\ lt \in Links /\ d \in Dirs /\ Side(t) \in Sides
  BY Geometry
<1>1. CASE Read(t)
  <2> DEFINE q == pipe[lf][d]
  <2>1. q \in Seq(Chunks) /\ q # <<>> /\ Len(q) <= Capacity
    BY <1>0, <1>1 DEF Read, Input, Pipes, Short
  <2>2. Head(q) \in Chunks /\ Tail(q) \in Seq(Chunks) /\ Len(Tail(q)) <= Capacity
    BY <2>1, HeadTailProperties, RelayAssumption DEF RelayAssumption
  <2>3. pipe' = [pipe EXCEPT ![lf][d] = Tail(q)]
    BY <1>1 DEF Read
  <2>4. pipe' \in Pipes /\ Short(pipe')
    BY <1>0, <2>2, <2>3, PipeSet
  <2>5. held' = [held EXCEPT ![t] = Head(q)]
    BY <1>1 DEF Read, Input
  <2>6. held' \in [Tasks -> 0 .. MaxChunks]
    BY <2>2, <2>5 DEF Rests, Chunks
  <2> QED BY <1>1, <2>4, <2>6 DEF Read, Rests
<1>2. CASE ReadEnds(t) \/ WriteFails(t)
  <2>1. /\ ended \subseteq ended' /\ ended' \subseteq Tasks
        /\ held' \in [Tasks -> 0 .. MaxChunks]
        /\ pipe' \in Pipes /\ Short(pipe') /\ reset' \subseteq Links
    BY <1>2, Stopped DEF ReadEnds, WriteFails
  <2> QED BY <1>2, <2>1 DEF ReadEnds, WriteFails, Rests
<1>3. CASE IdleEnds(t)
  <2>1. /\ ended \subseteq ended' /\ t \in ended' /\ ended' \subseteq Tasks
        /\ held' \in [Tasks -> 0 .. MaxChunks]
        /\ pipe' \in Pipes /\ Short(pipe') /\ reset' \subseteq Links
    BY <1>3, Stopped DEF IdleEnds
  <2> QED BY <1>3, <2>1 DEF IdleEnds, Rests
<1>4. ASSUME Written(t)
      PROVE  /\ held' \in [Tasks -> 0 .. MaxChunks]
             /\ phase' \in [Sides -> {"dial", "first", "upgrade", "relay", "websocket"}]
  <2>1. NextPhases(Side(t)) \subseteq {"dial", "first", "upgrade", "relay", "websocket"}
    BY <1>0 DEF NextPhases, Upgraded, Rests
  <2>2. held' \in [Tasks -> 0 .. MaxChunks]
    BY <1>4, RelayAssumption DEF Written, Rests, RelayAssumption
  <2>3. PICK next \in NextPhases(Side(t)) : phase' = [phase EXCEPT ![Side(t)] = next]
    BY <1>4 DEF Written, EnterNextPhase
  <2> QED BY <1>0, <2>1, <2>2, <2>3 DEF Rests
<1>5. CASE Write(t)
  <2> DEFINE q == pipe[lt][d]
  <2>1. q \in Seq(Chunks) /\ held[t] \in Chunks /\ Len(q) < Capacity
    BY <1>0, <1>5 DEF Write, Output, Pipes, Rests, Chunks
  <2>2. Append(q, held[t]) \in Seq(Chunks) /\ Len(Append(q, held[t])) <= Capacity
    BY <2>1, AppendProperties, RelayAssumption DEF RelayAssumption
  <2>3. pipe' = [pipe EXCEPT ![lt][d] = Append(q, held[t])]
    BY <1>5 DEF Write
  <2>4. pipe' \in Pipes /\ Short(pipe')
    BY <1>0, <2>2, <2>3, PipeSet
  <2> QED BY <1>4, <1>5, <2>4 DEF Write, Rests
<1>6. CASE WriteVanishes(t)
  BY <1>0, <1>4, <1>6 DEF WriteVanishes, Rests
<1> QED BY <1>1, <1>2, <1>3, <1>5, <1>6 DEF TaskStep

LEMMA OtherTypes ==
  ASSUME TypeOK, ClientStep \/ BackendAccepts \/ BackendRefuses
  PROVE  TypeOK'
<1> SUFFICES pipe' \in Pipes /\ Short(pipe') /\ Rests'
  BY DEF TypeOK, Pipes, Short, Rests, Chunks
<1> pipe \in Pipes /\ Short(pipe) /\ Rests
  BY TypeParts
<1>1. CASE FirstReadEmpty \/ LegacyStop \/ LegacyIdle \/ BackendAccepts
  BY <1>1 DEF FirstReadEmpty, LegacyStop, LegacyIdle, BackendAccepts, Rests
<1>2. CASE UpgradeTimeout
  <2>1. /\ ended \subseteq ended' /\ TasksOf["client"] \subseteq ended' /\ ended' \subseteq Tasks
        /\ held' \in [Tasks -> 0 .. MaxChunks]
        /\ pipe' \in Pipes /\ Short(pipe') /\ reset' \subseteq Links
    <3>1. Stop("client_down") /\ "client_down" \in Tasks /\ Side("client_down") = "client"
          /\ ~Spawned("client")
      BY <1>2 DEF UpgradeTimeout, Side, TasksOf, Tasks, Spawned
    <3> QED BY <3>1, Stopped
  <2> QED BY <1>2, <2>1 DEF UpgradeTimeout, Rests
<1>3. CASE BackendRefuses
  <2>1. /\ ended \subseteq ended' /\ ended' \subseteq Tasks
        /\ held' \in [Tasks -> 0 .. MaxChunks]
        /\ pipe' \in Pipes /\ Short(pipe') /\ reset' \subseteq Links
    BY <1>3, Ending DEF BackendRefuses, TasksOf, Tasks
  <2> QED BY <1>3, <2>1 DEF BackendRefuses, Rests
<1> QED BY <1>1, <1>2, <1>3 DEF ClientStep

LEMMA UserTypes ==
  ASSUME TypeOK, NEW u \in Users, UserStep(u) \/ UserReads(u)
  PROVE  TypeOK'
<1> SUFFICES pipe' \in Pipes /\ Short(pipe') /\ Rests'
  BY DEF TypeOK, Pipes, Short, Rests, Chunks
<1> pipe \in Pipes /\ Short(pipe) /\ Rests
  BY TypeParts
<1>0. Own(u) \in Links /\ OutDir(u) \in Dirs /\ InDir(u) \in Dirs
  BY Geometry
<1>1. CASE UserSends(u)
  <2> DEFINE d == OutDir(u)
             q == pipe[Own(u)][d]
             n == sent[d] + 1
  <2>1. q \in Seq(Chunks) /\ n \in Chunks /\ Len(q) < Capacity
    BY <1>0, <1>1, RelayAssumption DEF UserSends, Pipes, Rests, Chunks, RelayAssumption
  <2>2. Append(q, n) \in Seq(Chunks) /\ Len(Append(q, n)) <= Capacity
    BY <2>1, AppendProperties, RelayAssumption DEF RelayAssumption
  <2>3. pipe' = [pipe EXCEPT ![Own(u)][d] = Append(q, n)]
    BY <1>1 DEF UserSends
  <2> HIDE DEF q, n
  <2>4. pipe' \in Pipes /\ Short(pipe')
    BY <1>0, <2>2, <2>3, PipeSet
  <2>5. sent' = [sent EXCEPT ![d] = n]
    BY <1>1 DEF UserSends, n
  <2>6. sent' \in [Dirs -> 0 .. MaxChunks]
    <3>1. n \in 0 .. MaxChunks
      BY <2>1, RelayAssumption DEF Chunks, RelayAssumption
    <3> QED BY <1>0, <2>5, <3>1 DEF Rests
  <2> QED BY <1>1, <2>4, <2>6 DEF UserSends, Rests
<1>2. CASE UserReads(u)
  <2> DEFINE d == InDir(u)
             q == pipe[Own(u)][d]
  <2>1. q \in Seq(Chunks) /\ q # <<>> /\ Len(q) <= Capacity /\ got[d] \in Seq(Chunks)
    BY <1>0, <1>2 DEF UserReads, Pipes, Short, Rests
  <2>2. Head(q) \in Chunks /\ Tail(q) \in Seq(Chunks) /\ Len(Tail(q)) <= Capacity
    BY <2>1, HeadTailProperties, RelayAssumption DEF RelayAssumption
  <2>3. pipe' = [pipe EXCEPT ![Own(u)][d] = Tail(q)]
    BY <1>2 DEF UserReads
  <2>4. pipe' \in Pipes /\ Short(pipe')
    BY <1>0, <2>2, <2>3, PipeSet
  <2>5. got' = [got EXCEPT ![d] = Append(got[d], Head(q))] /\ Append(got[d], Head(q)) \in Seq(Chunks)
    BY <1>2, <2>1, <2>2, AppendProperties DEF UserReads
  <2>6. got' \in [Dirs -> Seq(Chunks)]
    BY <2>5 DEF Rests
  <2> QED BY <1>2, <2>4, <2>6 DEF UserReads, Rests
<1>3. CASE UserShuts(u)
  BY <1>3 DEF UserShuts, Rests
<1>4. CASE UserCloses(u)
  <2>1. pipe' \in Pipes /\ Short(pipe') /\ reset' \subseteq Links
    BY <1>4, Closing DEF UserCloses, Rests
  <2> QED BY <1>4, <2>1 DEF UserCloses, Rests
<1> QED BY <1>1, <1>2, <1>3, <1>4 DEF UserStep

LEMMA RelayTyped == TypeOK /\ [Next]_vars => TypeOK'
<1> SUFFICES ASSUME TypeOK, [Next]_vars PROVE TypeOK'
  OBVIOUS
<1>1. CASE Finished \/ UNCHANGED vars
  BY <1>1 DEF Finished, vars, TypeOK
<1> QED BY <1>1, TaskTypes, OtherTypes, UserTypes DEF Next

\* Every variable keeps its type: no connection holds more than its capacity, and
\* only tasks that are over were ended by a timer.
THEOREM RelayTypeCorrect == Spec => []TypeOK
<1> QED BY RelayInit, RelayTyped, PTL DEF Spec

-----------------------------------------------------------------------------
(* One direction, as a chain.                                              *)

LEMMA Places ==
  ASSUME NEW d \in Dirs
  PROVE  /\ Taker(d) \in Tasks /\ Giver(d) \in Tasks /\ Taker(d) # Giver(d)
         /\ Dir(Taker(d)) = d /\ Dir(Giver(d)) = d
         /\ To[Taker(d)] = "call" /\ From[Giver(d)] = "call"
         /\ From[Taker(d)] \in Links \ {"call"} /\ To[Giver(d)] \in Links \ {"call"}
         /\ From[Taker(d)] # To[Giver(d)]
         /\ Receiver(From[Taker(d)], d) = Side(Taker(d)) /\ Taker(d) \in TasksOf[Side(Taker(d))]
         /\ Receiver("call", d) = Side(Giver(d)) /\ Giver(d) \in TasksOf[Side(Giver(d))]
         /\ Side(Taker(d)) \in Sides \ Users /\ Side(Giver(d)) \in Sides \ Users
         /\ Source(d) = pipe[From[Taker(d)]][d] /\ Last(d) = pipe[To[Giver(d)]][d]
         /\ \A t \in Tasks : Dir(t) = d => t \in {Taker(d), Giver(d)}
BY DEF Taker, Giver, Tasks, Dir, Side, TasksOf, From, To, Links, Dirs, Users, Sides, Receiver,
       Upper, Lower, Source, Last

LEMMA Places2 ==
  ASSUME NEW d \in Dirs
  PROVE  /\ Source(d)' = pipe'[From[Taker(d)]][d] /\ Last(d)' = pipe'[To[Giver(d)]][d]
         /\ Middle(d)' = pipe'["call"][d] /\ Middle(d) = pipe["call"][d]
BY DEF Taker, Giver, From, To, Dirs, Source, Last, Middle

LEMMA Typed ==
  ASSUME TypeOK, NEW d \in Dirs
  PROVE  /\ Source(d) \in Seq(Chunks) /\ Middle(d) \in Seq(Chunks) /\ Last(d) \in Seq(Chunks)
         /\ got[d] \in Seq(Chunks) /\ sent[d] \in Nat
         /\ held[Taker(d)] \in Nat /\ held[Giver(d)] \in Nat
         /\ Given(d) \in Nat /\ Taken(d) \in Nat
<1>1. /\ Source(d) \in Seq(Chunks) /\ Middle(d) \in Seq(Chunks) /\ Last(d) \in Seq(Chunks)
      /\ got[d] \in Seq(Chunks) /\ sent[d] \in Nat
      /\ held[Taker(d)] \in Nat /\ held[Giver(d)] \in Nat
  BY RelayAssumption
  DEF TypeOK, RelayAssumption, Source, Middle, Last, Links, Dirs, Taker, Giver, Tasks, Chunks
<1>2. /\ Len(Source(d)) \in Nat /\ Len(Middle(d)) \in Nat /\ Len(Last(d)) \in Nat
      /\ Len(got[d]) \in Nat
  BY <1>1, LenProperties
<1>3. Given(d) \in Nat
  BY <1>2 DEF Given
<1>4. One(held[Giver(d)]) \in Nat
  BY DEF One
<1>5. Taken(d) \in Nat
  BY <1>2, <1>3, <1>4 DEF Taken
<1> QED BY <1>1, <1>3, <1>5

LEMMA RunTail ==
  ASSUME NEW q \in Seq(Chunks), q # <<>>, NEW n \in Nat, Run(q, n)
  PROVE  /\ Head(q) = n + 1 /\ Run(Tail(q), n + 1)
         /\ Len(Tail(q)) = Len(q) - 1 /\ Tail(q) \in Seq(Chunks)
<1>1. /\ Len(q) \in Nat /\ Len(q) >= 1 /\ Head(q) = q[1]
      /\ Tail(q) \in Seq(Chunks) /\ Len(Tail(q)) = Len(q) - 1
      /\ \A i \in 1 .. Len(Tail(q)) : Tail(q)[i] = q[i + 1]
  BY HeadTailProperties, LenProperties, EmptySeq
<1> QED BY <1>1 DEF Run

LEMMA RunAppend ==
  ASSUME NEW q \in Seq(Chunks), NEW n \in Nat, Run(q, n), NEW x \in Chunks, x = n + Len(q) + 1
  PROVE  /\ Run(Append(q, x), n)
         /\ Len(Append(q, x)) = Len(q) + 1 /\ Append(q, x) \in Seq(Chunks)
<1>1. /\ Len(q) \in Nat /\ Append(q, x) \in Seq(Chunks) /\ Len(Append(q, x)) = Len(q) + 1
      /\ \A i \in 1 .. Len(q) : Append(q, x)[i] = q[i]
      /\ Append(q, x)[Len(q) + 1] = x
  BY AppendProperties, LenProperties
<1> QED BY <1>1 DEF Run

LEMMA Empty ==
  ASSUME NEW n \in Nat
  PROVE  Run(<<>>, n) /\ Len(<<>>) = 0
BY DEF Run

\* What a task could not do any more it will never do again.
LEMMA DeliversNoMore ==
  ASSUME ended \subseteq ended', reset \subseteq reset',
         \A u \in Users : user[u] = "closed" => user'[u] = "closed",
         NEW t \in Tasks, Delivers(t)'
  PROVE  Delivers(t)
BY Geometry DEF Delivers, HasClosed, Over

\* Nothing moves in this direction: a step may empty a connection whose receiver is
\* closed, and end the task that held a chunk or reset what it writes to.
Unmoved(d) ==
  /\ got'[d] = got[d] /\ sent'[d] = sent[d]
  /\ ended \subseteq ended' /\ reset \subseteq reset'
  /\ \A u \in Users : user[u] = "closed" => user'[u] = "closed"
  /\ \A l \in Links : \/ pipe'[l][d] = pipe[l][d]
                      \/ pipe'[l][d] = <<>> /\ HasClosed(Receiver(l, d))'
  /\ \A t \in Tasks : Dir(t) = d => held'[t] = held[t] \/ ~Delivers(t)'

\* What can still be delivered stays where it is.
LEMMA WhatStays ==
  ASSUME NEW d \in Dirs, Unmoved(d)
  PROVE  /\ (Delivers(Giver(d))' => Delivers(Giver(d))) /\ (Delivers(Taker(d))' => Delivers(Taker(d)))
         /\ Last(d)' = Last(d) \/ (Last(d)' = <<>> /\ ~Delivers(Giver(d))')
         /\ Delivers(Giver(d))' => Middle(d)' = Middle(d) /\ held'[Giver(d)] = held[Giver(d)]
         /\ Delivers(Taker(d))' => Source(d)' = Source(d) /\ held'[Taker(d)] = held[Taker(d)]
<1> DEFINE G == Giver(d)
           T == Taker(d)
<1>1. (Delivers(G)' => Delivers(G)) /\ (Delivers(T)' => Delivers(T))
  BY DeliversNoMore, Places DEF Unmoved
<1>2. Last(d)' = Last(d) \/ (Last(d)' = <<>> /\ ~Delivers(G)')
  BY Places, Places2 DEF Delivers, Unmoved
<1>3. Delivers(G)' => Middle(d)' = Middle(d) /\ held'[G] = held[G]
  <2>1. HasClosed(Receiver("call", d))' => G \in ended'
    BY Places DEF HasClosed, Over
  <2> QED BY <2>1, Places, Places2 DEF Delivers, Links, Unmoved
<1>4. Delivers(T)' => Source(d)' = Source(d) /\ held'[T] = held[T]
  <2>1. HasClosed(Receiver(From[T], d))' => T \in ended'
    BY Places DEF HasClosed, Over
  <2> QED BY <2>1, Places, Places2 DEF Delivers, Unmoved
<1> QED BY <1>1, <1>2, <1>3, <1>4

LEMMA NothingMoves ==
  ASSUME TypeOK, NEW d \in Dirs, ChainInOrder(d), Unmoved(d)
  PROVE  ChainInOrder(d)'
<1> DEFINE G == Giver(d)
           T == Taker(d)
<1>1. /\ (Delivers(G)' => Delivers(G)) /\ (Delivers(T)' => Delivers(T))
      /\ Last(d)' = Last(d) \/ (Last(d)' = <<>> /\ ~Delivers(G)')
  BY WhatStays
<1>2. Delivers(G)' => Middle(d)' = Middle(d) /\ held'[G] = held[G] /\ Last(d)' = Last(d)
  BY <1>1, WhatStays
<1>3. Delivers(T)' => Source(d)' = Source(d) /\ held'[T] = held[T]
  BY WhatStays
<1>4. UNCHANGED <<got[d], sent[d]>>
  BY DEF Unmoved
<1>5. Run(got[d], 0)' /\ Run(Last(d), Len(got[d]))'
  <2>1. Run(<<>>, Len(got[d]))
    BY Typed, LenProperties, Empty
  <2> QED BY <1>1, <1>4, <2>1 DEF ChainInOrder, Run
<1>6. Delivers(G)' => GiverInOrder(d)'
  BY <1>1, <1>2, <1>4 DEF ChainInOrder, GiverInOrder, Next1, Given, One, Run
<1>7. Delivers(G)' /\ Delivers(T)' => TakerInOrder(d)'
  BY <1>1, <1>2, <1>3, <1>4 DEF ChainInOrder, TakerInOrder, Next1, Given, Taken, One, Run
<1> QED BY <1>5, <1>6, <1>7 DEF ChainInOrder

\* The six ways a chunk moves on in its direction.
LEMMA SourceGrows ==
  ASSUME TypeOK, NEW d \in Dirs, TakerInOrder(d), sent[d] + 1 \in Chunks,
         sent'[d] = sent[d] + 1, Source(d)' = Append(Source(d), sent[d] + 1),
         UNCHANGED <<got[d], Last(d), Middle(d), held[Giver(d)], held[Taker(d)]>>
  PROVE  TakerInOrder(d)'
<1> DEFINE q == Source(d)
           n == Taken(d) + One(held[Taker(d)])
           x == sent[d] + 1
<1>1. Taken(d)' = Taken(d) /\ One(held[Taker(d)])' = One(held[Taker(d)])
  BY DEF Taken, Given, One
<1>2. n \in Nat /\ q \in Seq(Chunks) /\ Run(q, n) /\ x = n + Len(q) + 1 /\ Len(q) \in Nat
  BY Typed, LenProperties DEF TakerInOrder, Next1, One
<1>3. Run(Append(q, x), n) /\ Len(Append(q, x)) = Len(q) + 1
  <2> HIDE DEF q, n, x
  <2>1. x \in Chunks
    BY DEF x
  <2> QED BY <1>2, <2>1, RunAppend
<1>4. sent'[d] = n + Len(Append(q, x))
  BY <1>2, <1>3
<1> QED
  BY <1>1, <1>3, <1>4 DEF TakerInOrder, Next1

LEMMA TakerReads ==
  ASSUME TypeOK, NEW d \in Dirs, TakerInOrder(d), held[Taker(d)] = 0, Source(d) # <<>>,
         held'[Taker(d)] = Head(Source(d)), Source(d)' = Tail(Source(d)),
         UNCHANGED <<sent[d], got[d], Last(d), Middle(d), held[Giver(d)]>>
  PROVE  TakerInOrder(d)'
<1> DEFINE q == Source(d)
           n == Taken(d)
<1>1. Taken(d)' = n
  BY DEF Taken, Given, One
<1>2. n \in Nat /\ q \in Seq(Chunks) /\ Run(q, n) /\ Len(q) \in Nat /\ sent[d] = n + Len(q)
  BY Typed, LenProperties DEF TakerInOrder, Next1, One, Run
<1>3. Head(q) = n + 1 /\ Run(Tail(q), n + 1) /\ Len(Tail(q)) = Len(q) - 1
  <2> HIDE DEF q, n
  <2>1. q # <<>>
    BY DEF q
  <2> QED BY <1>2, <2>1, RunTail
<1>4. held'[Taker(d)] = n + 1 /\ One(n + 1) = 1
  BY <1>2, <1>3 DEF One
<1>5. sent[d] = n + 1 + Len(Tail(q))
  BY <1>2, <1>3
<1> QED
  BY <1>1, <1>3, <1>4, <1>5 DEF TakerInOrder, Next1

LEMMA TakerWrites ==
  ASSUME TypeOK, NEW d \in Dirs, GiverInOrder(d), TakerInOrder(d), held[Taker(d)] \in Chunks,
         held'[Taker(d)] = 0, Middle(d)' = Append(Middle(d), held[Taker(d)]),
         UNCHANGED <<sent[d], got[d], Last(d), Source(d), held[Giver(d)]>>
  PROVE  GiverInOrder(d)' /\ TakerInOrder(d)'
<1> DEFINE q == Middle(d)
           n == Given(d) + One(held[Giver(d)])
           x == held[Taker(d)]
<1>1. Given(d)' = Given(d) /\ One(held[Giver(d)])' = One(held[Giver(d)])
  BY DEF Given, One
<1>2. n \in Nat /\ q \in Seq(Chunks) /\ Run(q, n) /\ Len(q) \in Nat /\ Taken(d) = n + Len(q)
  BY Typed, LenProperties DEF GiverInOrder, Next1, One, Taken
<1>3. x = n + Len(q) + 1
  BY <1>2, Typed DEF TakerInOrder, Next1, Chunks
<1>4. Run(Append(q, x), n) /\ Len(Append(q, x)) = Len(q) + 1
  <2> HIDE DEF q, n, x
  <2>1. x \in Chunks
    BY DEF x
  <2> QED BY <1>2, <1>3, <2>1, RunAppend
<1>5. GiverInOrder(d)'
  BY <1>1, <1>4 DEF GiverInOrder, Next1
<1>6. Taken(d)' = Taken(d) + 1
  BY <1>1, <1>2, <1>4 DEF Taken
<1>7. One(x) = 1 /\ One(0) = 0
  BY <1>2, <1>3 DEF One
<1>8. Taken(d)' + One(held'[Taker(d)]) = Taken(d) + One(x)
  BY <1>2, <1>6, <1>7
<1>9. TakerInOrder(d)'
  BY <1>8 DEF TakerInOrder, Next1
<1> QED BY <1>5, <1>9

LEMMA GiverReads ==
  ASSUME TypeOK, NEW d \in Dirs, GiverInOrder(d), held[Giver(d)] = 0, Middle(d) # <<>>,
         held'[Giver(d)] = Head(Middle(d)), Middle(d)' = Tail(Middle(d)),
         UNCHANGED <<sent[d], got[d], Last(d), Source(d), held[Taker(d)]>>
  PROVE  GiverInOrder(d)' /\ (TakerInOrder(d) => TakerInOrder(d)')
<1> DEFINE q == Middle(d)
           n == Given(d)
<1>1. Given(d)' = n
  BY DEF Given
<1>2. n \in Nat /\ q \in Seq(Chunks) /\ Run(q, n) /\ Len(q) \in Nat /\ Taken(d) = n + Len(q)
  BY Typed, LenProperties DEF GiverInOrder, Next1, One, Run, Taken
<1>3. Head(q) = n + 1 /\ Run(Tail(q), n + 1) /\ Len(Tail(q)) = Len(q) - 1
  <2> HIDE DEF q, n
  <2>1. q # <<>>
    BY DEF q
  <2> QED BY <1>2, <2>1, RunTail
<1>4. held'[Giver(d)] = n + 1 /\ One(n + 1) = 1
  BY <1>2, <1>3 DEF One
<1>5. GiverInOrder(d)'
  BY <1>1, <1>3, <1>4 DEF GiverInOrder, Next1
<1>6. Taken(d)' = Taken(d)
  BY <1>1, <1>2, <1>3, <1>4 DEF Taken
<1>7. TakerInOrder(d) => TakerInOrder(d)'
  BY <1>6 DEF TakerInOrder, Next1, One
<1> QED BY <1>5, <1>7

LEMMA GiverWrites ==
  ASSUME TypeOK, NEW d \in Dirs, Run(Last(d), Len(got[d])), GiverInOrder(d),
         held[Giver(d)] \in Chunks, held'[Giver(d)] = 0,
         Last(d)' = Append(Last(d), held[Giver(d)]),
         UNCHANGED <<sent[d], got[d], Middle(d), Source(d), held[Taker(d)]>>
  PROVE  /\ Run(Last(d), Len(got[d]))' /\ GiverInOrder(d)'
         /\ TakerInOrder(d) => TakerInOrder(d)'
<1> DEFINE q == Last(d)
           n == Len(got[d])
           x == held[Giver(d)]
<1>1. n \in Nat /\ q \in Seq(Chunks) /\ Run(q, n) /\ Len(q) \in Nat /\ Given(d) = n + Len(q)
  BY Typed, LenProperties DEF Given
<1>2. x = n + Len(q) + 1
  BY <1>1, Typed DEF GiverInOrder, Next1, Chunks
<1>3. Run(Append(q, x), n) /\ Len(Append(q, x)) = Len(q) + 1
  <2> HIDE DEF q, n, x
  <2>1. x \in Chunks
    BY DEF x
  <2> QED BY <1>1, <1>2, <2>1, RunAppend
<1>4. Given(d)' = Given(d) + 1
  <2>1. Given(d)' = n + Len(Append(q, x))
    BY DEF Given
  <2> HIDE DEF q, n, x
  <2> QED BY <1>1, <1>3, <2>1
<1>5. One(x) = 1 /\ One(0) = 0
  BY <1>1, <1>2 DEF One
<1>6. Given(d)' + One(held'[Giver(d)]) = Given(d) + One(x)
  BY <1>1, <1>4, <1>5
<1>7. GiverInOrder(d)'
  BY <1>6 DEF GiverInOrder, Next1
<1>8. Taken(d)' = Taken(d)
  BY <1>6 DEF Taken
<1>9. TakerInOrder(d) => TakerInOrder(d)'
  BY <1>8 DEF TakerInOrder, Next1, One
<1> QED BY <1>3, <1>7, <1>9

LEMMA Receives ==
  ASSUME TypeOK, NEW d \in Dirs, Run(got[d], 0), Run(Last(d), Len(got[d])), Last(d) # <<>>,
         got'[d] = Append(got[d], Head(Last(d))), Last(d)' = Tail(Last(d)),
         UNCHANGED <<sent[d], Middle(d), Source(d), held[Taker(d)], held[Giver(d)]>>
  PROVE  /\ Run(got[d], 0)' /\ Run(Last(d), Len(got[d]))'
         /\ GiverInOrder(d) => GiverInOrder(d)'
         /\ TakerInOrder(d) => TakerInOrder(d)'
<1> DEFINE q == Last(d)
           g == got[d]
<1>1. q \in Seq(Chunks) /\ g \in Seq(Chunks) /\ Len(q) \in Nat /\ Len(g) \in Nat
  BY Typed, LenProperties
<1>2. Head(q) = Len(g) + 1 /\ Run(Tail(q), Len(g) + 1) /\ Len(Tail(q)) = Len(q) - 1
  <2> HIDE DEF q, g
  <2>1. q # <<>> /\ Run(q, Len(g))
    BY DEF q, g
  <2> QED BY <1>1, <2>1, RunTail
<1>3. Head(q) \in Chunks
  <2>1. q # <<>>
    OBVIOUS
  <2> HIDE DEF q
  <2> QED BY <1>1, <2>1, HeadTailProperties
<1>4. Run(Append(g, Head(q)), 0) /\ Len(Append(g, Head(q))) = Len(g) + 1
  <2> HIDE DEF q, g
  <2>1. Run(g, 0)
    BY DEF g
  <2> QED BY <1>1, <1>2, <1>3, <2>1, RunAppend
<1>5. Given(d)' = Given(d)
  BY <1>1, <1>2, <1>4 DEF Given
<1>6. Taken(d)' = Taken(d)
  BY <1>5 DEF Taken, One
<1>7. GiverInOrder(d) => GiverInOrder(d)'
  BY <1>5 DEF GiverInOrder, Next1, One
<1>8. TakerInOrder(d) => TakerInOrder(d)'
  BY <1>6 DEF TakerInOrder, Next1, One
<1> QED BY <1>2, <1>4, <1>7, <1>8

-----------------------------------------------------------------------------
(* What is over, reset or broken stays so.                                 *)

Lasting ==
  /\ ended \subseteq ended' /\ reset \subseteq reset' /\ timed \subseteq timed'
  /\ \A u \in Users : /\ user[u] = "closed" => user'[u] = "closed"
                      /\ user[u] \in {"shut", "closed"} => user'[u] \in {"shut", "closed"}
  /\ UNCHANGED user \/ UNCHANGED ended
  /\ (Dropped => Dropped') /\ (Refused => Refused') /\ (Declined => Declined')

LEMMA TaskLasting ==
  ASSUME TypeOK, NEW t \in Tasks, TaskStep(t)
  PROVE  Lasting
<1>1. UNCHANGED user /\ ended \subseteq ended' /\ reset \subseteq reset' /\ timed \subseteq timed'
  <2>1. CASE Read(t) \/ Write(t) \/ WriteVanishes(t)
    <3>1. UNCHANGED <<user, ended, timed>>
      BY <2>1 DEF Read, Write, WriteVanishes
    <3>2. reset \subseteq reset'
      BY <2>1 DEF Read, Write, WriteVanishes
    <3> QED BY <3>1, <3>2
  <2>2. CASE ReadEnds(t) \/ WriteFails(t) \/ IdleEnds(t)
    <3>1. Stop(t) /\ UNCHANGED user /\ timed \subseteq timed'
      BY <2>2 DEF ReadEnds, WriteFails, IdleEnds
    <3> QED BY <3>1, Stopping, Ending
  <2> QED BY <2>1, <2>2 DEF TaskStep
<1>2. Declined => phase'["client"] = "upgrade"
  <2>1. CASE Written(t) /\ Active(t)
    <3>1. PICK next \in NextPhases(Side(t)) : phase' = [phase EXCEPT ![Side(t)] = next]
      BY <2>1 DEF Written, EnterNextPhase
    <3>2. Declined => Side(t) # "client"
      BY <2>1, Geometry DEF Declined, Over, Active
    <3> QED BY <3>1, <3>2 DEF Declined, TypeOK
  <2>2. CASE UNCHANGED phase
    BY <2>2 DEF Declined
  <2> QED BY <2>1, <2>2 DEF TaskStep, Read, ReadEnds, Write, WriteVanishes, WriteFails, IdleEnds
<1> QED BY <1>1, <1>2 DEF Lasting, Dropped, Refused, Declined, Over

LEMMA OtherLasting ==
  ASSUME TypeOK, Undialed, ClientStep \/ BackendAccepts \/ BackendRefuses \/ UNCHANGED vars
  PROVE  Lasting
<1>1. CASE UpgradeTimeout
  <2>1. Stop("client_down") /\ "client_down" \in Tasks
        /\ UNCHANGED <<user, phase>> /\ timed \subseteq timed'
    BY <1>1 DEF UpgradeTimeout, Tasks
  <2>2. ended \subseteq ended' /\ reset \subseteq reset'
    BY <2>1, Stopping, Ending
  <2> QED BY <2>1, <2>2 DEF Lasting, Dropped, Refused, Declined, Over
<1>2. CASE BackendRefuses
  <2>1. EndTasks(TasksOf["client"]) /\ TasksOf["client"] \in SUBSET Tasks
        /\ UNCHANGED <<user, phase, timed>>
    BY <1>2 DEF BackendRefuses, TasksOf, Tasks
  <2>2. ended \subseteq ended' /\ reset \subseteq reset'
    BY <2>1, Ending
  <2> QED BY <2>1, <2>2 DEF Lasting, Dropped, Refused, Declined, Over
<1>3. CASE BackendAccepts
  <2>1. /\ UNCHANGED <<ended, reset, timed>> /\ ~Over("client") /\ user'["public"] = user["public"]
        /\ user["backend"] = "away"
    BY <1>3 DEF BackendAccepts, TypeOK, Users, Undialed
  <2> QED BY <2>1 DEF Lasting, Dropped, Refused, Declined, Users
<1>4. CASE FirstReadEmpty \/ LegacyStop \/ LegacyIdle \/ UNCHANGED vars
  <2>1. UNCHANGED <<ended, reset, timed, user>> /\ (phase["client"] = "upgrade" => phase' = phase)
    BY <1>4 DEF FirstReadEmpty, LegacyStop, LegacyIdle, vars
  <2> QED BY <2>1 DEF Lasting, Dropped, Refused, Declined, Over
<1> QED BY <1>1, <1>2, <1>3, <1>4 DEF ClientStep

LEMMA UserLasting ==
  ASSUME TypeOK, NEW u \in Users, UserStep(u) \/ UserReads(u)
  PROVE  Lasting
<1>1. UNCHANGED <<ended, timed, phase>> /\ reset \subseteq reset'
  <2>1. CASE UserCloses(u)
    BY <2>1, TypeParts, Closing DEF UserCloses, Rests
  <2> QED BY <2>1 DEF UserStep, UserSends, UserReads, UserShuts
<1>2. /\ user[u] \in {"open", "shut"}
      /\ \A v \in Users : user'[v] = user[v] \/ (v = u /\ user'[v] \in {"shut", "closed"})
  <2>1. CASE UserSends(u) \/ UserReads(u)
    BY <2>1 DEF UserSends, UserReads
  <2>2. CASE UserShuts(u)
    BY <2>2 DEF UserShuts, TypeOK
  <2>3. CASE UserCloses(u)
    BY <2>3 DEF UserCloses, TypeOK
  <2> QED BY <2>1, <2>2, <2>3 DEF UserStep
<1>3. \A v \in Users : /\ user[v] = "closed" => user'[v] = "closed"
                       /\ user[v] \in {"shut", "closed"} => user'[v] \in {"shut", "closed"}
                       /\ user[v] = "away" => user'[v] = "away"
  BY <1>2
<1> QED BY <1>1, <1>3 DEF Lasting, Dropped, Refused, Declined, Over, Users

\* A direction that is undisturbed has always been.
LEMMA NothingHeals ==
  ASSUME Lasting, NEW d \in Dirs, Intact(d)'
  PROVE  Intact(d)
BY DEF Lasting, Intact, CutShort

-----------------------------------------------------------------------------
(* Every step keeps the order.                                             *)

InOrderBothWays == (\A d \in Dirs : ChainInOrder(d)) /\ AllThere

\* All there is of a direction.
Parts(d) == <<got[d], sent[d], Last(d), Middle(d), Source(d), held[Taker(d)], held[Giver(d)]>>

LEMMA StaysInOrder ==
  ASSUME NEW d \in Dirs, UNCHANGED Parts(d)
  PROVE  /\ Run(got[d], 0) => Run(got[d], 0)'
         /\ Run(Last(d), Len(got[d])) => Run(Last(d), Len(got[d]))'
         /\ GiverInOrder(d) => GiverInOrder(d)'
         /\ TakerInOrder(d) => TakerInOrder(d)'
BY DEF Parts, GiverInOrder, TakerInOrder, Next1, Given, Taken, One, Run

LEMMA StaysAllThere ==
  ASSUME AllThere, \A d \in Dirs : Intact(d)' => Intact(d) /\ UNCHANGED Parts(d)
  PROVE  AllThere'
BY StaysInOrder DEF AllThere

\* A chunk moves on in one direction, and whether a task delivers stays as it was.
LEMMA ChunkMoves ==
  ASSUME TypeOK, InOrderBothWays, Lasting, NEW d \in Dirs,
         UNCHANGED <<ended, reset, user>>,
         \A e \in Dirs \ {d} : UNCHANGED Parts(e),
         Run(got[d], 0) /\ Run(Last(d), Len(got[d])) =>
           /\ Run(got[d], 0)' /\ Run(Last(d), Len(got[d]))'
           /\ GiverInOrder(d) /\ TakerInOrder(d) => GiverInOrder(d)' /\ TakerInOrder(d)'
           /\ GiverInOrder(d) /\ ~Delivers(Taker(d)) => GiverInOrder(d)'
  PROVE  InOrderBothWays'
<1>1. \A t \in Tasks : Delivers(t)' <=> Delivers(t)
  BY DEF Delivers, HasClosed, Over
<1>2. \A e \in Dirs : Intact(e)' => Intact(e)
  BY NothingHeals
<1>3. ChainInOrder(d)'
  BY <1>1, Places DEF InOrderBothWays, ChainInOrder
<1>4. \A e \in Dirs \ {d} : ChainInOrder(e)'
  BY <1>1, StaysInOrder, Places DEF InOrderBothWays, ChainInOrder
<1>5. AllThere'
  <2> SUFFICES ASSUME NEW e \in Dirs, Intact(e)' PROVE GiverInOrder(e)' /\ TakerInOrder(e)'
    BY DEF AllThere
  <2>1. GiverInOrder(e) /\ TakerInOrder(e)
    BY <1>2 DEF InOrderBothWays, AllThere
  <2>2. CASE e = d
    BY <2>1, <2>2 DEF InOrderBothWays, ChainInOrder
  <2>3. CASE e # d
    BY <2>1, <2>3, StaysInOrder
  <2> QED BY <2>2, <2>3
<1> QED BY <1>3, <1>4, <1>5 DEF InOrderBothWays

\* A step that changes one direction of one connection.
LEMMA OneConnection ==
  ASSUME TypeOK, NEW l \in Links, NEW d \in Dirs, NEW q \in Seq(Chunks),
         pipe' = [pipe EXCEPT ![l][d] = q]
  PROVE  \A e \in Dirs :
           /\ Source(e)' = IF e = d /\ l = From[Taker(e)] THEN q ELSE Source(e)
           /\ Middle(e)' = IF e = d /\ l = "call" THEN q ELSE Middle(e)
           /\ Last(e)' = IF e = d /\ l = To[Giver(e)] THEN q ELSE Last(e)
<1>1. \A m \in Links, e \in Dirs :
        pipe'[m][e] = IF m = l /\ e = d THEN q ELSE pipe[m][e]
  <2>1. pipe \in Pipes
    BY TypeParts
  <2> QED BY <2>1, PipeSet
<1> TAKE e \in Dirs
<1>2. From[Taker(e)] \in Links /\ To[Giver(e)] \in Links /\ "call" \in Links
  BY Places DEF Links
<1>3. Source(e) = pipe[From[Taker(e)]][e] /\ Last(e) = pipe[To[Giver(e)]][e]
  BY Places
<1> QED BY <1>1, <1>2, <1>3, Places2

LEMMA ReadMoves ==
  ASSUME TypeOK, NEW t \in Tasks, Read(t)
  PROVE  /\ UNCHANGED <<sent, got, ended, reset, user>> /\ held[t] = 0
         /\ \A e \in Dirs : e # Dir(t) => UNCHANGED Parts(e)
         /\ \A d \in Dirs : t = Taker(d) =>
              /\ Source(d) # <<>> /\ held'[t] = Head(Source(d)) /\ Source(d)' = Tail(Source(d))
              /\ Middle(d)' = Middle(d) /\ Last(d)' = Last(d) /\ held'[Giver(d)] = held[Giver(d)]
         /\ \A d \in Dirs : t = Giver(d) =>
              /\ Middle(d) # <<>> /\ held'[t] = Head(Middle(d)) /\ Middle(d)' = Tail(Middle(d))
              /\ Source(d)' = Source(d) /\ Last(d)' = Last(d) /\ held'[Taker(d)] = held[Taker(d)]
<1>0. PICK c \in Dirs : c = Dir(t)
  BY Geometry
<1>1. PICK l \in Links : l = From[t]
  BY Geometry
<1>2. PICK q \in Seq(Chunks) : q = pipe[l][c]
  BY DEF TypeOK, Chunks
<1>3. q # <<>> /\ held[t] = 0 /\ held' = [held EXCEPT ![t] = Head(q)]
        /\ pipe' = [pipe EXCEPT ![l][c] = Tail(q)]
        /\ UNCHANGED <<sent, got, ended, reset, user>>
  BY <1>0, <1>1, <1>2 DEF Read, Input
<1>4. Tail(q) \in Seq(Chunks)
  BY <1>3, HeadTailProperties
<1>5. \A e \in Dirs :
        /\ Source(e)' = IF e = c /\ l = From[Taker(e)] THEN Tail(q) ELSE Source(e)
        /\ Middle(e)' = IF e = c /\ l = "call" THEN Tail(q) ELSE Middle(e)
        /\ Last(e)' = IF e = c /\ l = To[Giver(e)] THEN Tail(q) ELSE Last(e)
  BY <1>3, <1>4, OneConnection
<1>6. held'[t] = Head(q) /\ \A s \in Tasks \ {t} : held'[s] = held[s]
  BY <1>3 DEF TypeOK
<1>7. ASSUME NEW e \in Dirs, e # Dir(t) PROVE UNCHANGED Parts(e)
  <2>1. Taker(e) \in Tasks \ {t} /\ Giver(e) \in Tasks \ {t}
    BY <1>7, Places
  <2>2. held'[Taker(e)] = held[Taker(e)] /\ held'[Giver(e)] = held[Giver(e)]
    BY <1>6, <2>1
  <2>3. Source(e)' = Source(e) /\ Middle(e)' = Middle(e) /\ Last(e)' = Last(e)
    BY <1>0, <1>5, <1>7
  <2>4. UNCHANGED <<got[e], sent[e]>>
    BY <1>3
  <2> QED BY <2>2, <2>3, <2>4, Zenon DEF Parts, Taker, Giver
<1>8. ASSUME NEW d \in Dirs, t = Taker(d)
      PROVE  /\ Source(d) # <<>> /\ held'[t] = Head(Source(d)) /\ Source(d)' = Tail(Source(d))
             /\ Middle(d)' = Middle(d) /\ Last(d)' = Last(d) /\ held'[Giver(d)] = held[Giver(d)]
  <2>1. /\ l # "call" /\ l # To[Giver(d)] /\ l = From[Taker(d)] /\ Giver(d) \in Tasks \ {t}
        /\ Source(d) = q /\ c = d
    BY <1>0, <1>1, <1>2, <1>8, Places
  <2> QED BY <1>3, <1>5, <1>6, <2>1
<1>9. ASSUME NEW d \in Dirs, t = Giver(d)
      PROVE  /\ Middle(d) # <<>> /\ held'[t] = Head(Middle(d)) /\ Middle(d)' = Tail(Middle(d))
             /\ Source(d)' = Source(d) /\ Last(d)' = Last(d) /\ held'[Taker(d)] = held[Taker(d)]
  <2>1. l = "call" /\ To[Giver(d)] # "call" /\ From[Taker(d)] # "call" /\ Taker(d) \in Tasks \ {t}
        /\ Middle(d) = q /\ c = d
    BY <1>0, <1>1, <1>2, <1>9, Places, Places2
  <2> QED BY <1>3, <1>5, <1>6, <2>1
<1> QED BY <1>3, <1>7, <1>8, <1>9

LEMMA ReadOrder ==
  ASSUME TypeOK, InOrderBothWays, Lasting, NEW t \in Tasks, Read(t)
  PROVE  InOrderBothWays'
<1>0. PICK d \in Dirs : d = Dir(t)
  BY Geometry
<1>1. /\ UNCHANGED <<sent, got, ended, reset, user>> /\ held[t] = 0
      /\ \A e \in Dirs \ {d} : UNCHANGED Parts(e)
  BY <1>0, ReadMoves
<1>2. UNCHANGED <<sent[d], got[d]>>
  BY <1>1
<1>3. CASE t = Taker(d)
  <2>1. /\ Source(d) # <<>> /\ held'[t] = Head(Source(d)) /\ Source(d)' = Tail(Source(d))
        /\ Middle(d)' = Middle(d) /\ Last(d)' = Last(d) /\ held'[Giver(d)] = held[Giver(d)]
    BY <1>3, ReadMoves
  <2>2. TakerInOrder(d) => TakerInOrder(d)'
    BY <1>1, <1>2, <1>3, <2>1, TakerReads
  <2>3. GiverInOrder(d) => GiverInOrder(d)'
    BY <1>2, <2>1 DEF GiverInOrder, Next1, Given, One
  <2>4. /\ Run(got[d], 0) => Run(got[d], 0)'
        /\ Run(Last(d), Len(got[d])) => Run(Last(d), Len(got[d]))'
    BY <1>2, <2>1 DEF Run
  <2> QED BY <1>1, <2>2, <2>3, <2>4, ChunkMoves
<1>4. CASE t = Giver(d)
  <2>1. /\ Middle(d) # <<>> /\ held'[t] = Head(Middle(d)) /\ Middle(d)' = Tail(Middle(d))
        /\ Source(d)' = Source(d) /\ Last(d)' = Last(d) /\ held'[Taker(d)] = held[Taker(d)]
    BY <1>4, ReadMoves
  <2>2. GiverInOrder(d) => GiverInOrder(d)' /\ (TakerInOrder(d) => TakerInOrder(d)')
    BY <1>1, <1>2, <1>4, <2>1, GiverReads
  <2>3. /\ Run(got[d], 0) => Run(got[d], 0)'
        /\ Run(Last(d), Len(got[d])) => Run(Last(d), Len(got[d]))'
    BY <1>2, <2>1 DEF Run
  <2> QED BY <1>1, <2>2, <2>3, ChunkMoves
<1> QED BY <1>0, <1>3, <1>4, Places

LEMMA WriteMoves ==
  ASSUME TypeOK, NEW t \in Tasks, Write(t)
  PROVE  /\ UNCHANGED <<sent, got, ended, reset, user>> /\ Delivers(t)
         /\ held[t] \in Chunks /\ held'[t] = 0
         /\ \A e \in Dirs : e # Dir(t) => UNCHANGED Parts(e)
         /\ \A d \in Dirs : t = Taker(d) =>
              /\ Middle(d)' = Append(Middle(d), held[t]) /\ Source(d)' = Source(d)
              /\ Last(d)' = Last(d) /\ held'[Giver(d)] = held[Giver(d)]
         /\ \A d \in Dirs : t = Giver(d) =>
              /\ Last(d)' = Append(Last(d), held[t]) /\ Source(d)' = Source(d)
              /\ Middle(d)' = Middle(d) /\ held'[Taker(d)] = held[Taker(d)]
<1>0. PICK c \in Dirs : c = Dir(t)
  BY Geometry
<1>1. PICK l \in Links : l = To[t]
  BY Geometry
<1>2. PICK q \in Seq(Chunks) : q = pipe[l][c]
  BY DEF TypeOK, Chunks
<1>3. PICK x \in Chunks : x = held[t]
  BY DEF Write, TypeOK, Chunks
<1>4. held' = [held EXCEPT ![t] = 0]
        /\ pipe' = [pipe EXCEPT ![l][c] = Append(q, x)]
        /\ UNCHANGED <<sent, got, ended, reset, user>> /\ Delivers(t)
  BY <1>0, <1>1, <1>2, <1>3 DEF Write, Written, Active, Delivers
<1>5. Append(q, x) \in Seq(Chunks)
  BY AppendProperties
<1>6. \A e \in Dirs :
        /\ Source(e)' = IF e = c /\ l = From[Taker(e)] THEN Append(q, x) ELSE Source(e)
        /\ Middle(e)' = IF e = c /\ l = "call" THEN Append(q, x) ELSE Middle(e)
        /\ Last(e)' = IF e = c /\ l = To[Giver(e)] THEN Append(q, x) ELSE Last(e)
  BY <1>4, <1>5, OneConnection
<1>7. held'[t] = 0 /\ \A s \in Tasks \ {t} : held'[s] = held[s]
  BY <1>4 DEF TypeOK
<1>8. ASSUME NEW e \in Dirs, e # Dir(t) PROVE UNCHANGED Parts(e)
  <2>1. Taker(e) \in Tasks \ {t} /\ Giver(e) \in Tasks \ {t}
    BY <1>8, Places
  <2>2. held'[Taker(e)] = held[Taker(e)] /\ held'[Giver(e)] = held[Giver(e)]
    BY <1>7, <2>1
  <2>3. Source(e)' = Source(e) /\ Middle(e)' = Middle(e) /\ Last(e)' = Last(e)
    BY <1>0, <1>6, <1>8
  <2>4. UNCHANGED <<got[e], sent[e]>>
    BY <1>4
  <2> QED BY <2>2, <2>3, <2>4, Zenon DEF Parts, Taker, Giver
<1>9. ASSUME NEW d \in Dirs, t = Taker(d)
      PROVE  /\ Middle(d)' = Append(Middle(d), held[t]) /\ Source(d)' = Source(d)
             /\ Last(d)' = Last(d) /\ held'[Giver(d)] = held[Giver(d)]
  <2>1. l = "call" /\ To[Giver(d)] # "call" /\ From[Taker(d)] # "call" /\ Giver(d) \in Tasks \ {t}
        /\ Middle(d) = q /\ c = d
    BY <1>0, <1>1, <1>2, <1>9, Places, Places2
  <2> QED BY <1>3, <1>6, <1>7, <2>1
<1>10. ASSUME NEW d \in Dirs, t = Giver(d)
       PROVE  /\ Last(d)' = Append(Last(d), held[t]) /\ Source(d)' = Source(d)
              /\ Middle(d)' = Middle(d) /\ held'[Taker(d)] = held[Taker(d)]
  <2>1. /\ l # "call" /\ l # From[Taker(d)] /\ l = To[Giver(d)] /\ Taker(d) \in Tasks \ {t}
        /\ Last(d) = q /\ c = d
    BY <1>0, <1>1, <1>2, <1>10, Places
  <2> QED BY <1>3, <1>6, <1>7, <2>1
<1> QED BY <1>3, <1>4, <1>7, <1>8, <1>9, <1>10

LEMMA WriteOrder ==
  ASSUME TypeOK, InOrderBothWays, Lasting, NEW t \in Tasks, Write(t)
  PROVE  InOrderBothWays'
<1>0. PICK d \in Dirs : d = Dir(t)
  BY Geometry
<1>1. /\ UNCHANGED <<sent, got, ended, reset, user>> /\ Delivers(t)
      /\ held[t] \in Chunks /\ held'[t] = 0
      /\ \A e \in Dirs \ {d} : UNCHANGED Parts(e)
  BY <1>0, WriteMoves
<1>2. UNCHANGED <<sent[d], got[d]>>
  BY <1>1
<1>3. CASE t = Taker(d)
  <2>1. /\ Middle(d)' = Append(Middle(d), held[t]) /\ Source(d)' = Source(d)
        /\ Last(d)' = Last(d) /\ held'[Giver(d)] = held[Giver(d)]
    BY <1>3, WriteMoves
  <2>2. GiverInOrder(d) /\ TakerInOrder(d) => GiverInOrder(d)' /\ TakerInOrder(d)'
    BY <1>1, <1>2, <1>3, <2>1, TakerWrites
  <2>3. /\ Run(got[d], 0) => Run(got[d], 0)'
        /\ Run(Last(d), Len(got[d])) => Run(Last(d), Len(got[d]))'
    BY <1>2, <2>1 DEF Run
  <2> QED BY <1>1, <1>3, <2>2, <2>3, ChunkMoves
<1>4. CASE t = Giver(d)
  <2>1. /\ Last(d)' = Append(Last(d), held[t]) /\ Source(d)' = Source(d)
        /\ Middle(d)' = Middle(d) /\ held'[Taker(d)] = held[Taker(d)]
    BY <1>4, WriteMoves
  <2>2. GiverInOrder(d) /\ Run(Last(d), Len(got[d]))
    BY <1>1, <1>4 DEF InOrderBothWays, ChainInOrder
  <2>3. /\ Run(Last(d), Len(got[d]))' /\ GiverInOrder(d)'
        /\ TakerInOrder(d) => TakerInOrder(d)'
    BY <1>1, <1>2, <1>4, <2>1, <2>2, GiverWrites
  <2>4. Run(got[d], 0) => Run(got[d], 0)'
    BY <1>2 DEF Run
  <2> QED BY <1>1, <2>3, <2>4, ChunkMoves
<1> QED BY <1>0, <1>3, <1>4, Places

\* A user's connection is the first of what it sends and the last of what it gets.
LEMMA UserPlaces ==
  ASSUME NEW u \in Users
  PROVE  /\ OutDir(u) \in Dirs /\ InDir(u) \in Dirs /\ OutDir(u) # InDir(u)
         /\ Own(u) \in Links \ {"call"}
         /\ Own(u) = From[Taker(OutDir(u))] /\ Own(u) = To[Giver(InDir(u))]
         /\ Own(u) # To[Giver(OutDir(u))] /\ Own(u) # From[Taker(InDir(u))]
         /\ Source(OutDir(u)) = pipe[Own(u)][OutDir(u)] /\ Last(InDir(u)) = pipe[Own(u)][InDir(u)]
BY DEF Users, OutDir, InDir, Dirs, Own, Links, From, To, Taker, Giver, Source, Last

LEMMA SendMoves ==
  ASSUME TypeOK, NEW u \in Users, UserSends(u), NEW d \in Dirs, d = OutDir(u)
  PROVE  /\ UNCHANGED <<held, ended, reset, user>>
         /\ UNCHANGED <<got[d], Middle(d), Last(d), held[Giver(d)], held[Taker(d)]>>
         /\ sent[d] + 1 \in Chunks /\ sent'[d] = sent[d] + 1
         /\ Source(d)' = Append(Source(d), sent[d] + 1)
         /\ \A e \in Dirs : e # d => UNCHANGED Parts(e)
<1>1. PICK l \in Links : l = Own(u)
  BY UserPlaces
<1>2. PICK q \in Seq(Chunks) : q = pipe[l][d]
  BY DEF TypeOK, Chunks
<1>3. PICK x \in Chunks : x = sent[d] + 1
  <2>1. sent[d] < MaxChunks /\ sent[d] \in Nat
    BY RelayAssumption DEF UserSends, TypeOK, RelayAssumption
  <2> QED BY <2>1, RelayAssumption DEF Chunks, RelayAssumption
<1>4. sent' = [sent EXCEPT ![d] = x] /\ pipe' = [pipe EXCEPT ![l][d] = Append(q, x)]
        /\ UNCHANGED <<got, held, ended, reset, user>>
  BY <1>1, <1>2, <1>3 DEF UserSends
<1>5. Append(q, x) \in Seq(Chunks)
  BY AppendProperties
<1>6. \A e \in Dirs :
        /\ Source(e)' = IF e = d /\ l = From[Taker(e)] THEN Append(q, x) ELSE Source(e)
        /\ Middle(e)' = IF e = d /\ l = "call" THEN Append(q, x) ELSE Middle(e)
        /\ Last(e)' = IF e = d /\ l = To[Giver(e)] THEN Append(q, x) ELSE Last(e)
  BY <1>4, <1>5, OneConnection
<1>7. \A e \in Dirs : sent'[e] = IF e = d THEN x ELSE sent[e]
  BY <1>4 DEF TypeOK
<1>8. ASSUME NEW e \in Dirs, e # d PROVE UNCHANGED Parts(e)
  <2>1. held'[Taker(e)] = held[Taker(e)] /\ held'[Giver(e)] = held[Giver(e)]
    BY <1>4
  <2>2. Source(e)' = Source(e) /\ Middle(e)' = Middle(e) /\ Last(e)' = Last(e)
    BY <1>6, <1>8
  <2>3. UNCHANGED <<got[e], sent[e]>>
    BY <1>4, <1>7, <1>8
  <2> QED BY <2>1, <2>2, <2>3, Zenon DEF Parts, Taker, Giver
<1>9. /\ Source(d)' = Append(Source(d), x) /\ Middle(d)' = Middle(d) /\ Last(d)' = Last(d)
      /\ sent'[d] = x
  <2>1. l # "call" /\ l # To[Giver(d)] /\ l = From[Taker(d)] /\ Source(d) = q
    BY <1>1, <1>2, UserPlaces
  <2> QED BY <1>6, <1>7, <2>1
<1>10. UNCHANGED <<got[d], held[Giver(d)], held[Taker(d)]>>
  <2>1. held'[Taker(d)] = held[Taker(d)] /\ held'[Giver(d)] = held[Giver(d)] /\ got'[d] = got[d]
    BY <1>4
  <2> QED BY <2>1, Zenon DEF Taker, Giver
<1> QED BY <1>3, <1>4, <1>8, <1>9, <1>10

LEMMA SendOrder ==
  ASSUME TypeOK, InOrderBothWays, Lasting, NEW u \in Users, UserSends(u)
  PROVE  InOrderBothWays'
<1>0. PICK d \in Dirs : d = OutDir(u)
  BY UserPlaces
<1>1. /\ UNCHANGED <<ended, reset, user>>
      /\ UNCHANGED <<got[d], Middle(d), Last(d), held[Giver(d)], held[Taker(d)]>>
      /\ sent[d] + 1 \in Chunks /\ sent'[d] = sent[d] + 1
      /\ Source(d)' = Append(Source(d), sent[d] + 1)
      /\ \A e \in Dirs \ {d} : UNCHANGED Parts(e)
  BY <1>0, SendMoves
<1>2. TakerInOrder(d) => TakerInOrder(d)'
  BY <1>1, SourceGrows
<1>3. GiverInOrder(d) => GiverInOrder(d)'
  BY <1>1 DEF GiverInOrder, Next1, Given, One
<1>4. /\ Run(got[d], 0) => Run(got[d], 0)'
      /\ Run(Last(d), Len(got[d])) => Run(Last(d), Len(got[d]))'
  BY <1>1 DEF Run
<1> QED BY <1>1, <1>2, <1>3, <1>4, ChunkMoves

LEMMA ReceiveMoves ==
  ASSUME TypeOK, NEW u \in Users, UserReads(u), NEW d \in Dirs, d = InDir(u)
  PROVE  /\ UNCHANGED <<held, ended, reset, user>>
         /\ UNCHANGED <<sent[d], Middle(d), Source(d), held[Giver(d)], held[Taker(d)]>>
         /\ Last(d) # <<>> /\ Last(d)' = Tail(Last(d)) /\ got'[d] = Append(got[d], Head(Last(d)))
         /\ \A e \in Dirs : e # d => UNCHANGED Parts(e)
<1>1. PICK l \in Links : l = Own(u)
  BY UserPlaces
<1>2. PICK q \in Seq(Chunks) : q = pipe[l][d]
  BY DEF TypeOK, Chunks
<1>3. q # <<>> /\ got' = [got EXCEPT ![d] = Append(@, Head(q))]
        /\ pipe' = [pipe EXCEPT ![l][d] = Tail(q)]
        /\ UNCHANGED <<sent, held, ended, reset, user>>
  BY <1>1, <1>2 DEF UserReads
<1>4. Tail(q) \in Seq(Chunks)
  BY <1>3, HeadTailProperties
<1>5. \A e \in Dirs :
        /\ Source(e)' = IF e = d /\ l = From[Taker(e)] THEN Tail(q) ELSE Source(e)
        /\ Middle(e)' = IF e = d /\ l = "call" THEN Tail(q) ELSE Middle(e)
        /\ Last(e)' = IF e = d /\ l = To[Giver(e)] THEN Tail(q) ELSE Last(e)
  BY <1>3, <1>4, OneConnection
<1>6. \A e \in Dirs : got'[e] = IF e = d THEN Append(got[d], Head(q)) ELSE got[e]
  BY <1>3 DEF TypeOK
<1>7. ASSUME NEW e \in Dirs, e # d PROVE UNCHANGED Parts(e)
  <2>1. held'[Taker(e)] = held[Taker(e)] /\ held'[Giver(e)] = held[Giver(e)]
    BY <1>3
  <2>2. Source(e)' = Source(e) /\ Middle(e)' = Middle(e) /\ Last(e)' = Last(e)
    BY <1>5, <1>7
  <2>3. UNCHANGED <<got[e], sent[e]>>
    BY <1>3, <1>6, <1>7
  <2> QED BY <2>1, <2>2, <2>3, Zenon DEF Parts, Taker, Giver
<1>8. /\ Source(d)' = Source(d) /\ Middle(d)' = Middle(d) /\ Last(d)' = Tail(Last(d))
      /\ got'[d] = Append(got[d], Head(Last(d))) /\ Last(d) # <<>>
  <2>1. l # "call" /\ l # From[Taker(d)] /\ l = To[Giver(d)] /\ Last(d) = q
    BY <1>1, <1>2, UserPlaces
  <2> QED BY <1>3, <1>5, <1>6, <2>1
<1>9. UNCHANGED <<sent[d], held[Giver(d)], held[Taker(d)]>>
  <2>1. held'[Taker(d)] = held[Taker(d)] /\ held'[Giver(d)] = held[Giver(d)] /\ sent'[d] = sent[d]
    BY <1>3
  <2> QED BY <2>1, Zenon DEF Taker, Giver
<1> QED BY <1>3, <1>7, <1>8, <1>9

LEMMA ReceiveOrder ==
  ASSUME TypeOK, InOrderBothWays, Lasting, NEW u \in Users, UserReads(u)
  PROVE  InOrderBothWays'
<1>0. PICK d \in Dirs : d = InDir(u)
  BY UserPlaces
<1>1. /\ UNCHANGED <<ended, reset, user>>
      /\ UNCHANGED <<sent[d], Middle(d), Source(d), held[Giver(d)], held[Taker(d)]>>
      /\ Last(d) # <<>> /\ Last(d)' = Tail(Last(d)) /\ got'[d] = Append(got[d], Head(Last(d)))
      /\ \A e \in Dirs \ {d} : UNCHANGED Parts(e)
  BY <1>0, ReceiveMoves
<1>2. Run(got[d], 0) /\ Run(Last(d), Len(got[d])) =>
        /\ Run(got[d], 0)' /\ Run(Last(d), Len(got[d]))'
        /\ GiverInOrder(d) => GiverInOrder(d)'
        /\ TakerInOrder(d) => TakerInOrder(d)'
  BY <1>1, Receives
<1> QED BY <1>1, <1>2, ChunkMoves

\* A step that moves no chunk, ends no task and resets no connection.
LEMMA QuietUnmoved ==
  ASSUME Lasting, UNCHANGED <<sent, got, pipe, held>>, NEW d \in Dirs
  PROVE  Unmoved(d)
BY DEF Lasting, Unmoved

LEMMA QuietOrder ==
  ASSUME TypeOK, InOrderBothWays, Lasting, UNCHANGED <<sent, got, pipe, held>>
  PROVE  InOrderBothWays'
<1>1. \A d \in Dirs : ChainInOrder(d)'
  BY QuietUnmoved, NothingMoves DEF InOrderBothWays
<1>2. \A d \in Dirs : UNCHANGED Parts(d)
  BY DEF Parts, Last, Middle, Source, Taker, Giver
<1>3. AllThere'
  BY <1>2, NothingHeals, StaysAllThere DEF InOrderBothWays
<1> QED BY <1>1, <1>3 DEF InOrderBothWays

\* A write that vanishes is the last of its task, and a reset is seen.
LEMMA VanishUnmoved ==
  ASSUME TypeOK, NEW t \in Tasks, WriteVanishes(t), NEW d \in Dirs
  PROVE  Unmoved(d)
<1>1. /\ UNCHANGED <<sent, got, pipe, ended, user>> /\ reset' = reset \cup {To[t]}
      /\ \A s \in Tasks \ {t} : held'[s] = held[s]
  BY DEF WriteVanishes, Written, TypeOK
<1>2. ~Delivers(t)'
  BY <1>1 DEF Delivers
<1>3. \A s \in Tasks : held'[s] = held[s] \/ ~Delivers(s)'
  BY <1>1, <1>2
<1> QED BY <1>1, <1>3 DEF Unmoved

LEMMA VanishOrder ==
  ASSUME TypeOK, InOrderBothWays, NEW t \in Tasks, WriteVanishes(t)
  PROVE  InOrderBothWays'
<1>1. \A d \in Dirs : ChainInOrder(d)'
  BY VanishUnmoved, NothingMoves DEF InOrderBothWays
<1>2. AllThere'
  BY DEF WriteVanishes, AllThere, Intact
<1> QED BY <1>1, <1>2 DEF InOrderBothWays

\* Ending these tasks takes nothing with it of a direction that is undisturbed
\* afterwards.
NothingLost(ts) ==
  /\ UNCHANGED <<sent, got, phase, user>> /\ timed \subseteq timed'
  /\ \A d \in Dirs : Intact(d)' /\ Taker(d) \in ts =>
       held[Taker(d)] = 0 /\ Source(d) = <<>> /\ user[SenderOf(d)] # "open"
  /\ \A d \in Dirs : Intact(d)' /\ Giver(d) \in ts =>
       held[Giver(d)] = 0 /\ Middle(d) = <<>> /\ Over(Side(Taker(d)))
  /\ phase["client"] = "dial" /\ "client_down" \in ts => "client_up" \in ts

LEMMA EndUnmoved ==
  ASSUME TypeOK, NEW ts \in SUBSET Tasks, EndTasks(ts), UNCHANGED <<sent, got, user>>, NEW d \in Dirs
  PROVE  Unmoved(d)
<1>1. /\ ended' = ended \cup ts
      /\ \A t \in Tasks : held'[t] = IF t \in ts THEN 0 ELSE held[t]
      /\ reset \subseteq reset'
      /\ \A l \in Links : \A e \in Dirs :
              \/ pipe'[l][e] = pipe[l][e]
              \/ /\ pipe'[l][e] = <<>> /\ l \in reset'
                 /\ Receiver(l, e) \in Sides /\ TasksOf[Receiver(l, e)] \subseteq ended'
  BY Ending
<1>2. \A l \in Links : \/ pipe'[l][d] = pipe[l][d]
                       \/ pipe'[l][d] = <<>> /\ HasClosed(Receiver(l, d))'
  <2> TAKE l \in Links
  <2>1. Receiver(l, d) \in Sides => Receiver(l, d) \notin Users
    BY DEF Sides, Users
  <2>2. Receiver(l, d) \in Sides /\ TasksOf[Receiver(l, d)] \subseteq ended'
          => HasClosed(Receiver(l, d))'
    BY <2>1 DEF HasClosed, Over
  <2> QED BY <1>1, <2>2
<1>3. \A t \in Tasks : held'[t] = held[t] \/ ~Delivers(t)'
  BY <1>1 DEF Delivers
<1> QED BY <1>1, <1>2, <1>3 DEF Unmoved

LEMMA EndOrder ==
  ASSUME TypeOK, InOrderBothWays, Lasting, NEW ts \in SUBSET Tasks, EndTasks(ts), NothingLost(ts)
  PROVE  InOrderBothWays' /\ \A d \in Dirs : Intact(d)' => Intact(d) /\ UNCHANGED Parts(d)
<1>1. /\ ended' = ended \cup ts
      /\ \A t \in Tasks : held'[t] = IF t \in ts THEN 0 ELSE held[t]
      /\ reset \subseteq reset'
      /\ \A l \in Links, d \in Dirs :
              \/ pipe'[l][d] = pipe[l][d]
              \/ /\ pipe'[l][d] = <<>> /\ l \in reset'
                 /\ Receiver(l, d) \in Sides /\ TasksOf[Receiver(l, d)] \subseteq ended'
  BY Ending
<1>2. \A d \in Dirs : ChainInOrder(d)'
  BY EndUnmoved, NothingMoves DEF InOrderBothWays, NothingLost
<1>3. ASSUME NEW d \in Dirs, Intact(d)' PROVE Intact(d) /\ UNCHANGED Parts(d)
  <2>1. Intact(d) /\ reset' = {}
    BY <1>3, NothingHeals DEF Intact
  <2>2. \A l \in Links : pipe'[l][d] = pipe[l][d]
    BY <1>1, <2>1
  <2>3. held'[Taker(d)] = held[Taker(d)] /\ held'[Giver(d)] = held[Giver(d)]
    BY <1>1, <1>3, Places DEF NothingLost
  <2>4. UNCHANGED <<sent[d], got[d]>>
    BY DEF NothingLost
  <2>5. UNCHANGED <<Last(d), Middle(d), Source(d)>>
    BY <2>2 DEF Last, Middle, Source, Links
  <2>6. UNCHANGED <<held[Taker(d)], held[Giver(d)]>>
    BY <2>3, Zenon DEF Taker, Giver
  <2> QED BY <2>1, <2>4, <2>5, <2>6 DEF Parts
<1>4. AllThere'
  BY <1>3, StaysAllThere DEF InOrderBothWays
<1> QED BY <1>2, <1>3, <1>4 DEF InOrderBothWays

\* A user that closes drops only what it was sent.
LEMMA CloseUnmoved ==
  ASSUME TypeOK, NEW u \in Users, UserCloses(u), NEW d \in Dirs
  PROVE  Unmoved(d)
<1>1. /\ reset \subseteq reset'
      /\ \A l \in Links : \A e \in Dirs :
              pipe'[l][e] = IF Receiver(l, e) \in {u} THEN <<>> ELSE pipe[l][e]
  BY TypeParts, Closing DEF UserCloses, Rests
<1>2. /\ UNCHANGED <<sent, got, held, ended, timed>> /\ user'[u] = "closed"
      /\ \A v \in Users : user[v] = "closed" => user'[v] = "closed"
  BY DEF UserCloses, TypeOK
<1>3. \A l \in Links : \/ pipe'[l][d] = pipe[l][d]
                       \/ pipe'[l][d] = <<>> /\ HasClosed(Receiver(l, d))'
  BY <1>1, <1>2 DEF HasClosed
<1> QED BY <1>1, <1>2, <1>3 DEF Unmoved

LEMMA CloseOrder ==
  ASSUME TypeOK, InOrderBothWays, Lasting, NEW u \in Users, UserCloses(u)
  PROVE  InOrderBothWays'
<1>1. /\ reset \subseteq reset'
      /\ \A l \in Links, d \in Dirs :
              pipe'[l][d] = IF Receiver(l, d) \in {u} THEN <<>> ELSE pipe[l][d]
      /\ \A l \in Links, d \in Dirs :
              Receiver(l, d) \in {u} /\ pipe[l][d] # <<>> => l \in reset'
  BY TypeParts, Closing DEF UserCloses, Rests
<1>2. UNCHANGED <<sent, got, held>>
  BY DEF UserCloses
<1>3. \A d \in Dirs : ChainInOrder(d)'
  BY CloseUnmoved, NothingMoves DEF InOrderBothWays
<1>4. ASSUME NEW d \in Dirs, Intact(d)' PROVE Intact(d) /\ UNCHANGED Parts(d)
  <2>1. Intact(d) /\ reset' = {}
    BY <1>4, NothingHeals DEF Intact
  <2>2. \A l \in Links : pipe'[l][d] = pipe[l][d]
    BY <1>1, <2>1
  <2>3. UNCHANGED <<Last(d), Middle(d), Source(d)>>
    BY <2>2 DEF Last, Middle, Source, Links
  <2>4. UNCHANGED <<held[Taker(d)], held[Giver(d)], sent[d], got[d]>>
    BY <1>2 DEF Taker, Giver
  <2> QED BY <2>1, <2>3, <2>4 DEF Parts
<1>5. AllThere'
  BY <1>4, StaysAllThere DEF InOrderBothWays
<1> QED BY <1>3, <1>5 DEF InOrderBothWays

-----------------------------------------------------------------------------
(* Every step keeps the whole invariant.                                   *)

LEMMA CarriedParts ==
  Carried <=> InOrderBothWays /\ Drained /\ Undialed /\ Dialed /\ ServerPhase
BY DEF Carried, InOrderBothWays, Dirs

LEMMA EndCarried ==
  ASSUME TypeOK, Carried, Lasting, NEW ts \in SUBSET Tasks, EndTasks(ts), NothingLost(ts)
  PROVE  Carried'
<1>1. InOrderBothWays' /\ \A d \in Dirs : Intact(d)' => Intact(d) /\ UNCHANGED Parts(d)
  BY CarriedParts, EndOrder
<1>2. /\ ended' = ended \cup ts
      /\ \A t \in Tasks : held'[t] = IF t \in ts THEN 0 ELSE held[t]
      /\ \A l \in Links, d \in Dirs : pipe'[l][d] \in {pipe[l][d], <<>>}
  BY Ending
<1>3. ASSUME NEW d \in Dirs PROVE TakerDrained(d)' /\ GiverDrained(d)'
  <2>1. Intact(d)' => /\ held'[Taker(d)] = held[Taker(d)] /\ Source(d)' = Source(d)
                      /\ held'[Giver(d)] = held[Giver(d)] /\ Middle(d)' = Middle(d)
    BY <1>1 DEF Parts, Taker, Giver
  <2>2. TakerDrained(d) /\ GiverDrained(d) /\ UNCHANGED user
    BY DEF Carried, Drained, NothingLost
  <2>3. TakerDrained(d)'
    BY <1>1, <1>2, <2>1, <2>2 DEF TakerDrained, NothingLost, Taker
  <2>4. Over(Side(Taker(d))) => Taker(d) \in ended
    BY Places DEF Over
  <2>5. GiverDrained(d)'
    BY <1>1, <1>2, <2>1, <2>2, <2>4 DEF GiverDrained, NothingLost, Dropped, Taker, Giver
  <2> QED BY <2>3, <2>5
<1>4. Undialed' /\ Dialed'
  <2>1. Source("down")' \in {Source("down"), <<>>}
    BY <1>2 DEF Source, Links, Dirs
  <2> QED BY <1>2, <2>1 DEF Carried, Undialed, Dialed, NothingLost, Tasks
<1>5. ServerPhase'
  BY DEF Carried, ServerPhase, NothingLost
<1> QED BY <1>1, <1>3, <1>4, <1>5, CarriedParts DEF Carried, InOrderBothWays, Drained, Dirs

LEMMA EndsLoseNothing ==
  ASSUME TypeOK, Carried, NEW t \in Tasks, ReadEnds(t) \/ WriteFails(t) \/ IdleEnds(t)
  PROVE  \E ts \in SUBSET Tasks : EndTasks(ts) /\ NothingLost(ts)
<1> DEFINE ts == IF Spawned(Side(t)) THEN {t} ELSE TasksOf[Side(t)]
<1>1. t \in ts /\ ts \in SUBSET Tasks /\ EndTasks(ts)
  BY Stopping DEF ReadEnds, WriteFails, IdleEnds
<1>2. /\ UNCHANGED <<sent, got, phase, user>> /\ timed \subseteq timed' /\ reset \subseteq reset'
      /\ ended' = ended \cup ts /\ Active(t) /\ phase[Side(t)] # "dial"
  <2>1. UNCHANGED <<sent, got, phase, user>> /\ timed \subseteq timed' /\ Active(t)
    BY DEF ReadEnds, WriteFails, IdleEnds
  <2>2. reset \subseteq reset' /\ ended' = ended \cup ts
    BY <1>1, Ending
  <2> QED BY <2>1, <2>2 DEF Active, Spawned
<1>3. phase["client"] = "dial" => "client_down" \notin ts
  <2>1. phase["client"] = "dial" => Side(t) = "server"
    BY <1>2, Geometry DEF Sides
  <2> QED BY <2>1, Geometry DEF Side, TasksOf, Tasks
<1>4. CASE reset # {}
  <2>1. \A d \in Dirs : ~Intact(d)'
    BY <1>2, <1>4 DEF Intact
  <2> QED BY <1>1, <1>2, <1>3, <2>1 DEF NothingLost
<1>5. CASE IdleEnds(t)
  <2>1. Spawned(Side(t)) /\ ts = {t} /\ t \in timed'
    BY <1>5 DEF IdleEnds, HasIdleTimer, Spawned
  <2>2. \A d \in Dirs : Intact(d)' => Taker(d) \notin ts /\ Giver(d) \notin ts
    BY <2>1, Places DEF Intact, CutShort
  <2> QED BY <1>1, <1>2, <1>3, <2>2 DEF NothingLost
<1>6. CASE ReadEnds(t) /\ reset = {}
  <2>1. AtEof(t) /\ held[t] = 0 /\ phase[Side(t)] # "first"
    BY <1>6 DEF ReadEnds
  <2>2. Spawned(Side(t)) \/ (t = "client_down" /\ phase["client"] = "upgrade")
    <3>1. CASE phase[Side(t)] = "upgrade"
      BY <1>2, <3>1 DEF Active, Spawned, Carried, ServerPhase, Dir, Side, TasksOf, Tasks
    <3> QED BY <1>2, <2>1, <3>1 DEF Active
  <2>3. ~Spawned(Side(t)) => ~Intact("up")'
    <3>1. ~Spawned(Side(t)) => TasksOf["client"] \subseteq ended' /\ phase'["client"] = "upgrade"
      BY <1>2, <2>2 DEF Side, TasksOf
    <3> QED BY <3>1 DEF Intact, Declined, Over
  <2>4. ASSUME NEW d \in Dirs, Intact(d)', Taker(d) \in ts
        PROVE  held[Taker(d)] = 0 /\ Source(d) = <<>> /\ user[SenderOf(d)] # "open"
    <3>1. t = Taker(d)
      BY <2>2, <2>4 DEF Taker, Dirs, Side, TasksOf
    <3> QED
      BY <2>1, <3>1 DEF AtEof, Input, From, Dir, HasShut, Sender, Lower, Upper, Users, Source,
                        Taker, SenderOf, Dirs
  <2>5. ASSUME NEW d \in Dirs, Intact(d)', Giver(d) \in ts
        PROVE  held[Giver(d)] = 0 /\ Middle(d) = <<>> /\ Over(Side(Taker(d)))
    <3>1. t = Giver(d)
      BY <2>2, <2>3, <2>5 DEF Giver, Dirs, Side, TasksOf
    <3> QED
      BY <2>1, <3>1 DEF AtEof, Input, From, Dir, HasShut, Sender, Lower, Upper, Users, Middle,
                        Taker, Giver, Dirs, Side, TasksOf
  <2> QED BY <1>1, <1>2, <1>3, <2>4, <2>5 DEF NothingLost
<1> QED BY <1>4, <1>5, <1>6 DEF WriteFails

LEMMA DialEndsLoseNothing ==
  ASSUME TypeOK, Carried, UpgradeTimeout \/ BackendRefuses
  PROVE  \E ts \in SUBSET Tasks : EndTasks(ts) /\ NothingLost(ts)
<1> DEFINE ts == {"client_up", "client_down"}
<1>1. ts \in SUBSET Tasks /\ ts = TasksOf["client"]
  BY DEF Tasks, TasksOf
<1>2. /\ Taker("up") \notin ts /\ Giver("down") \notin ts
      /\ Taker("down") = "client_down" /\ Giver("up") = "client_up" /\ Dirs = {"up", "down"}
  BY DEF Taker, Giver, Dirs
<1>3. CASE UpgradeTimeout
  <2>1. Stop("client_down") /\ ~Spawned(Side("client_down")) /\ Side("client_down") = "client"
        /\ timed' = timed \cup TasksOf["client"] /\ UNCHANGED <<sent, got, phase, user>>
    BY <1>3 DEF UpgradeTimeout, Side, TasksOf, Spawned
  <2>2. EndTasks(ts)
    BY <1>1, <2>1 DEF Stop
  <2>3. ~Intact("up")' /\ ~Intact("down")'
    BY <1>1, <2>1 DEF Intact, CutShort, Dir
  <2> QED BY <1>1, <1>2, <2>1, <2>2, <2>3 DEF NothingLost
<1>4. CASE BackendRefuses
  <2>1. /\ EndTasks(ts) /\ UNCHANGED <<sent, got, phase, user, timed>>
        /\ phase["client"] = "dial"
    BY <1>1, <1>4 DEF BackendRefuses
  <2>2. user["backend"] = "away" /\ held["client_down"] = 0 /\ Source("down") = <<>>
    BY <2>1 DEF Carried, Undialed
  <2>3. ~Intact("up")'
    <3>1. TasksOf["client"] \subseteq ended'
      BY <1>1, <2>1, Ending
    <3> QED BY <2>1, <2>2, <3>1 DEF Intact, Refused, Over
  <2> QED BY <1>1, <1>2, <2>1, <2>2, <2>3 DEF NothingLost, SenderOf
<1> QED BY <1>3, <1>4

LEMMA PhaseMoves ==
  ASSUME TypeOK, ServerPhase, NEW t \in Tasks, EnterNextPhase(t)
  PROVE  /\ ServerPhase' /\ (phase'["client"] = "dial" => phase["client"] = "dial")
         /\ Active(t) => (phase["client"] = "dial" => phase'["client"] = "dial")
<1>1. PICK next \in NextPhases(Side(t)) : phase' = [phase EXCEPT ![Side(t)] = next]
  BY DEF EnterNextPhase
<1>2. next = "dial" => next = phase[Side(t)]
  BY DEF NextPhases, Upgraded
<1>3. Side(t) = "server" => next \in {phase["server"], "relay", "websocket"}
  BY DEF NextPhases, Upgraded
<1>4. Side(t) \in Sides /\ phase \in [Sides -> {"dial", "first", "upgrade", "relay", "websocket"}]
  BY Geometry DEF TypeOK
<1>5. Active(t) => phase[Side(t)] # "dial"
  BY DEF Active, Spawned
<1> QED BY <1>1, <1>2, <1>3, <1>4, <1>5 DEF ServerPhase, Sides

\* A step that ends no task: what is drained stays so.
LEMMA DrainedCarried ==
  ASSUME TypeOK, Carried, Lasting, InOrderBothWays', ServerPhase', ended' = ended,
         \A d \in Dirs : Taker(d) \in ended /\ Source(d) = <<>> /\ user[SenderOf(d)] # "open" =>
            /\ held'[Taker(d)] = held[Taker(d)] /\ Source(d)' = <<>>
            /\ user'[SenderOf(d)] # "open",
         \A d \in Dirs : Taker(d) \in ended /\ Giver(d) \in ended /\ Middle(d) = <<>> =>
            held'[Giver(d)] = held[Giver(d)] /\ Middle(d)' = <<>>,
         Dropped' => Dropped,
         phase'["client"] = "dial" =>
            /\ phase["client"] = "dial" /\ held'["client_down"] = held["client_down"]
            /\ user["backend"] = "away" =>
                 user'["backend"] = "away" /\ (Source("down") = <<>> => Source("down")' = <<>>),
         user'["backend"] = "away" =>
            user["backend"] = "away" /\ (phase["client"] = "dial" => phase'["client"] = "dial")
  PROVE  Carried'
<1>1. ASSUME NEW d \in Dirs PROVE TakerDrained(d)' /\ GiverDrained(d)'
  <2>1. TakerDrained(d) /\ GiverDrained(d) /\ (Intact(d)' => Intact(d)) /\ (Dropped' <=> Dropped)
    BY NothingHeals DEF Carried, Drained, Lasting
  <2>2. TakerDrained(d)'
    BY <2>1 DEF TakerDrained, Taker
  <2>3. GiverDrained(d)'
    BY <2>1 DEF GiverDrained, Taker, Giver
  <2> QED BY <2>2, <2>3
<1>2. Undialed' /\ Dialed'
  BY DEF Carried, Undialed, Dialed
<1> QED BY <1>1, <1>2, CarriedParts DEF Carried, InOrderBothWays, Drained, Dirs

LEMMA TaskCarried ==
  ASSUME TypeOK, Carried, NEW t \in Tasks, TaskStep(t)
  PROVE  Carried'
<1>0. InOrderBothWays /\ ServerPhase /\ Lasting
  BY CarriedParts, TaskLasting
<1>1. CASE ReadEnds(t) \/ WriteFails(t) \/ IdleEnds(t)
  BY <1>0, <1>1, EndsLoseNothing, EndCarried
<1>2. CASE Read(t)
  <2>1. InOrderBothWays'
    BY <1>0, <1>2, ReadOrder
  <2>2. /\ UNCHANGED <<ended, phase, user>> /\ t \notin ended
        /\ \A s \in Tasks \ {t} : held'[s] = held[s]
        /\ phase[Side(t)] # "dial" /\ Input(t) # <<>>
    BY <1>2 DEF Read, TypeOK, Active, Spawned
  <2>3. ServerPhase' /\ (Dropped' => Dropped)
    BY <1>0, <2>2 DEF ServerPhase, Dropped
  <2>4. \A l \in Links, d \in Dirs : pipe[l][d] = <<>> => pipe'[l][d] = <<>>
    <3>1. PICK q : pipe' = [pipe EXCEPT ![From[t]][Dir(t)] = q]
      BY <1>2 DEF Read
    <3> QED BY <2>2, <3>1 DEF TypeOK, Input
  <2>5. \A d \in Dirs : /\ Source(d) = <<>> => Source(d)' = <<>>
                        /\ Middle(d) = <<>> => Middle(d)' = <<>>
    BY <2>4 DEF Source, Middle, Links
  <2>6. phase["client"] = "dial" => t # "client_down"
    BY <2>2 DEF Side, TasksOf
  <2>7. \A d \in Dirs : /\ Taker(d) \in ended => held'[Taker(d)] = held[Taker(d)]
                        /\ Giver(d) \in ended => held'[Giver(d)] = held[Giver(d)]
    BY <2>2, Places
  <2>8. "client_down" \in Tasks /\ "down" \in Dirs
    BY DEF Tasks, Dirs
  <2> QED BY <1>0, <2>1, <2>2, <2>3, <2>5, <2>6, <2>7, <2>8, DrainedCarried
<1>3. CASE Write(t)
  <2>1. InOrderBothWays'
    BY <1>0, <1>3, WriteOrder
  <2>2. /\ UNCHANGED <<ended, user>> /\ t \notin ended
        /\ \A s \in Tasks \ {t} : held'[s] = held[s]
        /\ phase[Side(t)] # "dial" /\ Active(t)
    BY <1>3 DEF Write, Written, TypeOK, Active, Spawned
  <2>3. ServerPhase' /\ (phase'["client"] = "dial" <=> phase["client"] = "dial")
    BY <1>0, <1>3, <2>2, PhaseMoves DEF Write, Written
  <2>4. Dropped' => Dropped
    BY <2>2 DEF Dropped
  <2>5. PICK q : pipe' = [pipe EXCEPT ![To[t]][Dir(t)] = q]
    BY <1>3 DEF Write
  <2>6. \A d \in Dirs : Source(d)' = Source(d)
    <3> TAKE d \in Dirs
    <3>1. ~(To[t] = From[Taker(d)] /\ Dir(t) = d)
      BY DEF To, From, Taker, Dir, Tasks, Dirs
    <3> QED BY <2>5, <3>1, Places, Places2 DEF TypeOK
  <2>7. \A d \in Dirs : t # Taker(d) => Middle(d)' = Middle(d)
    <3> TAKE d \in Dirs
    <3>1. To[t] = "call" /\ Dir(t) = d => t = Taker(d)
      BY Places
    <3> QED BY <2>5, <3>1 DEF Middle, TypeOK
  <2>8. phase["client"] = "dial" => t # "client_down"
    BY <2>2 DEF Side, TasksOf
  <2>9. \A d \in Dirs : /\ Taker(d) \in ended => held'[Taker(d)] = held[Taker(d)]
                        /\ Giver(d) \in ended => held'[Giver(d)] = held[Giver(d)]
    BY <2>2, Places
  <2>10. "client_down" \in Tasks /\ "down" \in Dirs
    BY DEF Tasks, Dirs
  <2> QED BY <1>0, <2>1, <2>2, <2>3, <2>4, <2>6, <2>7, <2>8, <2>9, <2>10, DrainedCarried
<1>4. CASE WriteVanishes(t)
  <2>1. InOrderBothWays'
    BY <1>0, <1>4, VanishOrder
  <2>2. /\ UNCHANGED <<ended, user, pipe>> /\ t \notin ended
        /\ \A s \in Tasks \ {t} : held'[s] = held[s]
        /\ phase[Side(t)] # "dial" /\ Active(t)
    BY <1>4 DEF WriteVanishes, Written, TypeOK, Active, Spawned
  <2>3. ServerPhase' /\ (phase'["client"] = "dial" <=> phase["client"] = "dial")
    BY <1>0, <1>4, <2>2, PhaseMoves DEF WriteVanishes, Written
  <2>4. Dropped' => Dropped
    BY <2>2 DEF Dropped
  <2>5. \A d \in Dirs : Source(d)' = Source(d) /\ Middle(d)' = Middle(d)
    BY <2>2 DEF Source, Middle
  <2>6. phase["client"] = "dial" => t # "client_down"
    BY <2>2 DEF Side, TasksOf
  <2>7. \A d \in Dirs : /\ Taker(d) \in ended => held'[Taker(d)] = held[Taker(d)]
                        /\ Giver(d) \in ended => held'[Giver(d)] = held[Giver(d)]
    BY <2>2, Places
  <2>8. "client_down" \in Tasks /\ "down" \in Dirs
    BY DEF Tasks, Dirs
  <2> QED BY <1>0, <2>1, <2>2, <2>3, <2>4, <2>5, <2>6, <2>7, <2>8, DrainedCarried
<1> QED BY <1>1, <1>2, <1>3, <1>4 DEF TaskStep

LEMMA OtherCarried ==
  ASSUME TypeOK, Carried, ClientStep \/ BackendAccepts \/ BackendRefuses \/ UNCHANGED vars
  PROVE  Carried'
<1>0. Lasting /\ InOrderBothWays
  BY OtherLasting, CarriedParts
<1>1. CASE UpgradeTimeout \/ BackendRefuses
  BY <1>0, <1>1, DialEndsLoseNothing, EndCarried
<1>2. CASE FirstReadEmpty \/ LegacyStop \/ LegacyIdle \/ BackendAccepts \/ UNCHANGED vars
  <2>1. /\ UNCHANGED <<sent, got, pipe, held, ended>>
        /\ user'["public"] = user["public"]
        /\ phase'["server"] = phase["server"]
    BY <1>2 DEF FirstReadEmpty, LegacyStop, LegacyIdle, BackendAccepts, vars, TypeOK, Users, Sides
  <2>2. BackendAccepts => phase["client"] = "dial" /\ ~Over("client") /\ user["backend"] = "away"
    BY DEF BackendAccepts, Carried, Undialed
  <2>3. InOrderBothWays'
    BY <1>0, <2>1, QuietOrder
  <2>4. ServerPhase' /\ (Dropped' => Dropped)
        /\ \A d \in Dirs : /\ Source(d)' = Source(d) /\ Middle(d)' = Middle(d)
                           /\ held'[Taker(d)] = held[Taker(d)] /\ held'[Giver(d)] = held[Giver(d)]
    BY <2>1 DEF Carried, ServerPhase, Dropped, Source, Middle, Taker, Giver
  <2>5. BackendAccepts => /\ phase'["client"] # "dial" /\ user'["backend"] # "away"
                          /\ Taker("down") \notin ended
    BY <2>2 DEF BackendAccepts, TypeOK, Sides, Users, Carried, Undialed, Over, TasksOf, Taker
  <2>6. ~BackendAccepts => /\ user' = user
                           /\ phase'["client"] = "dial" <=> phase["client"] = "dial"
    BY <1>2 DEF FirstReadEmpty, LegacyStop, LegacyIdle, vars, TypeOK, Sides
  <2>7. \A d \in Dirs : Taker(d) \in ended /\ user[SenderOf(d)] # "open" => user'[SenderOf(d)] # "open"
    BY <2>1, <2>5, <2>6 DEF Dirs, SenderOf
  <2>8. "down" \in Dirs
    BY DEF Dirs
  <2> QED BY <1>0, <2>1, <2>3, <2>4, <2>5, <2>6, <2>7, <2>8, DrainedCarried
<1> QED BY <1>1, <1>2 DEF ClientStep

LEMMA UserCarried ==
  ASSUME TypeOK, Carried, NEW u \in Users, UserStep(u) \/ UserReads(u)
  PROVE  Carried'
<1>0. InOrderBothWays /\ ServerPhase /\ Lasting
  BY CarriedParts, UserLasting
<1>1. /\ UNCHANGED <<ended, phase, held>> /\ user[u] \in {"open", "shut"}
      /\ \A v \in Users : user'[v] = user[v] \/ (v = u /\ user'[v] \in {"shut", "closed"})
  <2>1. CASE UserSends(u) \/ UserReads(u)
    BY <2>1 DEF UserSends, UserReads
  <2>2. CASE UserShuts(u)
    BY <2>2 DEF UserShuts, TypeOK
  <2>3. CASE UserCloses(u)
    BY <2>3 DEF UserCloses, TypeOK
  <2> QED BY <2>1, <2>2, <2>3 DEF UserStep
<1>2. /\ ServerPhase' /\ (Dropped' => Dropped)
      /\ \A d \in Dirs : user[SenderOf(d)] # "open" => user'[SenderOf(d)] # "open"
      /\ user["backend"] = "away" <=> user'["backend"] = "away"
      /\ "down" \in Dirs
  BY <1>0, <1>1 DEF ServerPhase, Dropped, Users, Dirs, SenderOf
<1>3. \A d \in Dirs : held'[Taker(d)] = held[Taker(d)] /\ held'[Giver(d)] = held[Giver(d)]
  BY <1>1 DEF Taker, Giver
<1>4. CASE UserSends(u)
  <2>1. InOrderBothWays'
    BY <1>0, <1>4, SendOrder
  <2>2. PICK q : pipe' = [pipe EXCEPT ![Own(u)][OutDir(u)] = q]
    BY <1>4 DEF UserSends
  <2>3. \A d \in Dirs : user[SenderOf(d)] # "open" => Source(d)' = Source(d)
    <3> TAKE d \in Dirs
    <3>1. user[SenderOf(d)] # "open" => d # OutDir(u)
      BY <1>4 DEF UserSends, SenderOf, OutDir, Users, Dirs
    <3>2. d # OutDir(u) => pipe'[From[Taker(d)]][d] = pipe[From[Taker(d)]][d]
      BY <2>2, Places DEF TypeOK
    <3>3. Source(d) = pipe[From[Taker(d)]][d]
      BY Places
    <3> QED BY <3>1, <3>2, <3>3, Places2
  <2>4. \A d \in Dirs : Middle(d)' = Middle(d)
    BY <2>2, UserPlaces DEF Middle, TypeOK
  <2>5. user["backend"] = "away" => Source("down")' = Source("down")
    BY <1>2, <2>3 DEF SenderOf
  <2> QED BY <1>0, <1>1, <1>2, <1>3, <2>1, <2>3, <2>4, <2>5, DrainedCarried
<1>5. CASE UserReads(u)
  <2>1. InOrderBothWays'
    BY <1>0, <1>5, ReceiveOrder
  <2>2. PICK q : pipe' = [pipe EXCEPT ![Own(u)][InDir(u)] = q]
    BY <1>5 DEF UserReads
  <2>3. \A d \in Dirs : Source(d)' = Source(d) /\ Middle(d)' = Middle(d)
    <3> TAKE d \in Dirs
    <3>1. Own(u) # "call" /\ ~(Own(u) = From[Taker(d)] /\ InDir(u) = d)
      BY UserPlaces
    <3> QED BY <2>2, <3>1, Places, Places2 DEF Middle, TypeOK
  <2> QED BY <1>0, <1>1, <1>2, <1>3, <2>1, <2>3, DrainedCarried
<1>6. CASE UserShuts(u)
  <2>1. InOrderBothWays'
    BY <1>0, <1>6, QuietOrder DEF UserShuts
  <2>2. \A d \in Dirs : Source(d)' = Source(d) /\ Middle(d)' = Middle(d)
    BY <1>6 DEF UserShuts, Source, Middle
  <2> QED BY <1>0, <1>1, <1>2, <1>3, <2>1, <2>2, DrainedCarried
<1>7. CASE UserCloses(u)
  <2>1. InOrderBothWays'
    BY <1>0, <1>7, CloseOrder
  <2>2. \A l \in Links, d \in Dirs : pipe[l][d] = <<>> => pipe'[l][d] = <<>>
    BY <1>7, TypeParts, Closing DEF UserCloses, Rests
  <2>3. \A d \in Dirs : /\ Source(d) = <<>> => Source(d)' = <<>>
                        /\ Middle(d) = <<>> => Middle(d)' = <<>>
    BY <2>2 DEF Source, Middle, Links
  <2> QED BY <1>0, <1>1, <1>2, <1>3, <2>1, <2>3, DrainedCarried
<1> QED BY <1>4, <1>5, <1>6, <1>7 DEF UserStep

LEMMA CarriedInit == Init => Carried
<1> SUFFICES ASSUME Init PROVE Carried
  OBVIOUS
<1>1. PICK waiter \in BOOLEAN :
       /\ sent = [d \in Dirs |-> IF d = "up" /\ waiter THEN 1 ELSE 0]
       /\ held = [t \in Tasks |-> IF t = "server_up" /\ waiter THEN 1 ELSE 0]
       /\ ended = IF waiter THEN {} ELSE TasksOf["server"]
       /\ user = [u \in Users |-> IF u = "public" /\ waiter THEN "open" ELSE "away"]
  BY DEF Init
<1>2. /\ got = [d \in Dirs |-> <<>>] /\ pipe = [l \in Links |-> [d \in Dirs |-> <<>>]]
      /\ phase = [side \in Sides |-> IF side = "server" THEN "first" ELSE "dial"]
  BY DEF Init
<1>3. \A d \in Dirs : /\ got[d] = <<>> /\ Source(d) = <<>> /\ Middle(d) = <<>> /\ Last(d) = <<>>
                      /\ sent[d] = One(held[Taker(d)]) /\ held[Giver(d)] = 0
                      /\ held[Taker(d)] \in {0, 1}
  BY <1>1, <1>2 DEF Dirs, Links, Tasks, Source, Middle, Last, Taker, Giver, One
<1>4. \A d \in Dirs : Given(d) = 0 /\ Taken(d) = 0
  <2> TAKE d \in Dirs
  <2>1. Len(got[d]) = 0 /\ Len(Last(d)) = 0 /\ Len(Middle(d)) = 0
    BY <1>3, Empty
  <2>2. Given(d) = 0
    BY <2>1 DEF Given
  <2>3. One(held[Giver(d)]) = 0
    BY <1>3 DEF One
  <2> QED BY <2>1, <2>2, <2>3 DEF Taken
<1>5. \A d \in Dirs : Run(<<>>, 0) /\ Run(<<>>, 1) /\ Len(<<>>) = 0
  BY Empty
<1>6. \A d \in Dirs : Run(got[d], 0) /\ Run(Last(d), Len(got[d])) /\ GiverInOrder(d) /\ TakerInOrder(d)
  <2> TAKE d \in Dirs
  <2>1. Run(got[d], 0) /\ Run(Last(d), Len(got[d])) /\ GiverInOrder(d)
    BY <1>3, <1>4, <1>5 DEF GiverInOrder, Next1, One
  <2>2. TakerInOrder(d)
    BY <1>3, <1>4, <1>5 DEF TakerInOrder, Next1, One
  <2> QED BY <2>1, <2>2
<1>7. Drained /\ Undialed /\ Dialed /\ ServerPhase
  <2>1. "up" \in Dirs /\ "down" \in Dirs /\ "client_down" \in Tasks /\ "server_up" \in Tasks
    BY DEF Dirs, Tasks
  <2>2. Undialed /\ Dialed /\ ServerPhase
    BY <1>1, <1>2, <1>3, <2>1
    DEF Undialed, Dialed, ServerPhase, TasksOf, Users, Sides
  <2>3. CASE waiter
    <3>1. ended = {}
      BY <1>1, <2>3
    <3> QED BY <2>2, <3>1 DEF Drained, TakerDrained, GiverDrained
  <2>4. CASE ~waiter
    <3>1. /\ \A t \in Tasks : held[t] = 0
          /\ Dropped /\ user["public"] = "away" /\ user["backend"] = "away"
      BY <1>1, <2>4 DEF Users, Dropped
    <3> QED BY <1>3, <2>2, <3>1, Places
          DEF Drained, TakerDrained, GiverDrained, SenderOf, Dirs
  <2> QED BY <2>3, <2>4
<1> QED BY <1>6, <1>7 DEF Carried, ChainInOrder, AllThere, Dirs

LEMMA CarriedAlways == Spec => [](TypeOK /\ Carried)
<1>1. TypeOK /\ Carried /\ [Next]_vars => TypeOK' /\ Carried'
  BY RelayTyped, TaskCarried, OtherCarried, UserCarried DEF Next, Finished
<1> QED BY <1>1, RelayInit, CarriedInit, PTL DEF Spec

-----------------------------------------------------------------------------
(* What the users see.                                                     *)

\* What a user received is what the other sent, from the first chunk on, with no
\* gap, repetition or change of order.
THEOREM ArrivesInOrder == Spec => []InOrder
<1>1. TypeOK /\ Carried => InOrder
  <2> SUFFICES ASSUME TypeOK, Carried, NEW d \in Dirs, NEW i \in 1 .. Len(got[d])
               PROVE  got[d][i] = i
    BY DEF InOrder
  <2>1. Run(got[d], 0) /\ got[d] \in Seq(Chunks)
    BY Typed DEF Carried, ChainInOrder, Dirs
  <2>2. Len(got[d]) \in Nat
    BY <2>1, LenProperties
  <2> QED BY <2>1, <2>2 DEF Run
<1> QED BY <1>1, CarriedAlways, PTL

LEMMA RunsJoin ==
  ASSUME NEW p \in Seq(Chunks), NEW q \in Seq(Chunks), Run(p, 0), Run(q, Len(p)),
         NEW n \in Nat, n = Len(p) + Len(q)
  PROVE  p \o q = [i \in 1 .. n |-> i]
<1> DEFINE r == p \o q
<1>1. Len(p) \in Nat /\ Len(q) \in Nat
  BY LenProperties
<1>2. /\ r \in Seq(Chunks) /\ Len(r) = n
      /\ \A i \in 1 .. Len(p) + Len(q) : r[i] = IF i <= Len(p) THEN p[i] ELSE q[i - Len(p)]
  BY ConcatProperties
<1>3. \A i \in 1 .. n : r[i] = i
  BY <1>1, <1>2 DEF Run
<1>4. r = [i \in 1 .. Len(r) |-> r[i]]
  <2> HIDE DEF r
  <2> QED BY <1>2, LenProperties
<1> QED BY <1>2, <1>3, <1>4

\* A public user whose connection the server closed, with nothing reset and no timer
\* of the response's direction, had or can still read the whole response: neither
\* the upload's end nor its idle timer takes any of it away.
THEOREM ResponseComplete == Spec => []EofMeansAll
<1>1. TypeOK /\ Carried => EofMeansAll
  <2> SUFFICES ASSUME TypeOK, Carried, Over("server"), Intact("down"), ~Dropped
               PROVE  got["down"] \o Last("down") = [i \in 1 .. sent["down"] |-> i]
    BY DEF EofMeansAll, Intact, Last
  <2>1. "down" \in Dirs
    BY DEF Dirs
  <2>2. held["server_down"] = 0 /\ Middle("down") = <<>> /\ "client_down" \in ended
    BY <2>1 DEF Carried, Drained, GiverDrained, Over, TasksOf, Giver, Taker
  <2>3. held["client_down"] = 0 /\ Source("down") = <<>>
    BY <2>1, <2>2 DEF Carried, Drained, TakerDrained, Taker
  <2>4. Taken("down") = Given("down")
    BY <2>1, <2>2, Typed, Empty DEF Taken, One, Giver
  <2>5. sent["down"] = Given("down")
    <3>1. TakerInOrder("down")
      BY <2>1 DEF Carried, AllThere
    <3> QED BY <2>1, <2>3, <2>4, <3>1, Typed, Empty DEF TakerInOrder, One, Taker
  <2>6. Run(got["down"], 0) /\ Run(Last("down"), Len(got["down"]))
    BY DEF Carried, ChainInOrder
  <2>7. got["down"] \in Seq(Chunks) /\ Last("down") \in Seq(Chunks) /\ Given("down") \in Nat
    BY <2>1, Typed
  <2> QED BY <2>5, <2>6, <2>7, RunsJoin DEF Given
<1> QED BY <1>1, CarriedAlways, PTL

-----------------------------------------------------------------------------
(* What the tunnel does is what two streams may do.                        *)

LEMMA Counts ==
  ASSUME TypeOK, NEW d \in Dirs
  PROVE  /\ Len(got[d]) \in Nat /\ Len(Last(d)) \in Nat
         /\ Len(Middle(d)) \in Nat /\ Len(Source(d)) \in Nat
         /\ Given(d) \in Nat /\ Taken(d) \in Nat /\ Reach(d) \in Nat /\ sent[d] \in Nat
         /\ Len(got[d]) <= Given(d) /\ Given(d) <= Taken(d)
         /\ Given(d) <= Reach(d) /\ (Delivers(Giver(d)) => Taken(d) <= Reach(d))
<1>1. /\ Len(got[d]) \in Nat /\ Len(Last(d)) \in Nat
      /\ Len(Middle(d)) \in Nat /\ Len(Source(d)) \in Nat /\ sent[d] \in Nat
      /\ Given(d) \in Nat /\ Taken(d) \in Nat
  BY Typed, LenProperties
<1>2. One(held[Giver(d)]) \in Nat /\ One(held[Taker(d)]) \in Nat
  BY DEF One
<1>3. Len(got[d]) <= Given(d)
  BY <1>1 DEF Given
<1>4. Given(d) <= Taken(d)
  <2> DEFINE g == Given(d)
  <2> HIDE DEF g
  <2>1. Taken(d) = g + One(held[Giver(d)]) + Len(Middle(d)) /\ g \in Nat
    BY <1>1 DEF Taken, g
  <2>2. g <= Taken(d)
    BY <1>1, <1>2, <2>1
  <2> QED BY <2>2 DEF g
<1>5. /\ Reach(d) \in Nat /\ Given(d) <= Reach(d)
      /\ Delivers(Giver(d)) => Taken(d) <= Reach(d)
  BY <1>1, <1>2, <1>4 DEF Reach
<1> QED BY <1>1, <1>3, <1>4, <1>5

\* Where nothing broke, all that was sent can still arrive.
LEMMA WholeReach ==
  ASSUME TypeOK, Carried, NEW d \in Dirs, ~Broken(d)
  PROVE  Reach(d) = sent[d]
<1>1. Intact(d) /\ ~Dropped /\ reset = {} /\ user[ReceiverOf(d)] # "closed"
  BY DEF Broken, Intact
<1>2. /\ sent[d] = Taken(d) + One(held[Taker(d)]) + Len(Source(d))
      /\ TakerDrained(d) /\ GiverDrained(d)
  BY <1>1 DEF Carried, AllThere, TakerInOrder, Drained
<1>3. Given(d) \in Nat /\ Taken(d) \in Nat /\ Len(<<>>) = 0 /\ One(0) = 0
  BY Counts, Empty DEF One
<1>4. Taker(d) \in ended => sent[d] = Taken(d)
  BY <1>1, <1>2, <1>3 DEF TakerDrained
<1>5. Giver(d) \in ended => Taken(d) = Given(d) /\ Taker(d) \in ended
  BY <1>1, <1>2, <1>3 DEF GiverDrained, Taken
<1>6. Giver(d) \notin ended => Delivers(Giver(d))
  BY <1>1 DEF Delivers, HasClosed, Giver, To, Dir, Receiver, Lower, Upper, ReceiverOf, Users, Dirs
<1>7. Giver(d) \notin ended /\ Taker(d) \notin ended => Delivers(Taker(d))
  <2>1. To[Taker(d)] = "call" /\ Dir(Taker(d)) = d /\ Receiver("call", d) = Side(Giver(d))
        /\ Side(Giver(d)) \notin Users /\ Giver(d) \in TasksOf[Side(Giver(d))]
    BY Places
  <2> QED BY <1>1, <2>1 DEF Delivers, HasClosed, Over
<1>8. Giver(d) \in ended => ~Delivers(Giver(d))
  BY DEF Delivers
<1>9. Taker(d) \in ended => ~Delivers(Taker(d))
  BY DEF Delivers
<1> QED BY <1>2, <1>4, <1>5, <1>6, <1>7, <1>8, <1>9 DEF Reach

\* An end of file that no break explains is the sender's own.
LEMMA OwnEnd ==
  ASSUME TypeOK, Carried, NEW d \in Dirs, ~Broken(d), Over(Side(Giver(d)))
  PROVE  HasShut(SenderOf(d))
<1>1. Intact(d) /\ ~Dropped /\ ~Refused
  BY DEF Broken, Intact
<1>2. Giver(d) \in ended
  BY Places DEF Over
<1>3. Taker(d) \in ended /\ user[SenderOf(d)] # "open"
  BY <1>1, <1>2 DEF Carried, Drained, TakerDrained, GiverDrained
<1>4. user[SenderOf(d)] # "away"
  <2>1. CASE d = "up"
    BY <1>1, <2>1 DEF Dropped, SenderOf
  <2>2. CASE d = "down"
    <3>1. "client_down" \in ended
      BY <1>3, <2>2 DEF Taker
    <3>2. user["backend"] = "away" => TasksOf["client"] \subseteq ended
      BY <3>1 DEF Carried, Dialed, Undialed, TasksOf
    <3> QED BY <1>1, <2>2, <3>2 DEF SenderOf, Refused, Over
  <2> QED BY <2>1, <2>2 DEF Dirs
<1> QED BY <1>3, <1>4 DEF TypeOK, HasShut, SenderOf, Users

\* The same of the state after a step.
Reachable(d) ==
  /\ Len(got[d]) \in Nat /\ Reach(d) \in Nat /\ Len(got[d]) <= Reach(d)
  /\ ~Broken(d) => Reach(d) = sent[d]
  /\ ~Broken(d) /\ Over(Side(Giver(d))) => HasShut(SenderOf(d))

LEMMA Always == TypeOK /\ Carried => \A d \in Dirs : Reachable(d)
<1> SUFFICES ASSUME TypeOK, Carried, NEW d \in Dirs PROVE Reachable(d)
  OBVIOUS
<1>1. Len(got[d]) \in Nat /\ Reach(d) \in Nat /\ Given(d) \in Nat
      /\ Len(got[d]) <= Given(d) /\ Given(d) <= Reach(d)
  BY Counts
<1>2. Len(got[d]) <= Reach(d)
  BY <1>1
<1> QED BY <1>1, <1>2, WholeReach, OwnEnd DEF Reachable

LEMMA AlwaysAfter == TypeOK' /\ Carried' => \A d \in Dirs : Reachable(d)'
<1>1. (TypeOK /\ Carried)' => (\A d \in Dirs : Reachable(d))'
  BY Always, PTL
<1> QED BY <1>1

LEMMA AlwaysCounts == TypeOK' => \A d \in Dirs : Given(d)' \in Nat
<1>1. TypeOK => \A d \in Dirs : Given(d) \in Nat
  BY Counts
<1>2. TypeOK' => (\A d \in Dirs : Given(d) \in Nat)'
  BY <1>1, PTL
<1> QED BY <1>2

\* A chunk in a task's hands counts as the one it was.
LEMMA TakenOver ==
  ASSUME NEW q \in Seq(Chunks), q # <<>>
  PROVE  One(0) + Len(q) = One(Head(q)) + Len(Tail(q))
<1>1. Head(q) \in Chunks /\ Len(q) \in Nat /\ Len(Tail(q)) = Len(q) - 1
  BY HeadTailProperties, LenProperties
<1>2. One(Head(q)) = 1 /\ One(0) = 0
  BY <1>1 DEF One, Chunks
<1> QED BY <1>1, <1>2

Kept(d) == sent'[d] = sent[d] /\ got'[d] = got[d]
Received(d) == sent'[d] = sent[d] /\ got'[d] = Append(got[d], Len(got[d]) + 1)
WasSent(d) == sent'[d] = sent[d] + 1 /\ got'[d] = got[d] /\ ~HasShut(SenderOf(d))

\* The abstract steps of one direction, in the terms of the concrete one.
LEMMA AbstractSteps ==
  ASSUME NEW d \in Dirs
  PROVE  /\ Kept(d) /\ Reach(d)' = Reach(d) => Abstract!Rest(d)
         /\ Kept(d) /\ Broken(d)' /\ Reach(d)' \in Len(got[d]) .. Reach(d) => Abstract!Lose(d)
         /\ Received(d) /\ Len(got[d]) < Reach(d) /\ Reach(d)' = Reach(d) => Abstract!Deliver(d)
         /\ WasSent(d) /\ Reach(d) = sent[d] /\ Reach(d)' = sent'[d] => Abstract!Send(d)
         /\ WasSent(d) /\ Broken(d)' /\ Reach(d)' = Reach(d) => Abstract!Send(d)
<1>1. Kept(d) /\ Reach(d)' = Reach(d) => Abstract!Rest(d)
  BY DEF Kept, Abstract!Rest
<1>2. Kept(d) /\ Broken(d)' /\ Reach(d)' \in Len(got[d]) .. Reach(d) => Abstract!Lose(d)
  BY DEF Kept, Abstract!Lose
<1>3. Received(d) /\ Len(got[d]) < Reach(d) /\ Reach(d)' = Reach(d) => Abstract!Deliver(d)
  BY DEF Received, Abstract!Deliver
<1>4. WasSent(d) /\ Reach(d) = sent[d] /\ Reach(d)' = sent'[d] => Abstract!Send(d)
  BY DEF WasSent, Abstract!Send
<1>5. WasSent(d) /\ Broken(d)' /\ Reach(d)' = Reach(d) => Abstract!Send(d)
  BY DEF WasSent, Abstract!Send
<1> QED BY <1>1, <1>2, <1>3, <1>4, <1>5

Streams(d) == Abstract!Send(d) \/ Abstract!Deliver(d) \/ Abstract!Lose(d) \/ Abstract!Rest(d)

LEMMA BrokenLasts ==
  ASSUME Lasting, NEW d \in Dirs, Broken(d)
  PROVE  Broken(d)'
BY DEF Lasting, Broken, CutShort, ReceiverOf, Users

\* Nothing is sent or received, and no more than before can arrive: a loss has a
\* cause, since where there is none all that was sent can still arrive.
LEMMA Falls ==
  ASSUME TypeOK, Carried, TypeOK', Carried', Lasting, NEW d \in Dirs,
         Kept(d), Reach(d)' <= Reach(d)
  PROVE  Streams(d)
<1>1. Reachable(d) /\ Reachable(d)'
  BY Always, AlwaysAfter
<1>2. CASE Broken(d)'
  <2>1. Reach(d)' \in Len(got[d]) .. Reach(d)
    BY <1>1 DEF Reachable, Kept
  <2> QED BY <1>2, <2>1, AbstractSteps DEF Streams
<1>3. CASE ~Broken(d)'
  <2>1. Reach(d) = sent[d] /\ Reach(d)' = sent'[d]
    BY <1>1, <1>3, BrokenLasts DEF Reachable
  <2> QED BY <2>1, AbstractSteps DEF Streams, Kept
<1> QED BY <1>2, <1>3

\* A step that moves nothing in a direction.
LEMMA LessCanArrive ==
  ASSUME TypeOK, TypeOK', Carried, Carried', Lasting, NEW d \in Dirs, Unmoved(d)
  PROVE  Streams(d)
<1> DEFINE G == Giver(d)
           T == Taker(d)
<1>1. Kept(d)
  BY DEF Unmoved, Kept
<1>2. /\ Len(Last(d)) \in Nat /\ Len(got[d]) \in Nat /\ Given(d) <= Reach(d)
      /\ Delivers(G) => Taken(d) <= Reach(d)
      /\ Reach(d) \in Nat /\ Given(d) \in Nat /\ Taken(d) \in Nat
  BY Counts
<1>3. /\ (Delivers(G)' => Delivers(G)) /\ (Delivers(T)' => Delivers(T))
      /\ Last(d)' = Last(d) \/ (Last(d)' = <<>> /\ ~Delivers(G)')
      /\ Delivers(G)' => Middle(d)' = Middle(d) /\ held'[G] = held[G]
      /\ Delivers(T)' => Source(d)' = Source(d) /\ held'[T] = held[T]
  BY WhatStays
<1>4. Given(d)' <= Given(d)
  <2>1. Len(Last(d)') <= Len(Last(d))
    BY <1>2, <1>3, Empty
  <2> QED BY <1>1, <1>2, <2>1, Empty, <1>3 DEF Given, Kept
<1>5. Delivers(G)' => Given(d)' = Given(d) /\ Taken(d)' = Taken(d)
  BY <1>1, <1>3 DEF Given, Taken, Kept
<1>6. CASE ~Delivers(G)'
  <2>1. Reach(d)' = Given(d)'
    BY <1>6 DEF Reach
  <2>2. Given(d)' \in Nat
    BY AlwaysCounts
  <2> QED BY <1>1, <1>2, <1>4, <2>1, <2>2, Falls
<1>7. CASE Delivers(G)' /\ ~Delivers(T)'
  <2>1. Reach(d)' = Taken(d)
    BY <1>5, <1>7 DEF Reach
  <2> QED BY <1>1, <1>2, <1>3, <1>7, <2>1, Falls
<1>8. CASE Delivers(G)' /\ Delivers(T)'
  <2>1. Reach(d)' = Reach(d)
    BY <1>3, <1>5, <1>8 DEF Reach
  <2> QED BY <1>1, <2>1, AbstractSteps DEF Streams
<1> QED BY <1>6, <1>7, <1>8

\* Where no task, connection or user ends, only what moves can change.
LEMMA Steady ==
  ASSUME UNCHANGED <<ended, reset, user>>, NEW t \in Tasks
  PROVE  Delivers(t)' <=> Delivers(t)
BY DEF Delivers, HasClosed, Over

LEMMA OtherRests ==
  ASSUME UNCHANGED <<ended, reset, user>>, NEW d \in Dirs, UNCHANGED Parts(d)
  PROVE  Streams(d)
<1>1. Kept(d)
  BY DEF Parts, Kept
<1>2. (Delivers(Giver(d))' <=> Delivers(Giver(d))) /\ (Delivers(Taker(d))' <=> Delivers(Taker(d)))
  BY Steady, Places
<1>3. Reach(d)' = Reach(d)
  BY <1>2 DEF Parts, Reach, Given, Taken, One
<1> QED BY <1>1, <1>3, AbstractSteps DEF Streams

\* A chunk that a task takes over can arrive as before.
LEMMA ReadStreams ==
  ASSUME TypeOK, NEW t \in Tasks, Read(t), NEW d \in Dirs
  PROVE  Streams(d)
<1>1. UNCHANGED <<sent, got, ended, reset, user>> /\ held[t] = 0
  BY ReadMoves
<1>2. (Delivers(Giver(d))' <=> Delivers(Giver(d))) /\ (Delivers(Taker(d))' <=> Delivers(Taker(d)))
  BY <1>1, Steady, Places
<1>3. Kept(d)
  BY <1>1 DEF Kept
<1>4. CASE d # Dir(t)
  BY <1>1, <1>4, ReadMoves, OtherRests
<1>5. CASE t = Taker(d)
  <2>1. /\ Source(d) # <<>> /\ held'[t] = Head(Source(d)) /\ Source(d)' = Tail(Source(d))
        /\ Middle(d)' = Middle(d) /\ Last(d)' = Last(d) /\ held'[Giver(d)] = held[Giver(d)]
    BY <1>5, ReadMoves
  <2>2. One(held[t]) + Len(Source(d)) = One(held'[t]) + Len(Source(d)')
    BY <1>1, <2>1, Typed, TakenOver
  <2>3. Given(d)' = Given(d) /\ Taken(d)' = Taken(d) /\ Taken(d) \in Nat
    BY <1>1, <2>1, Counts DEF Given, Taken
  <2>4. Taken(d)' + One(held'[t]) + Len(Source(d)') = Taken(d) + One(held[t]) + Len(Source(d))
    <3>1. One(held[t]) \in Nat /\ One(held'[t]) \in Nat
      BY DEF One
    <3>2. Len(Source(d)) \in Nat /\ Len(Source(d)') \in Nat
      BY <2>1, Typed, HeadTailProperties, LenProperties
    <3> QED BY <2>2, <2>3, <3>1, <3>2
  <2>5. Reach(d)' = Reach(d)
    BY <1>2, <1>5, <2>3, <2>4 DEF Reach
  <2> QED BY <1>3, <2>5, AbstractSteps DEF Streams
<1>6. CASE t = Giver(d)
  <2>1. /\ Middle(d) # <<>> /\ held'[t] = Head(Middle(d)) /\ Middle(d)' = Tail(Middle(d))
        /\ Source(d)' = Source(d) /\ Last(d)' = Last(d) /\ held'[Taker(d)] = held[Taker(d)]
    BY <1>6, ReadMoves
  <2>2. One(held[t]) + Len(Middle(d)) = One(held'[t]) + Len(Middle(d)')
    BY <1>1, <2>1, Typed, TakenOver
  <2>3. Given(d)' = Given(d)
    BY <1>1, <2>1 DEF Given
  <2>4. Taken(d)' = Taken(d)
    BY <1>6, <2>2, <2>3, Counts DEF Taken, One
  <2>5. Reach(d)' = Reach(d)
    BY <1>2, <2>1, <2>3, <2>4 DEF Reach, One
  <2> QED BY <1>3, <2>5, AbstractSteps DEF Streams
<1> QED BY <1>4, <1>5, <1>6, Places

LEMMA WriteStreams ==
  ASSUME TypeOK, NEW t \in Tasks, Write(t), NEW d \in Dirs
  PROVE  Streams(d)
<1>1. /\ UNCHANGED <<sent, got, ended, reset, user>> /\ Delivers(t)
      /\ held[t] \in Chunks /\ held'[t] = 0
  BY WriteMoves
<1>2. (Delivers(Giver(d))' <=> Delivers(Giver(d))) /\ (Delivers(Taker(d))' <=> Delivers(Taker(d)))
  BY <1>1, Steady, Places
<1>3. Kept(d)
  BY <1>1 DEF Kept
<1>4. One(held[t]) = 1 /\ One(held'[t]) = 0
  BY <1>1 DEF One, Chunks
<1>5. CASE d # Dir(t)
  BY <1>1, <1>5, WriteMoves, OtherRests
<1>6. CASE t = Taker(d)
  <2>1. /\ Middle(d)' = Append(Middle(d), held[t]) /\ Source(d)' = Source(d)
        /\ Last(d)' = Last(d) /\ held'[Giver(d)] = held[Giver(d)]
    BY <1>6, WriteMoves
  <2>2. Len(Middle(d)') = Len(Middle(d)) + 1
    BY <1>1, <2>1, Typed, AppendProperties
  <2>3. Given(d)' = Given(d)
    BY <1>1, <2>1 DEF Given
  <2>4. Taken(d)' = Taken(d) + 1
    <3>1. One(held[Giver(d)]) \in Nat
      BY DEF One
    <3>2. Taken(d)' = Given(d) + One(held[Giver(d)]) + Len(Middle(d)')
      BY <2>1, <2>3 DEF Taken
    <3> QED BY <2>2, <3>1, <3>2, Counts DEF Taken
  <2>5. Taken(d)' + One(held'[Taker(d)]) + Len(Source(d)') =
        Taken(d) + One(held[Taker(d)]) + Len(Source(d))
    BY <1>4, <1>6, <2>1, <2>4, Counts
  <2>6. Reach(d)' = Reach(d)
    BY <1>1, <1>2, <1>6, <2>3, <2>5 DEF Reach
  <2> QED BY <1>3, <2>6, AbstractSteps DEF Streams
<1>7. CASE t = Giver(d)
  <2>1. /\ Last(d)' = Append(Last(d), held[t]) /\ Source(d)' = Source(d)
        /\ Middle(d)' = Middle(d) /\ held'[Taker(d)] = held[Taker(d)]
    BY <1>7, WriteMoves
  <2>2. Len(Last(d)') = Len(Last(d)) + 1
    BY <1>1, <2>1, Typed, AppendProperties
  <2>3. Given(d)' = Given(d) + 1
    <3>1. PICK m \in Nat, n \in Nat : m = Len(got[d]) /\ n = Len(Last(d))
      BY Counts
    <3>2. Given(d) = m + n /\ Given(d)' = m + (n + 1)
      BY <1>1, <2>2, <3>1 DEF Given
    <3> QED BY <3>2
  <2>4. Taken(d)' = Taken(d)
    <3>1. Taken(d)' = Given(d)' + One(held'[t]) + Len(Middle(d))
      BY <1>7, <2>1 DEF Taken
    <3>2. Taken(d) = Given(d) + One(held[t]) + Len(Middle(d))
      BY <1>7 DEF Taken
    <3> QED BY <1>4, <2>3, <3>1, <3>2, Counts
  <2>5. Reach(d)' = Reach(d)
    BY <1>1, <1>2, <1>7, <2>1, <2>4 DEF Reach, One
  <2> QED BY <1>3, <2>5, AbstractSteps DEF Streams
<1> QED BY <1>5, <1>6, <1>7, Places

\* A chunk that is sent can arrive, unless something broke.
LEMMA SendStreams ==
  ASSUME TypeOK, Carried, TypeOK', Carried', Lasting, NEW u \in Users, UserSends(u), NEW d \in Dirs
  PROVE  Streams(d)
<1>1. PICK c \in Dirs : c = OutDir(u)
  BY UserPlaces
<1>2. CASE d # c
  BY <1>1, <1>2, SendMoves, OtherRests
<1>3. CASE d = c
  <2>1. /\ UNCHANGED <<ended, reset, user>>
        /\ UNCHANGED <<got[d], Middle(d), Last(d), held[Giver(d)], held[Taker(d)]>>
        /\ sent'[d] = sent[d] + 1 /\ Source(d)' = Append(Source(d), sent[d] + 1)
    BY <1>1, <1>3, SendMoves
  <2>2. (Delivers(Giver(d))' <=> Delivers(Giver(d))) /\ (Delivers(Taker(d))' <=> Delivers(Taker(d)))
    BY <2>1, Steady, Places
  <2>3. WasSent(d)
    BY <1>1, <1>3, <2>1 DEF WasSent, UserSends, SenderOf, OutDir, Users, HasShut
  <2>4. Reachable(d) /\ Reachable(d)'
    BY Always, AlwaysAfter
  <2>5. CASE Delivers(Giver(d)) /\ Delivers(Taker(d))
    <3>1. Reach(d) = sent[d] /\ Reach(d)' = sent'[d]
      BY <2>2, <2>5 DEF Carried, InOrderBothWays, ChainInOrder, TakerInOrder, Reach, Dirs
    <3> QED BY <2>3, <3>1, AbstractSteps DEF Streams
  <2>6. CASE ~(Delivers(Giver(d)) /\ Delivers(Taker(d)))
    <3>1. Given(d)' = Given(d) /\ Taken(d)' = Taken(d)
      BY <2>1 DEF Given, Taken, One
    <3>2. Reach(d)' = Reach(d)
      BY <2>2, <2>6, <3>1 DEF Reach
    <3>3. sent[d] \in Nat
      BY Typed
    <3>4. Broken(d)'
      BY <2>1, <2>4, <3>2, <3>3, BrokenLasts DEF Reachable
    <3> QED BY <2>3, <3>2, <3>4, AbstractSteps DEF Streams
  <2> QED BY <2>5, <2>6
<1> QED BY <1>2, <1>3

\* What a user receives is the next chunk.
LEMMA ReceiveStreams ==
  ASSUME TypeOK, Carried, NEW u \in Users, UserReads(u), NEW d \in Dirs
  PROVE  Streams(d)
<1>1. PICK c \in Dirs : c = InDir(u)
  BY UserPlaces
<1>2. CASE d # c
  BY <1>1, <1>2, ReceiveMoves, OtherRests
<1>3. CASE d = c
  <2>1. /\ UNCHANGED <<ended, reset, user>>
        /\ UNCHANGED <<sent[d], Middle(d), Source(d), held[Giver(d)], held[Taker(d)]>>
        /\ Last(d) # <<>> /\ Last(d)' = Tail(Last(d)) /\ got'[d] = Append(got[d], Head(Last(d)))
    BY <1>1, <1>3, ReceiveMoves
  <2>2. (Delivers(Giver(d))' <=> Delivers(Giver(d))) /\ (Delivers(Taker(d))' <=> Delivers(Taker(d)))
    BY <2>1, Steady, Places
  <2>3. PICK q \in Seq(Chunks) : q = Last(d)
    BY Typed
  <2>4. PICK g \in Seq(Chunks) : g = got[d]
    BY Typed
  <2>5. Run(q, Len(g)) /\ q # <<>> /\ Len(g) \in Nat /\ Len(q) \in Nat
    BY <2>1, <2>3, <2>4, LenProperties DEF Carried, ChainInOrder, Dirs
  <2>6. Head(q) = Len(g) + 1 /\ Len(Tail(q)) = Len(q) - 1 /\ Len(q) >= 1
    BY <2>5, RunTail, LenProperties, EmptySeq
  <2>7. Len(Append(g, Head(q))) = Len(g) + 1
    BY <2>5, HeadTailProperties, AppendProperties
  <2>8. Received(d)
    BY <2>1, <2>3, <2>4, <2>6 DEF Received
  <2>9. Given(d)' = Given(d)
    <3>1. Given(d)' = Len(Append(g, Head(q))) + Len(Tail(q)) /\ Given(d) = Len(g) + Len(q)
      BY <2>1, <2>3, <2>4 DEF Given
    <3> QED BY <2>5, <2>6, <2>7, <3>1
  <2>10. Taken(d)' = Taken(d)
    BY <2>1, <2>9 DEF Taken, One
  <2>11. Reach(d)' = Reach(d)
    BY <2>1, <2>2, <2>9, <2>10 DEF Reach, One
  <2>12. Len(got[d]) < Reach(d)
    <3>1. Given(d) = Len(g) + Len(q) /\ Given(d) <= Reach(d) /\ Reach(d) \in Nat
      BY <2>3, <2>4, Counts DEF Given
    <3> QED BY <2>4, <2>5, <2>6, <3>1
  <2> QED BY <2>8, <2>11, <2>12, AbstractSteps DEF Streams
<1> QED BY <1>2, <1>3

\* Every step of the tunnel is one of each stream.
LEMMA BothStream ==
  ASSUME TypeOK, Carried, TypeOK', Carried', Lasting, [Next]_vars, NEW d \in Dirs
  PROVE  Streams(d)
<1>1. ASSUME NEW t \in Tasks, TaskStep(t) PROVE Streams(d)
  <2>1. CASE Read(t)
    BY <2>1, ReadStreams
  <2>2. CASE Write(t)
    BY <2>2, WriteStreams
  <2>3. CASE WriteVanishes(t)
    BY <2>3, VanishUnmoved, LessCanArrive
  <2>4. CASE ReadEnds(t) \/ WriteFails(t) \/ IdleEnds(t)
    BY <2>4, EndsLoseNothing, EndUnmoved, LessCanArrive DEF NothingLost
  <2> QED BY <1>1, <2>1, <2>2, <2>3, <2>4 DEF TaskStep
<1>2. CASE ClientStep \/ BackendAccepts \/ BackendRefuses \/ UNCHANGED vars
  <2>1. CASE UpgradeTimeout \/ BackendRefuses
    BY <2>1, DialEndsLoseNothing, EndUnmoved, LessCanArrive DEF NothingLost
  <2>2. CASE FirstReadEmpty \/ LegacyStop \/ LegacyIdle \/ BackendAccepts \/ UNCHANGED vars
    <3>1. UNCHANGED <<sent, got, pipe, held>>
      BY <2>2 DEF FirstReadEmpty, LegacyStop, LegacyIdle, BackendAccepts, vars
    <3> QED BY <3>1, QuietUnmoved, LessCanArrive
  <2> QED BY <1>2, <2>1, <2>2 DEF ClientStep
<1>3. ASSUME NEW u \in Users, UserStep(u) \/ UserReads(u) PROVE Streams(d)
  <2>1. CASE UserSends(u)
    BY <2>1, SendStreams
  <2>2. CASE UserReads(u)
    BY <2>2, ReceiveStreams
  <2>3. CASE UserShuts(u)
    <3>1. UNCHANGED <<sent, got, pipe, held>>
      BY <2>3 DEF UserShuts
    <3> QED BY <3>1, QuietUnmoved, LessCanArrive
  <2>4. CASE UserCloses(u)
    BY <2>4, CloseUnmoved, LessCanArrive
  <2> QED BY <1>3, <2>1, <2>2, <2>3, <2>4 DEF UserStep
<1> QED BY <1>1, <1>2, <1>3 DEF Next, Finished

\* What ended stays ended, and for a reason.
LEMMA EndsLast ==
  ASSUME TypeOK, Carried, TypeOK', Carried', Lasting
  PROVE  Abstract!Ends
<1>1. \A d \in Dirs : SenderOf(d) \in Users /\ Side(Giver(d)) \in Sides
  BY Places DEF SenderOf, Users, Dirs
<1>2. ASSUME NEW d \in Dirs, HasShut(SenderOf(d)) PROVE HasShut(SenderOf(d))'
  BY <1>1, <1>2 DEF HasShut, Lasting
<1>3. ASSUME NEW d \in Dirs, Over(Side(Giver(d))) PROVE Over(Side(Giver(d)))'
  BY <1>3 DEF Over, Lasting
<1>4. ASSUME NEW d \in Dirs, Over(Side(Giver(d)))', ~Over(Side(Giver(d))), ~Broken(d)'
      PROVE  HasShut(SenderOf(d))
  <2>1. HasShut(SenderOf(d))'
    BY <1>4, AlwaysAfter DEF Reachable
  <2>2. UNCHANGED user
    BY <1>4 DEF Lasting, Over
  <2> QED BY <1>1, <2>1, <2>2 DEF HasShut
<1>5. \A d \in Dirs : Broken(d) => Broken(d)'
  BY BrokenLasts
<1> QED BY <1>2, <1>3, <1>4, <1>5 DEF Abstract!Ends

LEMMA StreamsInit == Init => Abstract!Init
<1> SUFFICES ASSUME Init PROVE Abstract!Init
  OBVIOUS
<1>1. TypeOK /\ Carried
  BY RelayInit, CarriedInit
<1>2. PICK waiter \in BOOLEAN :
       /\ sent = [d \in Dirs |-> IF d = "up" /\ waiter THEN 1 ELSE 0]
       /\ ended = IF waiter THEN {} ELSE TasksOf["server"]
       /\ user = [u \in Users |-> IF u = "public" /\ waiter THEN "open" ELSE "away"]
  BY DEF Init
<1>3. /\ got = [d \in Dirs |-> <<>>] /\ reset = {} /\ timed = {}
      /\ phase = [side \in Sides |-> IF side = "server" THEN "first" ELSE "dial"]
  BY DEF Init
<1>4. ~Over("client")
  BY <1>2 DEF Over, TasksOf
<1>5. ASSUME NEW d \in Dirs PROVE Reach(d) = sent[d]
  <2>1. Intact(d)
    BY <1>3, <1>4 DEF Intact, CutShort, Refused, Declined
  <2>2. CASE waiter
    <3>1. ~Broken(d)
      BY <1>2, <1>3, <1>4, <2>2 DEF Broken, CutShort, Dropped, Refused, Declined, ReceiverOf, Users
    <3> QED BY <1>1, <3>1, WholeReach
  <2>3. CASE ~waiter
    <3>1. sent[d] = 0
      BY <1>2, <2>3
    <3>2. sent[d] = Taken(d) + One(held[Taker(d)]) + Len(Source(d))
      BY <1>1, <2>1 DEF Carried, AllThere, TakerInOrder
    <3>3. /\ Given(d) \in Nat /\ Taken(d) \in Nat /\ Given(d) <= Taken(d)
          /\ One(held[Taker(d)]) \in Nat /\ Len(Source(d)) \in Nat
      BY <1>1, Counts DEF One
    <3>4. Taken(d) = 0 /\ Given(d) = 0 /\ Taken(d) + One(held[Taker(d)]) + Len(Source(d)) = 0
      BY <3>1, <3>2, <3>3
    <3> QED BY <3>1, <3>4 DEF Reach
  <2> QED BY <2>2, <2>3
<1>6. sent \in [Dirs -> 0 .. 1] /\ sent = [d \in Dirs |-> sent[d]]
  BY <1>2
<1> QED BY <1>3, <1>5, <1>6 DEF Abstract!Init

\* A session is two streams, as if the users were connected: until something breaks a
\* direction, the other end receives the next chunk each time, all that was sent can
\* still arrive, and its end of file is the sender's.
THEOREM TunnelIsStreams == Spec => ImplementsStreams
<1>1. TypeOK /\ Carried /\ TypeOK' /\ Carried' /\ [Next]_vars => Abstract!Next
  <2> SUFFICES ASSUME TypeOK, Carried, TypeOK', Carried', [Next]_vars PROVE Abstract!Next
    OBVIOUS
  <2>1. Lasting
    BY TaskLasting, OtherLasting, UserLasting DEF Next, Finished, Carried
  <2>2. \A d \in Dirs : Streams(d)
    BY <2>1, BothStream
  <2> QED BY <2>1, <2>2, EndsLast DEF Abstract!Next, Streams
<1> QED BY <1>1, StreamsInit, CarriedAlways, PTL DEF Spec, ImplementsStreams, Abstract!Spec
=============================================================================
