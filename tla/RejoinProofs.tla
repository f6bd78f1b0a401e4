---------------------------- MODULE RejoinProofs ----------------------------
(***************************************************************************)
(* What holds of a client that loses its server and comes back, for any    *)
(* interval, cap, limit and timeouts, and any number of faults and users.  *)
(***************************************************************************)
EXTENDS Rejoin, WellFoundedInduction, TLAPS

USE ReconnectAssumption, RejoinAssumption
USE DEF vars, clientVars, serverVars, ReconnectAssumption, RejoinAssumption

-----------------------------------------------------------------------------
(* Types.  The backoff is set back while waited stays, so waited must be 0 *)
(* outside the wait; and a session begins with its REGISTER unanswered.    *)

WaitedOnlyWaiting == loop # "wait" => waited = 0
AnswersSession == answer # "none" => loop = "serving"
Typed == TypeOK /\ WaitedOnlyWaiting /\ AnswersSession

\* The flags apart from the rest.
Flags == running \in BOOLEAN /\ pending \in BOOLEAN
Values ==
  /\ loop \in {"check", "connect", "serving", "decide", "wait", "exited"}
  /\ reconnectCount \in Nat /\ backoffTime \in Nat
  /\ waited \in 0 .. backoffTime
  /\ lines \in Nat /\ limit \in Nat /\ attempts \in 0 .. CountBound
  /\ answer \in {"none", "bound", "refused"}
  /\ port \in {"free", "client", "ghost"}
  /\ stay \in 0 .. Hold
  /\ orphans \in Nat
  /\ faults \in Nat /\ users \in Nat /\ quiet \in Nat
  /\ port = "client" <=> loop = "serving" /\ answer = "bound"
  /\ WaitedOnlyWaiting /\ AnswersSession

LEMMA TypedParts == Typed <=> Flags /\ Values
  BY Zenon DEF Typed, TypeOK, ClientTypeOK, Flags, Values

LEMMA InitTyped == Init => Typed
<1>1. Init => Flags
  BY Zenon DEF Init, ClientInit, Flags
<1>2. Init => Values
  BY DEF Init, ClientInit, Values, WaitedOnlyWaiting, AnswersSession
<1> QED BY <1>1, <1>2, TypedParts

LEMMA FlagsKept == Flags /\ [Next]_vars => Flags'
<1> SUFFICES ASSUME Flags, [Next]_vars PROVE Flags'
  OBVIOUS
<1> USE DEF Flags
<1>1. CASE Loop
  BY <1>1, Zenon DEF Loop, LoopStep, Check, Decide, ReadsLine, WaitEnds, Registers
<1>2. CASE (Signal \/ LineArrives) /\ UNCHANGED serverVars
  BY <1>2, Zenon DEF Signal, LineArrives
<1>3. CASE Second \/ SecondElsewhere
  BY <1>3, Zenon DEF Second, WaitSecond, SecondElsewhere
<1>4. CASE Refused \/ Unreachable \/ Broken \/ ServerRestarts
  BY <1>4, Zenon DEF Refused, Unreachable, Broken, ServerRestarts, SessionFails, ConnectFails,
                     Fails, EndSession
<1>5. CASE Leaves
  BY <1>5, Zenon DEF Leaves, ReadTimeout, EndSession
<1>6. CASE ServerStep \/ UserComes \/ UserDone
  BY <1>6, Zenon DEF ServerStep, Bind, Refuse, ReadOrphan, FreePort, UserComes, UserDone
<1>7. CASE Finished \/ UNCHANGED vars
  BY <1>7, Zenon DEF Finished
<1> QED BY <1>1, <1>2, <1>3, <1>4, <1>5, <1>6, <1>7 DEF Next

LEMMA LoopTyped ==
  ASSUME Values, Loop \/ ((Signal \/ LineArrives) /\ UNCHANGED serverVars)
  PROVE  Values'
<1> USE DEF Values, WaitedOnlyWaiting, AnswersSession
<1>1. CASE LoopStep /\ UNCHANGED serverVars
  BY <1>1 DEF LoopStep, Check, Lesser, Decide, ReadsLine, WaitEnds
<1>2. CASE Registers /\ UNCHANGED serverVars
  BY <1>2 DEF Registers
<1>3. CASE (Signal \/ LineArrives) /\ UNCHANGED serverVars
  BY <1>3 DEF Signal, LineArrives
<1> QED BY <1>1, <1>2, <1>3 DEF Loop

\* An attempt that fails leaves the loop between two attempts.
LEMMA FailsTyped ==
  ASSUME Values, Fails, loop # "wait"
  PROVE  /\ loop' = "decide" /\ reconnectCount' \in Nat /\ backoffTime' \in Nat
         /\ lines' = 0 /\ waited' = 0 /\ limit' = limit /\ attempts' = attempts
  BY DEF Values, WaitedOnlyWaiting, AnswersSession, Fails, ErrorBackoff, CountError,
         EndSession, Lesser

LEMMA EndsTyped ==
  ASSUME Values, Refused \/ Unreachable \/ Broken \/ ServerRestarts \/ Leaves
  PROVE  Values'
<1>1. CASE Refused
  BY <1>1, FailsTyped DEF Values, WaitedOnlyWaiting, AnswersSession, Refused, SessionFails
<1>2. CASE Unreachable
  BY <1>2, FailsTyped DEF Values, WaitedOnlyWaiting, AnswersSession, Unreachable, ConnectFails, Fault
<1>3. CASE Broken
  BY <1>3, FailsTyped DEF Values, WaitedOnlyWaiting, AnswersSession, Broken, SessionFails, Fault, LeaveBehind
<1>4. CASE ServerRestarts /\ SessionFails
  BY <1>4, FailsTyped DEF Values, WaitedOnlyWaiting, AnswersSession, ServerRestarts, SessionFails, Fault
<1>5. CASE ServerRestarts /\ ~SessionFails
  BY <1>5 DEF Values, WaitedOnlyWaiting, AnswersSession, ServerRestarts, Fault
<1>6. CASE Leaves
  BY <1>6 DEF Values, WaitedOnlyWaiting, AnswersSession, Leaves, ReadTimeout,
              EndSession, LeaveBehind
<1> QED BY <1>1, <1>2, <1>3, <1>4, <1>5, <1>6

LEMMA ServerTyped ==
  ASSUME Values, ServerStep \/ UserComes \/ UserDone
  PROVE  Values'
<1> USE DEF Values, WaitedOnlyWaiting, AnswersSession
<1>1. CASE Bind \/ Refuse
  BY <1>1 DEF Bind, Refuse
<1>2. CASE ReadOrphan
  BY <1>2 DEF ReadOrphan
<1>3. CASE FreePort
  BY <1>3 DEF FreePort, SeeDisconnect
<1>4. CASE UserComes \/ UserDone
  BY <1>4 DEF UserComes, UserDone
<1> QED BY <1>1, <1>2, <1>3, <1>4 DEF ServerStep

LEMMA ClockTyped ==
  ASSUME Values, Second \/ SecondElsewhere
  PROVE  Values'
<1> USE DEF Values, WaitedOnlyWaiting, AnswersSession, ClockRuns, Lesser
<1>1. CASE Second
  BY <1>1 DEF Second, WaitSecond
<1>2. CASE SecondElsewhere
  BY <1>2 DEF SecondElsewhere
<1> QED BY <1>1, <1>2

LEMMA NextTyped == Typed /\ [Next]_vars => Typed'
<1> SUFFICES ASSUME Typed, [Next]_vars PROVE Typed'
  OBVIOUS
<1>1. Flags /\ Values
  BY TypedParts
<1>2. Flags'
  BY <1>1, FlagsKept
<1>3. CASE Finished \/ UNCHANGED vars
  <2>1. Values'
    BY <1>1, <1>3 DEF Finished, Values, WaitedOnlyWaiting, AnswersSession
  <2> QED BY <1>2, <2>1, Zenon DEF Typed, TypeOK, ClientTypeOK, Flags, Values
<1>4. CASE ~(Finished \/ UNCHANGED vars)
  <2>1. Values'
    BY <1>1, <1>4, LoopTyped, EndsTyped, ServerTyped, ClockTyped DEF Next
  <2> QED BY <1>2, <2>1, Zenon DEF Typed, TypeOK, ClientTypeOK, Flags, Values
<1> QED BY <1>3, <1>4

\* Every variable of client and server keeps its type, and the server listens for
\* the client exactly while its session was answered.
THEOREM RejoinTypeCorrect == Spec => []TypeOK
<1>1. Spec => []Typed
  BY InitTyped, NextTyped, PTL DEF Spec
<1>2. Typed => TypeOK
  BY DEF Typed
<1> QED BY <1>1, <1>2, PTL

-----------------------------------------------------------------------------
(* The limit on attempts.  While the client runs, every attempt but the    *)
(* one under way was counted as an error, up to the bound on both counts;  *)
(* so the limit on the errors is one on the attempts.                      *)

Underway == IF loop \in {"connect", "serving"} THEN 1 ELSE 0
AttemptsCounted == running => attempts = Lesser(reconnectCount + Underway, CountBound)
WithinLimit ==
  limit > 0 =>
    /\ attempts <= limit
    /\ running => reconnectCount + Underway <= limit
ExitsAtLimit == GaveUp => limit > 0 /\ reconnectCount >= limit

Limited ==
  /\ limit \in Limits /\ reconnectCount <= CountBound
  /\ AttemptsCounted /\ WithinLimit /\ ExitsAtLimit

\* The head of the loop, where an attempt begins or the client gives up.
LEMMA CheckLimited ==
  ASSUME Typed, Limited, Check
  PROVE  Limited'
<1> USE DEF Typed, TypeOK, ClientTypeOK, Limited, AttemptsCounted, WithinLimit, ExitsAtLimit,
            GaveUp, Underway, Lesser, Check, LimitReached
<1>1. CASE ~running \/ LimitReached
  BY <1>1
<1>2. CASE ~(~running \/ LimitReached)
  <2>1. /\ loop' = "connect" /\ running /\ attempts' = Lesser(attempts + 1, CountBound)
        /\ attempts = Lesser(reconnectCount, CountBound)
        /\ UNCHANGED <<running, reconnectCount, limit>>
    BY <1>2
  <2>2. limit > 0 => reconnectCount < limit /\ limit < CountBound
    BY <1>2
  <2> QED BY <2>1, <2>2
<1> QED BY <1>1, <1>2

\* An attempt that fails is counted.
LEMMA FailsLimited ==
  ASSUME Typed, Limited, Fails, loop \in {"connect", "serving"}
  PROVE  Limited'
<1> USE DEF Typed, TypeOK, ClientTypeOK, Limited, AttemptsCounted, WithinLimit, ExitsAtLimit,
            GaveUp, Underway, Lesser
<1>1. /\ loop' = "decide" /\ reconnectCount' = Lesser(reconnectCount + 1, CountBound)
      /\ UNCHANGED <<running, limit, attempts>>
  BY DEF Fails, ErrorBackoff, CountError
<1> QED BY <1>1

\* The rest of the loop counts nothing; only a client that is stopping counts anew.
LEMMA LoopLimited ==
  ASSUME Typed, Limited,
         Decide \/ ReadsLine \/ WaitEnds \/ Registers \/ Signal \/ LineArrives \/ ReadTimeout
  PROVE  Limited'
<1> USE DEF Typed, TypeOK, ClientTypeOK, Limited, AttemptsCounted, WithinLimit, ExitsAtLimit,
            GaveUp, Underway
<1>1. CASE Decide \/ WaitEnds
  BY <1>1 DEF Decide, WaitEnds
<1>2. CASE ReadsLine \/ LineArrives \/ Signal
  BY <1>2 DEF ReadsLine, LineArrives, Signal
<1>3. CASE Registers
  BY <1>3 DEF Registers
<1>4. CASE ReadTimeout
  BY <1>4 DEF ReadTimeout
<1> QED BY <1>1, <1>2, <1>3, <1>4

LEMMA NextLimited == Typed /\ Limited /\ [Next]_vars => Limited'
<1> SUFFICES ASSUME Typed, Limited, [Next]_vars PROVE Limited'
  OBVIOUS
<1>1. CASE Loop \/ ((Signal \/ LineArrives) /\ UNCHANGED serverVars)
  BY <1>1, CheckLimited, LoopLimited DEF Loop, LoopStep
<1>2. CASE Refused \/ Unreachable \/ Broken \/ ServerRestarts
  <2>1. (Fails /\ loop \in {"connect", "serving"}) \/ UNCHANGED clientVars
    BY <1>2 DEF Refused, Unreachable, Broken, ServerRestarts, SessionFails, ConnectFails
  <2>2. UNCHANGED clientVars => Limited'
    BY DEF Limited, AttemptsCounted, WithinLimit, ExitsAtLimit, GaveUp, Underway
  <2> QED BY <2>1, <2>2, FailsLimited
<1>3. CASE Leaves
  BY <1>3, LoopLimited DEF Leaves
<1>4. CASE Second \/ SecondElsewhere \/ ServerStep \/ UserComes \/ UserDone
             \/ Finished \/ UNCHANGED vars
  <2>1. UNCHANGED <<loop, running, reconnectCount, limit, attempts>>
    BY <1>4 DEF Second, WaitSecond, SecondElsewhere, ServerStep, Bind, Refuse, ReadOrphan,
                FreePort, UserComes, UserDone, Finished
  <2> QED BY <2>1 DEF Limited, AttemptsCounted, WithinLimit, ExitsAtLimit, GaveUp, Underway
<1> QED BY <1>1, <1>2, <1>3, <1>4 DEF Next

\* With --max-reconnect n a client that nobody stops makes n attempts, no more, and gives
\* up no earlier; without a limit it never does.  For every n, whatever its sessions met.
THEOREM RejoinGivesUpAtLimit == Spec => []GivesUpAtLimit
<1>1. Init => Limited
  BY DEF Init, ClientInit, Limited, AttemptsCounted, WithinLimit, ExitsAtLimit, GaveUp,
         Underway, Lesser
<1>2. Typed /\ Limited => GivesUpAtLimit
  BY DEF Typed, TypeOK, ClientTypeOK, Limited, AttemptsCounted, WithinLimit, ExitsAtLimit,
         GaveUp, Underway, Lesser, GivesUpAtLimit
<1> QED BY <1>1, <1>2, InitTyped, NextTyped, NextLimited, PTL DEF Spec

-----------------------------------------------------------------------------
(* How long a client waits for its port.  While a former handler of the    *)
(* client's holds the port, what has passed and what that handler may      *)
(* still take make up no more than Hold; when the port is free, one wait   *)
(* at most began before.  A REGISTER left over from an attempt that failed *)
(* is read before any time passes.                                         *)

BackoffCapped == backoffTime <= BackoffCap

HeldBriefly == port # "free" => quiet + stay <= Hold
FreeForOneWait == loop = "wait" /\ port = "free" => quiet <= Hold + waited
FailsEarly == loop = "decide" \/ answer = "refused" => quiet <= Hold
OrphanReadAtOnce == orphans > 0 => quiet = 0
FreeIsIdle == port = "free" => stay = 0

Recovering ==
  /\ BackoffCapped
  /\ quiet <= Hold + BackoffCap
  /\ FreeIsIdle
  /\ running => HeldBriefly /\ FreeForOneWait /\ FailsEarly /\ OrphanReadAtOnce

LEMMA LoopRecovers ==
  ASSUME Typed, Recovering, ReconnectInterval <= BackoffCap,
         Loop \/ ((Signal \/ LineArrives) /\ UNCHANGED serverVars)
  PROVE  Recovering'
<1> USE DEF Typed, AnswersSession, TypeOK, ClientTypeOK, Recovering, BackoffCapped, HeldBriefly,
            FreeForOneWait, FailsEarly, OrphanReadAtOnce, FreeIsIdle
<1>1. CASE LoopStep /\ UNCHANGED serverVars
  BY <1>1 DEF LoopStep, Check, Decide, ReadsLine, WaitEnds
<1>2. CASE Registers /\ UNCHANGED serverVars
  BY <1>2 DEF Registers
<1>3. CASE (Signal \/ LineArrives) /\ UNCHANGED serverVars
  BY <1>3 DEF Signal, LineArrives
<1> QED BY <1>1, <1>2, <1>3 DEF Loop

LEMMA FailsCapped ==
  ASSUME Typed, BackoffCapped, Fails
  PROVE  BackoffCapped' /\ loop' = "decide" /\ UNCHANGED running
  BY DEF Typed, TypeOK, ClientTypeOK, BackoffCapped, Fails, ErrorBackoff, Lesser

LEMMA EndsRecovers ==
  ASSUME Typed, Recovering, ReconnectInterval <= BackoffCap,
         Refused \/ Unreachable \/ Broken \/ ServerRestarts \/ Leaves
  PROVE  Recovering'
<1> USE DEF Typed, TypeOK, Recovering, HeldBriefly, FreeForOneWait, FailsEarly,
            OrphanReadAtOnce, FreeIsIdle
<1>1. CASE Refused
  BY <1>1, FailsCapped DEF Refused, SessionFails
<1>2. CASE Unreachable
  BY <1>2, FailsCapped DEF Unreachable, ConnectFails, Fault
<1>3. CASE Broken
  BY <1>3, FailsCapped DEF Broken, SessionFails, Fault, LeaveBehind
<1>4. CASE ServerRestarts /\ SessionFails
  BY <1>4, FailsCapped DEF ServerRestarts, SessionFails, Fault
<1>5. CASE ServerRestarts /\ ~SessionFails
  BY <1>5 DEF ClientTypeOK, ServerRestarts, Fault, BackoffCapped
<1>6. CASE Leaves
  BY <1>6 DEF ClientTypeOK, Leaves, ReadTimeout, EndSession, LeaveBehind, BackoffCapped
<1> QED BY <1>1, <1>2, <1>3, <1>4, <1>5, <1>6

LEMMA ServerRecovers ==
  ASSUME Typed, Recovering, ServerStep \/ UserComes \/ UserDone
  PROVE  Recovering'
<1> USE DEF Typed, AnswersSession, TypeOK, ClientTypeOK, Recovering, BackoffCapped, HeldBriefly,
            FreeForOneWait, FailsEarly, OrphanReadAtOnce, FreeIsIdle
<1>1. CASE Bind \/ Refuse
  BY <1>1 DEF Bind, Refuse
<1>2. CASE ReadOrphan
  BY <1>2 DEF ReadOrphan
<1>3. CASE FreePort
  BY <1>3 DEF FreePort, SeeDisconnect
<1>4. CASE UserComes \/ UserDone
  BY <1>4 DEF UserComes, UserDone
<1> QED BY <1>1, <1>2, <1>3, <1>4 DEF ServerStep

\* A second of the wait: the server is idle, so a handler that holds the port is
\* busy with a user, and comes a second closer to its select!.
LEMMA ClockRecovers ==
  ASSUME Typed, Recovering, Second \/ SecondElsewhere
  PROVE  Recovering'
<1> USE DEF Typed, AnswersSession, TypeOK, ClientTypeOK, Recovering, BackoffCapped, HeldBriefly,
            FreeForOneWait, FailsEarly, OrphanReadAtOnce, FreeIsIdle, ClockRuns,
            ServerIdle, SeeDisconnect
<1>1. CASE Second
  <2>1. running /\ loop = "wait" /\ waited < backoffTime /\ waited' = waited + 1
    BY <1>1 DEF Second, WaitSecond
  <2>2. port # "client" /\ orphans = 0
    BY <1>1, <2>1 DEF Second
  <2>3. quiet' <= quiet + 1 /\ quiet' \in Nat
    BY <1>1 DEF Second, Lesser
  <2>4. CASE port = "free"
    BY <1>1, <2>1, <2>2, <2>3, <2>4 DEF Second, WaitSecond
  <2>5. CASE port = "ghost"
    <3>1. stay > 0 /\ stay' = stay - 1
      BY <1>1, <2>5 DEF Second
    <3> QED
      BY <1>1, <2>1, <2>2, <2>3, <2>5, <3>1 DEF Second, WaitSecond
  <2> QED BY <2>2, <2>4, <2>5
<1>2. CASE SecondElsewhere
  BY <1>2 DEF SecondElsewhere
<1> QED BY <1>1, <1>2

LEMMA NextRecovers ==
  ASSUME ReconnectInterval <= BackoffCap, Typed, Recovering, [Next]_vars
  PROVE  Recovering'
<1>1. CASE Finished \/ UNCHANGED vars
  BY <1>1 DEF Finished, Recovering, BackoffCapped, HeldBriefly, FreeForOneWait, FailsEarly,
              OrphanReadAtOnce, FreeIsIdle
<1> QED BY <1>1, LoopRecovers, EndsRecovers, ServerRecovers, ClockRecovers DEF Next

\* Once nothing goes wrong any more, the time a client spends waiting for its port is
\* at most the longest one user can hold its old handler and the longest backoff.
THEOREM Recovers == Spec => []RecoversInTime
<1> DEFINE Inv == Typed /\ (ReconnectInterval <= BackoffCap => Recovering)
<1>1. Init => Inv
  BY InitTyped DEF Init, ClientInit, Recovering, BackoffCapped, HeldBriefly,
     FreeForOneWait, FailsEarly, OrphanReadAtOnce, FreeIsIdle
<1>2. Inv /\ [Next]_vars => Inv'
  BY NextTyped, NextRecovers
<1>3. Inv => RecoversInTime
  BY DEF Recovering, RecoversInTime
<1> QED BY <1>1, <1>2, <1>3, PTL DEF Spec

-----------------------------------------------------------------------------
(* The powers of two.  A recursive function is what its definition says    *)
(* only if there is such a function: it is put together from the doublings *)
(* up to each n, of which a least n without any would be the successor of  *)
(* one that has some.                                                      *)

LEMMA LeastExists ==
  ASSUME NEW B \in SUBSET Nat, B # {}
  PROVE  \E m \in B : \A n \in B : m <= n
<1> DEFINE R == OpToRel(<, Nat)
<1>1. PICK m \in B : \A n \in B : <<n, m>> \notin R
  <2> HIDE DEF R
  <2>1. IsWellFoundedOn(R, Nat)
    BY NatLessThanWellFounded DEF R
  <2> QED BY <2>1, WFMin
<1>2. \A n \in B : ~(n < m)
  BY <1>1 DEF OpToRel
<1> QED BY <1>2

\* The doublings up to n, as functions on 0 .. n: there is one ...
Doublings(n) == {f \in [0 .. n -> Nat] :
                   f[0] = 1 /\ \A i \in 1 .. n : f[i] = 2 * f[i - 1]}

LEMMA DoublingsExist == \A n \in Nat : Doublings(n) # {}
<1> SUFFICES ASSUME NEW k \in Nat, Doublings(k) = {} PROVE FALSE
  OBVIOUS
<1> DEFINE B == {n \in Nat : Doublings(n) = {}}
<1>1. PICK m \in B : \A n \in B : m <= n
  <2>1. B \in SUBSET Nat /\ B # {}
    OBVIOUS
  <2> HIDE DEF B
  <2> QED BY <2>1, LeastExists
<1>2. CASE m = 0
  <2>1. [i \in 0 .. 0 |-> 1] \in Doublings(0)
    BY DEF Doublings
  <2> QED BY <1>1, <1>2, <2>1
<1>3. CASE m # 0
  <2>1. m - 1 \in Nat /\ m - 1 \notin B
    BY <1>1, <1>3
  <2>2. PICK f \in Doublings(m - 1) : TRUE
    BY <2>1
  <2> DEFINE g == [i \in 0 .. m |-> IF i = m THEN 2 * f[m - 1] ELSE f[i]]
  <2>3. /\ f \in [0 .. (m - 1) -> Nat] /\ f[0] = 1
        /\ \A i \in 1 .. (m - 1) : f[i] = 2 * f[i - 1]
    BY <2>2 DEF Doublings
  <2>4. g \in [0 .. m -> Nat] /\ g[0] = 1
    BY <1>1, <1>3, <2>1, <2>3
  <2>5. ASSUME NEW i \in 1 .. m PROVE g[i] = 2 * g[i - 1]
    BY <1>1, <1>3, <2>1, <2>3
  <2>6. g \in Doublings(m)
    BY <2>4, <2>5 DEF Doublings
  <2> QED BY <1>1, <2>6
<1> QED BY <1>2, <1>3

\* ... and no two differ.
LEMMA DoublingsAgree ==
  ASSUME NEW n \in Nat, NEW m \in Nat, n <= m,
         NEW f \in Doublings(n), NEW g \in Doublings(m)
  PROVE  \A i \in 0 .. n : f[i] = g[i]
<1> SUFFICES ASSUME NEW k \in 0 .. n, f[k] # g[k] PROVE FALSE
  OBVIOUS
<1> DEFINE B == {i \in 0 .. n : f[i] # g[i]}
<1>1. PICK i \in B : \A j \in B : i <= j
  <2>1. B \in SUBSET Nat /\ B # {}
    OBVIOUS
  <2> HIDE DEF B
  <2> QED BY <2>1, LeastExists
<1>2. f[0] = g[0]
  BY DEF Doublings
<1>3. i # 0 /\ i - 1 \in 0 .. n /\ i - 1 \notin B
  BY <1>1, <1>2
<1>4. f[i] = 2 * f[i - 1] /\ g[i] = 2 * g[i - 1]
  BY <1>1, <1>3 DEF Doublings
<1> QED BY <1>1, <1>3, <1>4

LEMMA TwoToUnfolds ==
  \A n \in Nat : TwoTo[n] \in Nat /\ TwoTo[n] = IF n = 0 THEN 1 ELSE 2 * TwoTo[n - 1]
<1> DEFINE part(n) == CHOOSE f \in Doublings(n) : TRUE
           F == [n \in Nat |-> part(n)[n]]
<1>1. \A n \in Nat : part(n) \in Doublings(n)
  BY DoublingsExist
<1>2. \A n \in Nat : F[n] = part(n)[n] /\ F[n] \in Nat
  BY <1>1 DEF Doublings
<1>3. F[0] = 1
  BY <1>1 DEF Doublings
<1>4. ASSUME NEW n \in Nat, n # 0 PROVE F[n] = 2 * F[n - 1]
  <2>1. n - 1 \in Nat /\ n - 1 <= n /\ n - 1 \in 0 .. (n - 1)
    BY <1>4
  <2>2. part(n)[n] = 2 * part(n)[n - 1]
    <3>1. n \in 1 .. n
      BY <1>4
    <3> HIDE DEF part
    <3> QED BY <3>1, <1>1 DEF Doublings
  <2>3. part(n - 1)[n - 1] = part(n)[n - 1]
    <3> HIDE DEF part
    <3> QED BY <2>1, <1>1, DoublingsAgree
  <2>4. F[n] = part(n)[n] /\ F[n - 1] = part(n - 1)[n - 1]
    BY <2>1, <1>2
  <2> HIDE DEF F, part
  <2> QED BY <2>2, <2>3, <2>4
<1> HIDE DEF F
<1>5. F = [n \in Nat |-> IF n = 0 THEN 1 ELSE 2 * F[n - 1]]
  <2>1. F = [n \in Nat |-> F[n]]
    BY DEF F
  <2>2. \A n \in Nat : F[n] = IF n = 0 THEN 1 ELSE 2 * F[n - 1]
    BY <1>3, <1>4
  <2> QED BY <2>1, <2>2, Zenon
<1>6. TwoTo = [n \in Nat |-> IF n = 0 THEN 1 ELSE 2 * TwoTo[n - 1]]
  BY <1>5, Zenon DEF TwoTo
<1>7. \A n \in Nat : TwoTo[n] = IF n = 0 THEN 1 ELSE 2 * TwoTo[n - 1]
  <2> SUFFICES ASSUME NEW n \in Nat PROVE TwoTo[n] = IF n = 0 THEN 1 ELSE 2 * TwoTo[n - 1]
    OBVIOUS
  <2> DEFINE R(i) == IF i = 0 THEN 1 ELSE 2 * TwoTo[i - 1]
  <2>1. TwoTo = [i \in Nat |-> R(i)]
    BY <1>6
  <2> HIDE DEF R
  <2>2. TwoTo[n] = R(n)
    BY <2>1, Zenon
  <2> QED BY <2>2 DEF R
<1>8. ASSUME NEW n \in Nat, TwoTo[n] \notin Nat PROVE FALSE
  <2> DEFINE B == {i \in Nat : TwoTo[i] \notin Nat}
  <2>1. PICK i \in B : \A j \in B : i <= j
    <3>1. B \in SUBSET Nat /\ B # {}
      BY <1>8
    <3> HIDE DEF B
    <3> QED BY <3>1, LeastExists
  <2>2. TwoTo[i] = IF i = 0 THEN 1 ELSE 2 * TwoTo[i - 1]
    BY <1>7
  <2>3. i # 0
    BY <2>1, <2>2
  <2>4. i - 1 \in Nat /\ TwoTo[i - 1] \in Nat
    BY <2>1, <2>3
  <2> QED BY <2>1, <2>2, <2>3, <2>4
<1> QED BY <1>7, <1>8

-----------------------------------------------------------------------------
(* The wait as a function of the errors in a row.                          *)

LEMMA DoubleOnce ==
  ASSUME NEW n \in Nat
  PROVE  /\ TwoTo[0] = 1 /\ TwoTo[n] \in Nat
         /\ ReconnectInterval * TwoTo[n] \in Nat
         /\ ReconnectInterval * TwoTo[n + 1] = 2 * (ReconnectInterval * TwoTo[n])
<1>1. TwoTo[0] = 1
  BY TwoToUnfolds
<1>2. TwoTo[n] \in Nat
  BY TwoToUnfolds
<1>3. TwoTo[n + 1] = 2 * TwoTo[n]
  BY TwoToUnfolds
<1>4. \A a, b \in Nat : a * b \in Nat /\ a * (2 * b) = 2 * (a * b)
  OBVIOUS
<1> QED BY <1>1, <1>2, <1>3, <1>4

\* Doubling a wait that has met the cap gives the cap, as doubling without one does.
LEMMA CapOnce ==
  ASSUME NEW n \in Nat, NEW cap \in Nat
  PROVE  Lesser(Lesser(n, cap) * 2, cap) = Lesser(2 * n, cap)
  BY DEF Lesser

LEMMA FailsCounts ==
  ASSUME Typed, BackoffOfCount, Fails PROVE BackoffOfCount'
<1> SUFFICES ASSUME ReconnectInterval <= BackoffCap, reconnectCount' < CountBound
             PROVE  backoffTime' = Lesser(ReconnectInterval * TwoTo[reconnectCount' - 1], BackoffCap)
                    /\ reconnectCount' # 0
  BY DEF BackoffOfCount
<1>1. reconnectCount \in Nat /\ backoffTime \in Nat
  BY DEF Typed, TypeOK, ClientTypeOK
<1>2. reconnectCount < CountBound /\ reconnectCount' = reconnectCount + 1
  BY <1>1 DEF Fails, ErrorBackoff, CountError, Lesser
<1>3. CASE reconnectCount = 0
  <2>1. backoffTime' = backoffTime
    BY <1>2, <1>3 DEF Fails, ErrorBackoff
  <2>2. backoffTime = Lesser(ReconnectInterval * TwoTo[0], BackoffCap)
    BY <1>2, <1>3 DEF BackoffOfCount
  <2> QED BY <1>2, <1>3, <2>1, <2>2
<1>4. CASE reconnectCount # 0
  <2> DEFINE n == reconnectCount - 1
  <2>1. n \in Nat /\ reconnectCount = n + 1 /\ reconnectCount' - 1 = n + 1
    BY <1>1, <1>2, <1>4
  <2>2. backoffTime' = Lesser(backoffTime * 2, BackoffCap)
    BY <1>1, <1>2, <1>4 DEF Fails, ErrorBackoff
  <2>3. backoffTime = Lesser(ReconnectInterval * TwoTo[n], BackoffCap)
    BY <1>2, <1>4 DEF BackoffOfCount
  <2> HIDE DEF n
  <2>4. Lesser(backoffTime * 2, BackoffCap) = Lesser(2 * (ReconnectInterval * TwoTo[n]), BackoffCap)
    BY <2>1, <2>3, DoubleOnce, CapOnce
  <2> QED BY <1>1, <1>2, <2>1, <2>2, <2>4, DoubleOnce
<1> QED BY <1>3, <1>4

LEMMA ResetCounts == ASSUME ReadTimeout PROVE BackoffOfCount'
<1> SUFFICES ASSUME ReconnectInterval <= BackoffCap
             PROVE  /\ reconnectCount' = 0
                    /\ backoffTime' = Lesser(ReconnectInterval * TwoTo[0], BackoffCap)
  BY DEF BackoffOfCount
<1>1. ReconnectInterval * TwoTo[0] = ReconnectInterval
  <2>1. TwoTo[0] = 1
    BY DoubleOnce
  <2> QED BY <2>1
<1> QED BY <1>1 DEF ReadTimeout, Lesser

LEMMA NextCounts == Typed /\ BackoffOfCount /\ [Next]_vars => BackoffOfCount'
<1> SUFFICES ASSUME Typed, BackoffOfCount, [Next]_vars PROVE BackoffOfCount'
  OBVIOUS
<1>1. Fails \/ ReadTimeout \/ UNCHANGED <<backoffTime, reconnectCount>>
  <2>1. CASE Loop
    BY <2>1 DEF Loop, LoopStep, Check, Decide, ReadsLine, WaitEnds, Registers
  <2>2. CASE (Signal \/ LineArrives) /\ UNCHANGED serverVars
    BY <2>2 DEF Signal, LineArrives
  <2>3. CASE Second \/ SecondElsewhere
    BY <2>3 DEF Second, WaitSecond, SecondElsewhere
  <2>4. CASE Refused \/ Unreachable \/ Broken \/ ServerRestarts
    BY <2>4 DEF Refused, Unreachable, Broken, ServerRestarts, SessionFails, ConnectFails
  <2>5. CASE Leaves
    BY <2>5 DEF Leaves
  <2>6. CASE ServerStep \/ UserComes \/ UserDone
    BY <2>6 DEF ServerStep, Bind, Refuse, ReadOrphan, FreePort, UserComes, UserDone
  <2>7. CASE Finished \/ UNCHANGED vars
    BY <2>7 DEF Finished
  <2> QED BY <2>1, <2>2, <2>3, <2>4, <2>5, <2>6, <2>7 DEF Next
<1>2. UNCHANGED <<backoffTime, reconnectCount>> => BackoffOfCount'
  BY DEF BackoffOfCount
<1> QED BY <1>1, <1>2, FailsCounts, ResetCounts

\* The wait is the interval, doubled for every error in a row after the first up to
\* the cap, for every interval, cap and number of errors.
THEOREM RejoinBackoff == Spec => []BackoffOfCount
<1>1. Init => BackoffOfCount
  <2>1. TwoTo[0] = 1
    BY DoubleOnce
  <2> QED BY <2>1 DEF Init, ClientInit, BackoffOfCount, Lesser
<1> QED BY <1>1, InitTyped, NextTyped, NextCounts, PTL DEF Spec
=============================================================================
