----------------------------- MODULE PoolProofs -----------------------------
(***************************************************************************)
(* What holds of Pool for any number of sessions, any size of the pool and *)
(* any timeouts.                                                           *)
(***************************************************************************)
EXTENDS Pool, FiniteSetTheorems, TLAPS

-----------------------------------------------------------------------------
(* Types.  A session that ends its dial gives up the lock, so it must have *)
(* it; one that returns a connection must have one.                        *)

DialLocked == \A s \in Sessions : step[s] = "dial" => Locked(s)
ReturnHolds == \A s \in Sessions : step[s] = "return" => holds[s] = Fresh(s)

Typed == TypeOK /\ DialLocked /\ ReturnHolds

LEMMA ConnTypes == \A s \in Sessions : Own(s) \in Conns /\ Fresh(s) \in Conns
  BY DEF Own, Fresh, Conns

LEMMA InitTyped == Init => Typed
  BY PoolAssumption DEF Init, Typed, TypeOK, DialLocked, ReturnHolds

\* The queue of the lock only grows at its end, or loses its head.
LEMMA Queue ==
  ASSUME NEW q \in Seq(Tasks), NEW t \in Tasks
  PROVE  /\ Append(q, t) \in Seq(Tasks)
         /\ q # <<>> => Tail(q) \in Seq(Tasks)
         /\ Append(q, t) # <<>>
         /\ q # <<>> => Head(Append(q, t)) = Head(q)
  BY DEF Tasks

LEMMA WaitsTyped ==
  ASSUME TypeOK, NEW t \in Tasks, Waits(t)
  PROVE  /\ lock' \in Seq(Tasks) /\ since' \in [Tasks -> Nat] /\ behind' \in [Tasks -> Nat]
         /\ \A s \in Sessions : Locked(s) => Locked(s)'
<1>1. Len(lock) \in Nat /\ now \in Nat
  BY DEF TypeOK
<1>2. since' \in [Tasks -> Nat] /\ behind' \in [Tasks -> Nat]
  BY <1>1 DEF TypeOK, Waits
<1> QED BY <1>2, Queue DEF TypeOK, Waits, Locked

LEMMA UnlockTyped ==
  ASSUME TypeOK, NEW t \in Tasks, Locked(t), Unlock
  PROVE  lock' \in Seq(Tasks) /\ since' \in [Tasks -> Nat] /\ behind' \in [Tasks -> Nat]
<1>1. lock' \in Seq(Tasks)
  BY Queue DEF TypeOK, Unlock, Locked
<1>2. since' \in [Tasks -> Nat] /\ behind' \in [Tasks -> Nat]
  BY DEF TypeOK, Unlock
<1> QED BY <1>1, <1>2

LEMMA AskTyped == ASSUME Typed, NEW s \in Sessions, Ask(s) PROVE Typed'
<1>1. TypeOK'
  BY WaitsTyped DEF Typed, TypeOK, Ask, Goto, Tasks
<1>2. DialLocked'
  BY WaitsTyped DEF Typed, TypeOK, DialLocked, Ask, Goto, Tasks
<1>3. ReturnHolds'
  BY DEF Typed, TypeOK, ReturnHolds, Ask, Goto
<1> QED BY <1>1, <1>2, <1>3 DEF Typed

LEMMA ReuseTyped == ASSUME Typed, NEW s \in Sessions, Reuse(s) PROVE Typed'
<1>1. PICK entry \in Young : pool' = pool \ {entry} /\ Serve(s, entry.conn)
  BY DEF Reuse
<1>2. entry \in pool /\ entry.conn \in Conns
  BY <1>1 DEF Young, Typed, TypeOK, Entry
<1>3. TypeOK'
  BY <1>1, <1>2, UnlockTyped DEF Typed, TypeOK, Reuse, Serve, Goto, Tasks
<1>4. DialLocked'
  BY <1>1 DEF Typed, TypeOK, DialLocked, Reuse, Serve, Goto, Unlock, Locked
<1>5. ReturnHolds'
  BY <1>1 DEF Typed, TypeOK, ReturnHolds, Reuse, Serve, Goto
<1> QED BY <1>3, <1>4, <1>5 DEF Typed

LEMMA DialTyped == ASSUME Typed, NEW s \in Sessions, Dial(s) PROVE Typed'
  BY DEF Typed, TypeOK, DialLocked, ReturnHolds, Dial, Goto, Locked

LEMMA ConnectedTyped == ASSUME Typed, NEW s \in Sessions, Connected(s) PROVE Typed'
<1>1. Locked(s)
  BY DEF Typed, DialLocked, Connected
<1>2. TypeOK'
  BY <1>1, ConnTypes, UnlockTyped DEF Typed, TypeOK, Connected, Serve, Goto, Tasks
<1>3. DialLocked'
  BY <1>1 DEF Typed, TypeOK, DialLocked, Connected, Serve, Goto, Unlock, Locked
<1>4. ReturnHolds'
  BY DEF Typed, TypeOK, ReturnHolds, Connected, Serve, Goto
<1> QED BY <1>2, <1>3, <1>4 DEF Typed

LEMMA DialEndsTyped ==
  ASSUME Typed, NEW s \in Sessions, step[s] = "dial", DialEnds(s) PROVE Typed'
<1>1. Locked(s)
  BY DEF Typed, DialLocked
<1>2. TypeOK'
  BY <1>1, UnlockTyped DEF Typed, TypeOK, DialEnds, Goto, Tasks
<1>3. DialLocked'
  BY <1>1 DEF Typed, TypeOK, DialLocked, DialEnds, Goto, Unlock, Locked
<1>4. ReturnHolds'
  BY DEF Typed, TypeOK, ReturnHolds, DialEnds, Goto
<1> QED BY <1>2, <1>3, <1>4 DEF Typed

LEMMA SessionEndsTyped ==
  ASSUME Typed, NEW s \in Sessions, SessionEnds(s) \/ SessionEndsReusable(s) PROVE Typed'
  BY NoneAssumption
     DEF Typed, TypeOK, DialLocked, ReturnHolds, SessionEnds, SessionEndsReusable, Goto, Closes, Locked

LEMMA RedialTyped ==
  ASSUME Typed, NEW s \in Sessions, Redialed(s) \/ RedialRefused(s) PROVE Typed'
<1>1. CASE Redialed(s)
  <2>1. TypeOK'
    BY <1>1, WaitsTyped, ConnTypes DEF Typed, TypeOK, Redialed, Goto, Tasks
  <2>2. DialLocked'
    BY <1>1, WaitsTyped DEF Typed, TypeOK, DialLocked, Redialed, Goto, Tasks
  <2>3. ReturnHolds'
    BY <1>1 DEF Typed, TypeOK, ReturnHolds, Redialed, Goto
  <2> QED BY <2>1, <2>2, <2>3 DEF Typed
<1>2. CASE RedialRefused(s)
  BY <1>2 DEF Typed, TypeOK, DialLocked, ReturnHolds, RedialRefused, Goto, Locked
<1> QED BY <1>1, <1>2

PutAway(s) ==
  [conn |-> holds[s], lastUsed |-> now, opened |-> since[s], behind |-> behind[s]]

LEMMA PutAwayTyped ==
  ASSUME TypeOK, NEW s \in Sessions, holds[s] \in Conns PROVE PutAway(s) \in Entry
<1>1. since[s] \in Nat /\ behind[s] \in Nat /\ now \in Nat
  BY DEF TypeOK, Tasks
<1> QED BY <1>1 DEF PutAway, Entry

LEMMA ReturnTyped == ASSUME Typed, NEW s \in Sessions, Return(s) PROVE Typed'
<1>1. holds[s] \in Conns
  BY ConnTypes DEF Typed, ReturnHolds, Return
<1>2. PutAway(s) \in Entry
  BY <1>1, PutAwayTyped DEF Typed
<1>3. pool' \subseteq Entry /\ dead' \subseteq pool'
  BY <1>2 DEF Typed, TypeOK, Return, PutAway
<1>4. TypeOK'
  BY <1>3, UnlockTyped DEF Typed, TypeOK, Return, Goto, Closes, Tasks
<1>5. DialLocked'
  BY DEF Typed, TypeOK, DialLocked, Return, Goto, Unlock, Locked
<1>6. ReturnHolds'
  BY DEF Typed, TypeOK, ReturnHolds, Return, Goto, Closes
<1> QED BY <1>4, <1>5, <1>6 DEF Typed

LEMMA SweeperTyped == ASSUME Typed, SweeperWakes \/ Sweep PROVE Typed'
<1>1. CASE SweeperWakes
  <2>1. TypeOK'
    BY <1>1, WaitsTyped DEF Typed, TypeOK, SweeperWakes, Tasks
  <2>2. DialLocked'
    BY <1>1, WaitsTyped DEF Typed, DialLocked, SweeperWakes, Tasks
  <2>3. ReturnHolds'
    BY <1>1 DEF Typed, ReturnHolds, SweeperWakes
  <2> QED BY <2>1, <2>2, <2>3 DEF Typed
<1>2. CASE Sweep
  <2>1. TypeOK'
    BY <1>2, UnlockTyped, PoolAssumption, SMTT(20) DEF Typed, TypeOK, Sweep, Fit, Tasks
  <2>2. DialLocked'
    BY <1>2, PoolAssumption DEF Typed, TypeOK, DialLocked, Sweep, Unlock, Locked
  <2>3. ReturnHolds'
    BY <1>2 DEF Typed, ReturnHolds, Sweep
  <2> QED BY <2>1, <2>2, <2>3 DEF Typed
<1> QED BY <1>1, <1>2

LEMMA OtherTyped ==
  ASSUME Typed, Tick \/ UNCHANGED vars \/ \E entry \in pool : BackendCloses(entry) PROVE Typed'
<1>1. CASE Tick
  BY <1>1 DEF Typed, TypeOK, DialLocked, ReturnHolds, Tick, Locked
<1>2. CASE UNCHANGED vars
  BY <1>2 DEF Typed, TypeOK, DialLocked, ReturnHolds, vars, Locked
<1>3. CASE \E entry \in pool : BackendCloses(entry)
  BY <1>3 DEF Typed, TypeOK, DialLocked, ReturnHolds, BackendCloses, Locked
<1> QED BY <1>1, <1>2, <1>3

\* Every step is one of these, which the two theorems below go through.
LEMMA Steps ==
  ASSUME [Next]_vars
  PROVE  \/ \E s \in Sessions :
              \/ Ask(s) \/ Reuse(s) \/ Dial(s) \/ Connected(s)
              \/ step[s] = "dial" /\ DialEnds(s)
              \/ SessionEnds(s) \/ SessionEndsReusable(s)
              \/ Redialed(s) \/ RedialRefused(s) \/ Return(s)
         \/ SweeperWakes \/ Sweep
         \/ Tick \/ UNCHANGED vars \/ \E entry \in pool : BackendCloses(entry)
  BY DEF Next, Runs, Immediate, Outside, Finished, DialRefused, DialTimeout, DialExpired

LEMMA NextTyped == Typed /\ [Next]_vars => Typed'
<1> SUFFICES ASSUME Typed, [Next]_vars PROVE Typed'
  OBVIOUS
<1> QED BY Steps, AskTyped, ReuseTyped, DialTyped, ConnectedTyped, DialEndsTyped,
           SessionEndsTyped, RedialTyped, ReturnTyped, SweeperTyped, OtherTyped

\* Every variable of the pool keeps its type, for any constants.
THEOREM PoolTypeCorrect == Spec => []TypeOK
<1>1. Spec => []Typed
  BY InitTyped, NextTyped, PTL DEF Spec
<1>2. Typed => TypeOK
  BY DEF Typed
<1> QED BY <1>1, <1>2, PTL

-----------------------------------------------------------------------------
(* --max-pool-size.  The test and the insertion are one step under the     *)
(* lock; every other step only removes.                                    *)

Bounded == IsFiniteSet(pool) /\ PoolBounded

LEMMA Shrinks ==
  ASSUME Bounded, pool' \subseteq pool PROVE Bounded'
<1>1. IsFiniteSet(pool') /\ Cardinality(pool') <= Cardinality(pool)
  BY FS_Subset DEF Bounded
<1>2. Cardinality(pool) \in Nat /\ Cardinality(pool') \in Nat
  BY <1>1, FS_CardinalityType DEF Bounded
<1> QED BY <1>1, <1>2, PoolAssumption DEF Bounded, PoolBounded

LEMMA ReturnBounded ==
  ASSUME Bounded, NEW s \in Sessions, Return(s) PROVE Bounded'
<1> DEFINE entry == PutAway(s)
<1>1. CASE HasRoom
  <2>1. pool' = pool \cup {entry}
    BY <1>1 DEF Return, PutAway
  <2>2. /\ IsFiniteSet(pool')
        /\ Cardinality(pool') = Cardinality(pool) \/ Cardinality(pool') = Cardinality(pool) + 1
    BY <2>1, FS_AddElement DEF Bounded
  <2>3. Cardinality(pool) \in Nat
    BY FS_CardinalityType DEF Bounded
  <2> QED BY <1>1, <2>2, <2>3, PoolAssumption DEF Bounded, PoolBounded, HasRoom
<1>2. CASE ~HasRoom
  BY <1>2, Shrinks DEF Return
<1> QED BY <1>1, <1>2

LEMMA NextBounded == Bounded /\ [Next]_vars => Bounded'
<1> SUFFICES ASSUME Bounded, [Next]_vars PROVE Bounded'
  OBVIOUS
<1>1. ASSUME NEW s \in Sessions, Return(s) PROVE Bounded'
  BY <1>1, ReturnBounded
<1>2. ASSUME NEW s \in Sessions,
             \/ Ask(s) \/ Reuse(s) \/ Dial(s) \/ Connected(s)
             \/ step[s] = "dial" /\ DialEnds(s)
             \/ SessionEnds(s) \/ SessionEndsReusable(s)
             \/ Redialed(s) \/ RedialRefused(s)
      PROVE  pool' \subseteq pool
  BY <1>2 DEF Ask, Reuse, Dial, Connected, DialEnds, SessionEnds, SessionEndsReusable,
              Redialed, RedialRefused
<1>3. ASSUME \/ SweeperWakes \/ Sweep
             \/ Tick \/ UNCHANGED vars \/ \E entry \in pool : BackendCloses(entry)
      PROVE  pool' \subseteq pool
  BY <1>3 DEF SweeperWakes, Sweep, Fit, Tick, vars, BackendCloses
<1> QED BY Steps, <1>1, <1>2, <1>3, Shrinks

\* However many sessions return to it, the pool keeps to its limit.
THEOREM PoolKeepsLimit == Spec => []PoolBounded
<1>1. Init => Bounded
  BY FS_EmptySet, PoolAssumption DEF Init, Bounded, PoolBounded
<1>2. Bounded => PoolBounded
  BY DEF Bounded
<1> QED BY <1>1, NextBounded, <1>2, PTL DEF Spec

-----------------------------------------------------------------------------
(* No connection is used twice.  A connection in the pool is the fresh one *)
(* of a session that is over, and has served nobody; so a session that     *)
(* gets it shares it with no one.                                          *)

PooledUnused == \A entry \in pool :
  entry.conn.kind = "fresh" /\ step[entry.conn.by] = "done" /\ entry.conn \notin used
PooledOnce == \A entry, other \in pool : entry.conn = other.conn => entry = other
HoldersServe == \A s \in Sessions :
  /\ holds[s] # None => step[s] \in {"serve", "return"}
  /\ step[s] = "serve" => holds[s] \in used
UsedLate == \A c \in used :
  /\ c.kind = "own" => step[c.by] \in {"serve", "redial", "return", "done"}
  /\ c.kind = "fresh" => step[c.by] = "done"
HeldApart == \A s, t \in Sessions : s # t /\ holds[s] # None => holds[s] # holds[t]

Apart == Typed /\ PooledUnused /\ PooledOnce /\ HoldersServe /\ UsedLate /\ HeldApart

LEMMA InitApart == Init => Apart
  BY InitTyped DEF Init, Apart, PooledUnused, PooledOnce, HoldersServe, UsedLate, HeldApart

LEMMA Distinct ==
  ASSUME NEW s \in Sessions, NEW t \in Sessions
  PROVE  /\ Own(s) # None /\ Fresh(s) # None /\ Own(s) # Fresh(t)
         /\ Fresh(s) = Fresh(t) => s = t
  BY ConnTypes, NoneAssumption DEF Own, Fresh

LEMMA Holders ==
  ASSUME Apart, NEW t \in Sessions
  PROVE  holds[t] = None \/ holds[t] \in used \/ (step[t] = "return" /\ holds[t] = Fresh(t))
  BY DEF Apart, Typed, HoldersServe, ReturnHolds

\* A session gets a connection from the pool: the crux.
LEMMA ReuseApart == ASSUME Apart, NEW s \in Sessions, Reuse(s) PROVE Apart'
<1>1. PICK entry \in Young : pool' = pool \ {entry} /\ Serve(s, entry.conn)
  BY DEF Reuse
<1> DEFINE c == entry.conn
<1>2. entry \in pool /\ c \in Conns /\ c \notin used /\ c.kind = "fresh" /\ step[c.by] = "done"
  BY <1>1 DEF Young, Apart, Typed, TypeOK, Entry, PooledUnused
<1>3. step[s] = "lock" /\ c.by # s /\ c.by \in Sessions
  BY <1>2 DEF Reuse, Conns
<1>4. /\ step' = [step EXCEPT ![s] = "serve"]
      /\ holds' = [holds EXCEPT ![s] = c]
      /\ used' = used \cup {c}
  BY <1>1 DEF Serve, Goto
<1>5. ASSUME NEW t \in Sessions, t # s PROVE holds[t] # c
  <2>1. c # None
    BY <1>2, NoneAssumption
  <2>2. step[t] = "return" => c # Fresh(t)
    BY <1>2 DEF Fresh
  <2> QED BY <2>1, <2>2, <1>2, Holders
<1>6. Typed'
  BY ReuseTyped DEF Apart
<1>7. PooledUnused'
  BY <1>1, <1>2, <1>3, <1>4 DEF Apart, Typed, TypeOK, Entry, Conns, PooledUnused, PooledOnce
<1>8. PooledOnce'
  BY <1>1 DEF Apart, PooledOnce
<1>9. HoldersServe'
  BY <1>4 DEF Apart, Typed, TypeOK, HoldersServe
<1>10. UsedLate'
  BY <1>2, <1>3, <1>4 DEF Apart, Typed, TypeOK, Conns, UsedLate
<1>11. HeldApart'
  BY <1>2, <1>4, <1>5 DEF Apart, Typed, TypeOK, HeldApart
<1> QED BY <1>6, <1>7, <1>8, <1>9, <1>10, <1>11 DEF Apart

LEMMA ConnectedApart == ASSUME Apart, NEW s \in Sessions, Connected(s) PROVE Apart'
<1>1. /\ step[s] = "dial"
      /\ step' = [step EXCEPT ![s] = "serve"]
      /\ holds' = [holds EXCEPT ![s] = Own(s)]
      /\ used' = used \cup {Own(s)}
      /\ pool' = pool
  BY DEF Connected, Serve, Goto
<1>2. Own(s) \notin used
  BY <1>1 DEF Apart, UsedLate, Own
<1>3. ASSUME NEW t \in Sessions, t # s PROVE holds[t] # Own(s)
  BY <1>3, <1>2, Distinct, Holders
<1>4. Typed'
  BY ConnectedTyped DEF Apart
<1>5. PooledUnused'
  BY <1>1 DEF Apart, Typed, TypeOK, Entry, Conns, PooledUnused, Own
<1>6. PooledOnce'
  BY <1>1 DEF Apart, PooledOnce
<1>7. HoldersServe'
  BY <1>1 DEF Apart, Typed, TypeOK, HoldersServe
<1>8. UsedLate'
  BY <1>1 DEF Apart, Typed, TypeOK, Conns, UsedLate, Own
<1>9. HeldApart'
  BY <1>1, <1>3, ConnTypes, NoneAssumption DEF Apart, Typed, TypeOK, HeldApart
<1> QED BY <1>4, <1>5, <1>6, <1>7, <1>8, <1>9 DEF Apart

LEMMA RedialedApart == ASSUME Apart, NEW s \in Sessions, Redialed(s) PROVE Apart'
<1>1. /\ step[s] = "redial"
      /\ step' = [step EXCEPT ![s] = "return"]
      /\ holds' = [holds EXCEPT ![s] = Fresh(s)]
      /\ used' = used /\ pool' = pool
  BY DEF Redialed, Goto
<1>2. Fresh(s) \notin used
  BY <1>1 DEF Apart, UsedLate, Fresh
<1>3. ASSUME NEW t \in Sessions, t # s PROVE holds[t] # Fresh(s)
  BY <1>3, <1>2, Distinct, Holders
<1>4. Typed'
  BY RedialTyped DEF Apart
<1>5. PooledUnused' /\ PooledOnce'
  BY <1>1 DEF Apart, Typed, TypeOK, Entry, Conns, PooledUnused, PooledOnce
<1>6. HoldersServe'
  BY <1>1 DEF Apart, Typed, TypeOK, HoldersServe
<1>7. UsedLate'
  BY <1>1 DEF Apart, Typed, TypeOK, Conns, UsedLate
<1>8. HeldApart'
  BY <1>1, <1>3, ConnTypes, NoneAssumption DEF Apart, Typed, TypeOK, HeldApart
<1> QED BY <1>4, <1>5, <1>6, <1>7, <1>8 DEF Apart

LEMMA ReturnApart == ASSUME Apart, NEW s \in Sessions, Return(s) PROVE Apart'
<1>1. /\ step[s] = "return" /\ holds[s] = Fresh(s)
      /\ step' = [step EXCEPT ![s] = "done"]
      /\ holds' = [holds EXCEPT ![s] = None]
      /\ used' = used
      /\ pool' = pool \/ pool' = pool \cup {PutAway(s)}
      /\ PutAway(s).conn = Fresh(s)
  BY DEF Return, Goto, Closes, Apart, Typed, ReturnHolds, PutAway
<1>2. Fresh(s) \notin used
  BY <1>1 DEF Apart, UsedLate, Fresh
<1>3. \A other \in pool : other.conn # Fresh(s)
  BY <1>1 DEF Apart, PooledUnused, Fresh
<1>4. Typed'
  BY ReturnTyped DEF Apart
<1>5. PooledUnused'
  BY <1>1, <1>2 DEF Apart, Typed, TypeOK, Entry, Conns, PooledUnused, Fresh
<1>6. PooledOnce'
  BY <1>1, <1>3 DEF Apart, PooledOnce
<1>7. HoldersServe'
  BY <1>1 DEF Apart, Typed, TypeOK, HoldersServe
<1>8. UsedLate'
  BY <1>1 DEF Apart, Typed, TypeOK, Conns, UsedLate
<1>9. HeldApart'
  BY <1>1 DEF Apart, Typed, TypeOK, HeldApart
<1> QED BY <1>4, <1>5, <1>6, <1>7, <1>8, <1>9 DEF Apart

\* A session that is over lets go of its connection.
LEMMA SessionEndsApart ==
  ASSUME Apart, NEW s \in Sessions, SessionEnds(s) \/ SessionEndsReusable(s) PROVE Apart'
<1>1. PICK next \in {"done", "redial"} :
        /\ step[s] = "serve"
        /\ step' = [step EXCEPT ![s] = next]
        /\ holds' = [holds EXCEPT ![s] = None]
        /\ used' = used /\ pool' = pool
  BY DEF SessionEnds, SessionEndsReusable, Goto, Closes
<1>2. Typed'
  BY SessionEndsTyped DEF Apart
<1>3. PooledUnused' /\ PooledOnce'
  BY <1>1 DEF Apart, Typed, TypeOK, Entry, Conns, PooledUnused, PooledOnce
<1>4. HoldersServe' /\ HeldApart'
  BY <1>1 DEF Apart, Typed, TypeOK, HoldersServe, HeldApart
<1>5. UsedLate'
  BY <1>1 DEF Apart, Typed, TypeOK, Conns, UsedLate
<1> QED BY <1>2, <1>3, <1>4, <1>5 DEF Apart

\* The steps of a session without a connection.
LEMMA EmptyHandedApart ==
  ASSUME Apart, NEW s \in Sessions,
         \/ Ask(s) \/ Dial(s) \/ RedialRefused(s)
         \/ step[s] = "dial" /\ DialEnds(s)
  PROVE  Apart'
<1>1. PICK next \in {"lock", "dial", "failed", "done"} :
        /\ step[s] \in {"new", "lock", "dial", "redial"}
        /\ step' = [step EXCEPT ![s] = next]
        /\ step[s] = "redial" <=> next = "done"
        /\ holds' = holds /\ used' = used /\ pool' = pool
  BY DEF Ask, Dial, DialEnds, RedialRefused, Goto
<1>2. Typed'
  BY AskTyped, DialTyped, DialEndsTyped, RedialTyped DEF Apart
<1>3. PooledUnused' /\ PooledOnce'
  BY <1>1 DEF Apart, Typed, TypeOK, Entry, Conns, PooledUnused, PooledOnce
<1>4. HoldersServe' /\ HeldApart'
  BY <1>1 DEF Apart, Typed, TypeOK, HoldersServe, HeldApart
<1>5. UsedLate'
  BY <1>1 DEF Apart, Typed, TypeOK, Conns, UsedLate
<1> QED BY <1>2, <1>3, <1>4, <1>5 DEF Apart

LEMMA OthersApart ==
  ASSUME Apart, \/ SweeperWakes \/ Sweep
                \/ Tick \/ UNCHANGED vars \/ \E entry \in pool : BackendCloses(entry)
  PROVE  Apart'
<1>1. UNCHANGED <<step, holds, used>> /\ pool' \subseteq pool
  BY DEF SweeperWakes, Sweep, Fit, Tick, vars, BackendCloses
<1>2. Typed'
  BY SweeperTyped, OtherTyped DEF Apart
<1> QED BY <1>1, <1>2 DEF Apart, PooledUnused, PooledOnce, HoldersServe, UsedLate, HeldApart

LEMMA NextApart == Apart /\ [Next]_vars => Apart'
<1> SUFFICES ASSUME Apart, [Next]_vars PROVE Apart'
  OBVIOUS
<1>1. ASSUME NEW s \in Sessions,
             \/ Ask(s) \/ Reuse(s) \/ Dial(s) \/ Connected(s)
             \/ step[s] = "dial" /\ DialEnds(s)
             \/ SessionEnds(s) \/ SessionEndsReusable(s)
             \/ Redialed(s) \/ RedialRefused(s) \/ Return(s)
      PROVE  Apart'
  <2>1. CASE Reuse(s) \/ Connected(s) \/ Redialed(s) \/ Return(s)
    BY <2>1, ReuseApart, ConnectedApart, RedialedApart, ReturnApart
  <2>2. CASE SessionEnds(s) \/ SessionEndsReusable(s)
    BY <2>2, SessionEndsApart
  <2>3. CASE Ask(s) \/ Dial(s) \/ RedialRefused(s)
    BY <2>3, EmptyHandedApart
  <2>4. CASE step[s] = "dial" /\ DialEnds(s)
    BY <2>4, EmptyHandedApart
  <2> QED BY <1>1, <2>1, <2>2, <2>3, <2>4
<1> QED BY Steps, <1>1, OthersApart

\* A backend connection serves one session at most, whatever the pool does with it.
THEOREM PoolNeverReuses == Spec => []NeverReused
<1>1. Apart => NeverReused
  BY DEF Apart, NeverReused, PooledUnused, HeldApart
<1> QED BY InitApart, NextApart, <1>1, PTL DEF Spec

-----------------------------------------------------------------------------
(* The wait for the lock.  A session keeps the pool locked for one dial at *)
(* most, and a dial takes a timeout at most: counted from the start of the *)
(* dial under way, or from now if there is none, whoever is i-th in the    *)
(* queue has the lock within i - 1 timeouts.  That moment was never later  *)
(* than it was when the task joined the queue.                             *)

Dials(t) == step[t] = "dial"
Queued(t) == \E i \in DOMAIN lock : lock[i] = t
Started == IF \E t \in Sessions : Dials(t)
             THEN dialed[CHOOSE t \in Sessions : Dials(t)] ELSE now
Due(t) == since[t] + Timeouts(behind[t])

DialInTime == \A t \in Sessions :
  Dials(t) => dialed[t] <= now /\ now <= dialed[t] + ConnectionTimeout
OnceQueued == \A i, j \in DOMAIN lock : lock[i] = lock[j] => i = j
OnlyWaiters == \A i \in DOMAIN lock :
  lock[i] \in Sessions => step[lock[i]] \in {"lock", "dial", "return"}
AllQueued == \A s \in Sessions : step[s] \in {"lock", "dial", "return"} => Queued(s)
Turns == \A i \in DOMAIN lock : Started + Timeouts(i - 1) <= Due(lock[i])
SweeperInTime ==
  /\ Queued(Sweeper) => since[Sweeper] = sweepAt
  /\ ~Queued(Sweeper) => now <= sweepAt /\ behind[Sweeper] = 0
  /\ sweepAt <= now + CleanupInterval

InTime ==
  /\ DialInTime /\ OnceQueued /\ OnlyWaiters /\ AllQueued
  /\ Turns /\ SweeperInTime

\* The entries: the next sweep meets each at its age, and none was put away later
\* than its session was due; a connection the backend has closed was silent for
\* that long.
SweptInTime == MaxIdle > 0 =>
  \A entry \in pool : sweepAt < entry.lastUsed + MaxIdle + CleanupInterval
PutAwaySoon == \A entry \in pool : entry.lastUsed <= entry.opened + Timeouts(entry.behind)
DeadLong == \A entry \in dead : entry.opened + BackendKeeps <= now

LEMMA TimeoutSums ==
  /\ Timeouts(0) = 0
  /\ \A n \in Nat : /\ Timeouts(n) \in Nat
                    /\ Timeouts(n + 1) = Timeouts(n) + ConnectionTimeout
<1>1. \A n, t \in Nat : n * t \in Nat /\ (n + 1) * t = n * t + t /\ 0 * t = 0
  OBVIOUS
<1> QED BY <1>1, PoolAssumption DEF Timeouts

\* One session dials at a time.
LEMMA OneDials ==
  ASSUME Typed
  PROVE  /\ \A t \in Sessions : Dials(t) => Started = dialed[t]
         /\ (\A t \in Sessions : ~Dials(t)) => Started = now
         /\ \A s, t \in Sessions : Dials(t) /\ Locked(s) => s = t
<1>1. \A s, t \in Sessions : Dials(t) /\ Locked(s) => s = t
  BY DEF Typed, DialLocked, Dials, Locked
<1>2. ASSUME NEW t \in Sessions, Dials(t) PROVE Started = dialed[t]
  <2> DEFINE u == CHOOSE u \in Sessions : Dials(u)
  <2>1. u \in Sessions /\ Dials(u)
    BY <1>2
  <2>2. u = t
    BY <2>1, <1>2, <1>1 DEF Typed, DialLocked, Dials, Locked
  <2> QED BY <2>2, <1>2 DEF Started
<1>3. (\A t \in Sessions : ~Dials(t)) => Started = now
  BY DEF Started
<1> QED BY <1>1, <1>2, <1>3

Starts ==
  /\ \A t \in Sessions : Dials(t) => Started = dialed[t]
  /\ (\A t \in Sessions : ~Dials(t)) => Started = now

LEMMA DialStarts == Typed => Starts
  BY OneDials DEF Starts
LEMMA DialStartsNext == Typed' => Starts'
  BY DialStarts, PTL

LEMMA StartedNow ==
  ASSUME Typed, DialInTime
  PROVE  /\ Started \in Nat /\ now \in Nat
         /\ Started <= now /\ now <= Started + ConnectionTimeout
<1>1. now \in Nat
  BY DEF Typed, TypeOK
<1>2. CASE \E t \in Sessions : Dials(t)
  <2>1. PICK t \in Sessions : Dials(t)
    BY <1>2
  <2>2. Started = dialed[t] /\ dialed[t] \in Nat
    BY <2>1, OneDials DEF Typed, TypeOK
  <2>3. dialed[t] <= now /\ now <= dialed[t] + ConnectionTimeout
    BY <2>1 DEF DialInTime
  <2> QED BY <1>1, <2>2, <2>3
<1>3. CASE \A t \in Sessions : ~Dials(t)
  BY <1>1, <1>3, OneDials, PoolAssumption
<1> QED BY <1>2, <1>3

LEMMA DueNat == ASSUME Typed, NEW t \in Tasks PROVE Due(t) \in Nat
<1>1. since[t] \in Nat /\ behind[t] \in Nat
  BY DEF Typed, TypeOK
<1>2. Timeouts(behind[t]) \in Nat
  BY <1>1, TimeoutSums
<1> QED BY <1>1, <1>2 DEF Due

\* The queue as a function.
LEMMA QueueGrows ==
  ASSUME Typed, NEW t \in Tasks, Waits(t)
  PROVE  /\ Len(lock) \in Nat /\ DOMAIN lock = 1..Len(lock)
         /\ DOMAIN lock' = 1..(Len(lock) + 1)
         /\ \A i \in 1..Len(lock) : lock'[i] = lock[i] /\ lock[i] \in Tasks
         /\ lock'[Len(lock) + 1] = t
  BY DEF Typed, TypeOK, Waits

LEMMA QueueMoves ==
  ASSUME Typed, NEW t \in Tasks, Locked(t), Unlock
  PROVE  /\ Len(lock) \in Nat \ {0} /\ DOMAIN lock = 1..Len(lock)
         /\ DOMAIN lock' = 1..(Len(lock) - 1)
         /\ \A i \in 1..(Len(lock) - 1) : lock'[i] = lock[i + 1] /\ lock[i + 1] \in Tasks
         /\ lock[1] = t
         /\ since' = [since EXCEPT ![t] = 0] /\ behind' = [behind EXCEPT ![t] = 0]
<1>1. lock \in Seq(Tasks) /\ lock # <<>> /\ lock' = Tail(lock) /\ Head(lock) = t
  BY DEF Typed, TypeOK, Locked, Unlock
<1>2. since' = [since EXCEPT ![t] = 0] /\ behind' = [behind EXCEPT ![t] = 0]
  BY <1>1 DEF Unlock
<1>3. /\ Len(lock) \in Nat \ {0} /\ DOMAIN lock = 1..Len(lock)
      /\ \A i \in 1..Len(lock) : lock[i] \in Tasks
      /\ lock[1] = t
  BY <1>1
<1>4. /\ DOMAIN lock' = 1..(Len(lock) - 1)
      /\ \A i \in 1..(Len(lock) - 1) : lock'[i] = lock[i + 1]
  BY <1>1
<1>5. \A i \in 1..(Len(lock) - 1) : i + 1 \in 1..Len(lock)
  BY <1>3
<1> QED BY <1>2, <1>3, <1>4, <1>5

LEMMA Joined ==
  ASSUME Typed, NEW t \in Tasks, Waits(t)
  PROVE  \A u \in Tasks : Queued(u)' <=> Queued(u) \/ u = t
<1> SUFFICES ASSUME NEW u \in Tasks PROVE Queued(u)' <=> Queued(u) \/ u = t
  OBVIOUS
<1> DEFINE n == Len(lock)
<1>1. /\ n \in Nat /\ DOMAIN lock = 1..n /\ DOMAIN lock' = 1..(n + 1)
      /\ \A i \in 1..n : lock'[i] = lock[i]
      /\ lock'[n + 1] = t
  BY QueueGrows
<1> HIDE DEF n
<1>2. ASSUME Queued(u)' PROVE Queued(u) \/ u = t
  <2>1. PICK i \in 1..(n + 1) : lock'[i] = u
    BY <1>1, <1>2 DEF Queued
  <2>2. i \in 1..n \/ i = n + 1
    BY <1>1
  <2> QED BY <1>1, <2>1, <2>2 DEF Queued
<1>3. ASSUME Queued(u) \/ u = t PROVE Queued(u)'
  <2>1. n + 1 \in 1..(n + 1) /\ \A i \in 1..n : i \in 1..(n + 1)
    BY <1>1
  <2> QED BY <1>1, <1>3, <2>1 DEF Queued
<1> QED BY <1>2, <1>3

LEMMA Left ==
  ASSUME Typed, OnceQueued, NEW t \in Tasks, Locked(t), Unlock
  PROVE  \A u \in Tasks : Queued(u)' <=> Queued(u) /\ u # t
<1> SUFFICES ASSUME NEW u \in Tasks PROVE Queued(u)' <=> Queued(u) /\ u # t
  OBVIOUS
<1> DEFINE n == Len(lock)
<1>1. /\ n \in Nat \ {0} /\ DOMAIN lock = 1..n /\ DOMAIN lock' = 1..(n - 1)
      /\ \A i \in 1..(n - 1) : lock'[i] = lock[i + 1]
      /\ lock[1] = t
  BY QueueMoves
<1> HIDE DEF n
<1>2. ASSUME Queued(u)' PROVE Queued(u) /\ u # t
  <2>1. PICK i \in 1..(n - 1) : lock'[i] = u
    BY <1>1, <1>2 DEF Queued
  <2>2. i + 1 \in 1..n /\ 1 \in 1..n /\ i + 1 # 1
    BY <1>1
  <2>3. lock[i + 1] = u
    BY <1>1, <2>1
  <2>4. Queued(u)
    BY <1>1, <2>2, <2>3 DEF Queued
  <2>5. lock[i + 1] # lock[1]
    BY <1>1, <2>2 DEF OnceQueued
  <2> QED BY <1>1, <2>3, <2>4, <2>5
<1>3. ASSUME Queued(u), u # t PROVE Queued(u)'
  <2>1. PICK i \in 1..n : lock[i] = u
    BY <1>1, <1>3 DEF Queued
  <2>2. i # 1
    BY <1>1, <1>3, <2>1
  <2>3. i - 1 \in 1..(n - 1) /\ (i - 1) + 1 = i
    BY <1>1, <2>2
  <2>4. lock'[i - 1] = u
    BY <1>1, <2>1, <2>3
  <2> QED BY <1>1, <2>3, <2>4 DEF Queued
<1> QED BY <1>2, <1>3

-----------------------------------------------------------------------------
(* One lemma for each thing that a step does to the queue.                 *)

\* A task joins it: nobody's turn moves, and its own is behind all of them.
LEMMA TurnsJoin ==
  ASSUME Typed, DialInTime, OnceQueued, Turns,
         NEW t \in Tasks, Waits(t), ~Queued(t), Started' = Started
  PROVE  OnceQueued' /\ Turns'
<1> DEFINE n == Len(lock)
<1>1. /\ n \in Nat /\ DOMAIN lock = 1..n /\ DOMAIN lock' = 1..(n + 1)
      /\ \A i \in 1..n : lock'[i] = lock[i] /\ lock[i] \in Tasks
      /\ lock'[n + 1] = t
  BY QueueGrows
<1>2. /\ since' = [since EXCEPT ![t] = now] /\ behind' = [behind EXCEPT ![t] = n]
      /\ since \in [Tasks -> Nat] /\ behind \in [Tasks -> Nat]
  BY DEF Waits, Typed, TypeOK
<1> HIDE DEF n
<1>3. \A i \in 1..n : lock[i] # t
  BY <1>1 DEF Queued
<1>4. \A i \in 1..(n + 1) : i \in 1..n \/ i = n + 1
  BY <1>1
<1>5. OnceQueued'
  BY <1>1, <1>3, <1>4 DEF OnceQueued
<1>6. ASSUME NEW i \in 1..n PROVE Started' + Timeouts(i - 1) <= Due(lock[i])'
  <2>1. Due(lock[i])' = Due(lock[i])
    BY <1>1, <1>2, <1>3 DEF Due, Timeouts
  <2>2. Started + Timeouts(i - 1) <= Due(lock[i])
    BY <1>1 DEF Turns
  <2> QED BY <2>1, <2>2
<1>7. Started' + Timeouts(n) <= now + Timeouts(n)
  <2>1. Started \in Nat /\ now \in Nat /\ Started <= now /\ Timeouts(n) \in Nat
    BY <1>1, StartedNow, TimeoutSums
  <2> QED BY <2>1
<1> QED BY <1>1, <1>2, <1>4, <1>5, <1>6, <1>7 DEF Turns, Due

\* The first one leaves it, within a timeout of the moment counted from: everyone
\* else is one turn closer.
LEMMA TurnsMove ==
  ASSUME Typed, DialInTime, OnceQueued, Turns,
         NEW t \in Tasks, Locked(t), Unlock,
         Started' \in Nat, Started' <= Started + ConnectionTimeout
  PROVE  OnceQueued' /\ Turns'
<1> DEFINE n == Len(lock)
<1>1. /\ n \in Nat \ {0} /\ DOMAIN lock = 1..n /\ DOMAIN lock' = 1..(n - 1)
      /\ \A i \in 1..(n - 1) : lock'[i] = lock[i + 1] /\ lock[i + 1] \in Tasks
      /\ lock[1] = t
      /\ since' = [since EXCEPT ![t] = 0] /\ behind' = [behind EXCEPT ![t] = 0]
  BY QueueMoves
<1>2. since \in [Tasks -> Nat] /\ behind \in [Tasks -> Nat]
  BY DEF Typed, TypeOK
<1> HIDE DEF n
<1>3. \A i \in 1..(n - 1) : i + 1 \in 1..n /\ i + 1 # 1 /\ 1 \in 1..n
  BY <1>1
<1>4. \A i \in 1..(n - 1) : lock[i + 1] # t
  BY <1>1, <1>3 DEF OnceQueued
<1>5. OnceQueued'
  <2>1. ASSUME NEW i \in 1..(n - 1), NEW j \in 1..(n - 1), lock'[i] = lock'[j] PROVE i = j
    <3>1. i + 1 = j + 1
      BY <1>1, <1>3, <2>1 DEF OnceQueued
    <3> QED BY <3>1
  <2> QED BY <1>1, <2>1 DEF OnceQueued
<1>6. ASSUME NEW i \in 1..(n - 1) PROVE Started' + Timeouts(i - 1) <= Due(lock[i])'
  <2>1. Due(lock[i])' = Due(lock[i + 1])
    BY <1>1, <1>2, <1>4 DEF Due, Timeouts
  <2>2. Started + Timeouts(i) <= Due(lock[i + 1])
    <3>1. (i + 1) - 1 = i
      OBVIOUS
    <3> QED BY <1>1, <1>3, <3>1 DEF Turns
  <2>3. Timeouts(i) = Timeouts(i - 1) + ConnectionTimeout /\ Timeouts(i - 1) \in Nat
    <3>1. i - 1 \in Nat /\ (i - 1) + 1 = i
      OBVIOUS
    <3> QED BY <3>1, TimeoutSums
  <2>4. Due(lock[i + 1]) \in Nat
    BY <1>1, DueNat
  <2>5. Started \in Nat
    BY StartedNow
  <2> QED BY <2>1, <2>2, <2>3, <2>4, <2>5, PoolAssumption
<1> QED BY <1>1, <1>5, <1>6 DEF Turns

LEMMA TurnsStay ==
  ASSUME OnceQueued, Turns, UNCHANGED <<lock, since, behind>>,
         lock # <<>> => Started' = Started, Typed
  PROVE  OnceQueued' /\ Turns' /\ \A t \in Tasks : Queued(t)' <=> Queued(t)
<1>1. OnceQueued' /\ \A t \in Tasks : Queued(t)' <=> Queued(t)
  BY DEF OnceQueued, Queued
<1>2. ASSUME NEW i \in DOMAIN lock PROVE Started' = Started
  BY <1>2 DEF Typed, TypeOK
<1> QED BY <1>1, <1>2 DEF Turns, Due

-----------------------------------------------------------------------------
(* Where the moment counted from moves.                                    *)

\* A session that gets a connection, or an error, has dialed a timeout at most.
LEMMA ServedStarts ==
  ASSUME Typed, Typed', DialInTime, NEW s \in Sessions,
         Reuse(s) \/ Connected(s) \/ (step[s] = "dial" /\ DialEnds(s))
  PROVE  /\ Started' \in Nat /\ Started' <= Started + ConnectionTimeout
         /\ \A t \in Sessions : ~Dials(t)'
<1>1. PICK next \in {"serve", "failed"} : step' = [step EXCEPT ![s] = next]
  BY DEF Reuse, Connected, DialEnds, Serve, Goto
<1>2. now' = now /\ Locked(s)
  BY DEF Reuse, Connected, DialEnds, Typed, DialLocked
<1>3. \A t \in Sessions : ~Dials(t)'
  BY <1>1, <1>2, OneDials DEF Dials, Typed, TypeOK
<1>4. Started' = now
  BY <1>2, <1>3, DialStartsNext DEF Starts
<1> QED BY <1>3, <1>4, StartedNow

LEMMA DialStartsNow ==
  ASSUME Typed, Typed', NEW s \in Sessions, Dial(s)
  PROVE  Started' = Started /\ \A t \in Sessions : Dials(t)' => t = s
<1>1. step[s] = "lock" /\ Locked(s) /\ step' = [step EXCEPT ![s] = "dial"]
      /\ dialed' = [dialed EXCEPT ![s] = now]
  BY DEF Dial, Goto
<1>2. \A t \in Sessions : ~Dials(t)
  BY <1>1, OneDials DEF Dials
<1>3. Dials(s)' /\ dialed'[s] = now /\ \A t \in Sessions : Dials(t)' => t = s
  BY <1>1, <1>2 DEF Dials, Typed, TypeOK
<1> QED BY <1>2, <1>3, OneDials, DialStartsNext DEF Starts

\* The steps that neither begin nor end a dial.
LEMMA NoDialStarts ==
  ASSUME Typed, Typed', dialed' = dialed, now' = now,
         \/ UNCHANGED step
         \/ \E s \in Sessions, next \in {"lock", "done", "redial", "return"} :
              step' = [step EXCEPT ![s] = next] /\ step[s] # "dial"
  PROVE  Started' = Started /\ \A t \in Sessions : Dials(t)' <=> Dials(t)
<1>1. \A t \in Sessions : Dials(t)' <=> Dials(t)
  BY DEF Dials, Typed, TypeOK
<1>2. CASE \E t \in Sessions : Dials(t)
  BY <1>1, <1>2, OneDials, DialStartsNext DEF Starts
<1>3. CASE \A t \in Sessions : ~Dials(t)
  BY <1>1, <1>3, OneDials, DialStartsNext DEF Starts
<1> QED BY <1>1, <1>2, <1>3

\* Time passes while a task waits only if a session dials.
LEMMA TickStarts ==
  ASSUME Typed, Typed', Tick, lock # <<>> PROVE Started' = Started
<1>1. step' = step /\ dialed' = dialed
  BY DEF Tick
<1>2. PICK t \in Sessions : Dials(t)
  BY DEF Tick, CanRun, Dials
<1> QED BY <1>1, <1>2, OneDials, DialStartsNext DEF Starts, Dials

-----------------------------------------------------------------------------
(* The waits keep their bound: one lemma for each kind of step.            *)

LEMMA TaskKinds == Sweeper \in Tasks /\ \A s \in Sessions : s \in Tasks /\ s # Sweeper
  BY PoolAssumption DEF Tasks

LEMMA NotQueued ==
  ASSUME OnlyWaiters, NEW s \in Sessions, step[s] \notin {"lock", "dial", "return"}
  PROVE  ~Queued(s)
  BY DEF OnlyWaiters, Queued

\* A session asks for a connection, or comes back with one.
LEMMA JoinInTime ==
  ASSUME Typed, Typed', InTime, NEW s \in Sessions, Ask(s) \/ Redialed(s)
  PROVE  InTime'
<1>1. PICK next \in {"lock", "return"} :
        step' = [step EXCEPT ![s] = next] /\ step[s] \in {"new", "redial"}
  BY DEF Ask, Redialed, Goto
<1>2. Waits(s) /\ UNCHANGED <<now, dialed, sweepAt>>
  BY DEF Ask, Redialed
<1>3. Started' = Started /\ \A t \in Sessions : Dials(t)' <=> Dials(t)
  BY <1>1, <1>2, NoDialStarts
<1>4. s \in Tasks /\ s # Sweeper /\ ~Queued(s)
  BY <1>1, TaskKinds, NotQueued DEF InTime
<1>5. OnceQueued' /\ Turns'
  BY <1>2, <1>3, <1>4, TurnsJoin DEF InTime
<1>6. \A t \in Tasks : Queued(t)' <=> Queued(t) \/ t = s
  BY <1>2, <1>4, Joined
<1>7. DialInTime'
  BY <1>2, <1>3 DEF InTime, DialInTime
<1>8. OnlyWaiters'
  <2>1. ASSUME NEW t \in Sessions, Queued(t)' PROVE step'[t] \in {"lock", "dial", "return"}
    BY <1>1, <1>6, <2>1, TaskKinds, NotQueued DEF InTime, Typed, TypeOK
  <2> QED BY <2>1 DEF OnlyWaiters, Queued
<1>9. AllQueued'
  BY <1>1, <1>6, TaskKinds DEF InTime, AllQueued, Typed, TypeOK
<1>10. SweeperInTime'
  <2>1. since'[Sweeper] = since[Sweeper] /\ behind'[Sweeper] = behind[Sweeper]
    BY <1>2, <1>4, TaskKinds DEF Waits, Typed, TypeOK
  <2> QED BY <1>2, <1>4, <1>6, <2>1, TaskKinds DEF InTime, SweeperInTime
<1> QED BY <1>5, <1>7, <1>8, <1>9, <1>10 DEF InTime

\* A session leaves the lock: it has a connection or an error, or has returned its own.
LEMMA LeaveInTime ==
  ASSUME Typed, Typed', InTime, NEW s \in Sessions,
         Reuse(s) \/ Connected(s) \/ (step[s] = "dial" /\ DialEnds(s)) \/ Return(s)
  PROVE  InTime'
<1>1. PICK next \in {"serve", "failed", "done"} : step' = [step EXCEPT ![s] = next]
  BY DEF Reuse, Connected, DialEnds, Return, Serve, Goto
<1>2. Locked(s) /\ Unlock /\ UNCHANGED <<now, sweepAt>>
  BY DEF Reuse, Connected, DialEnds, Return, Serve, Typed, DialLocked
<1>3. /\ Started' \in Nat /\ Started' <= Started + ConnectionTimeout
      /\ DialInTime'
  <2>1. CASE Return(s)
    <3>1. step[s] = "return" /\ dialed' = dialed /\ now' = now
          /\ step' = [step EXCEPT ![s] = "done"]
      BY <2>1 DEF Return, Goto
    <3>2. Started' = Started /\ \A t \in Sessions : Dials(t)' <=> Dials(t)
      BY <3>1, NoDialStarts
    <3> QED BY <3>1, <3>2, StartedNow, PoolAssumption DEF InTime, DialInTime
  <2>2. CASE ~Return(s)
    <3>1. /\ Started' \in Nat /\ Started' <= Started + ConnectionTimeout
          /\ \A t \in Sessions : ~Dials(t)'
      BY <2>2, ServedStarts DEF InTime
    <3> QED BY <3>1 DEF DialInTime
  <2> QED BY <2>1, <2>2
<1>4. OnceQueued' /\ Turns'
  BY <1>2, <1>3, TaskKinds, TurnsMove DEF InTime
<1>5. \A t \in Tasks : Queued(t)' <=> Queued(t) /\ t # s
  BY <1>2, TaskKinds, Left DEF InTime
<1>6. OnlyWaiters'
  <2>1. ASSUME NEW t \in Sessions, Queued(t)' PROVE step'[t] \in {"lock", "dial", "return"}
    BY <1>1, <1>5, <2>1, TaskKinds, NotQueued DEF InTime, Typed, TypeOK
  <2> QED BY <2>1 DEF OnlyWaiters, Queued
<1>7. AllQueued'
  BY <1>1, <1>5, TaskKinds DEF InTime, AllQueued, Typed, TypeOK
<1>8. SweeperInTime'
  <2>1. since'[Sweeper] = since[Sweeper] /\ behind'[Sweeper] = behind[Sweeper]
    BY <1>2, TaskKinds, QueueMoves DEF Typed, TypeOK
  <2> QED BY <1>2, <1>5, <2>1, TaskKinds DEF InTime, SweeperInTime
<1> QED BY <1>3, <1>4, <1>6, <1>7, <1>8 DEF InTime

\* The steps that leave the lock alone, while no clock moves.
LEMMA QuietInTime ==
  ASSUME Typed, Typed', InTime,
         \/ \E s \in Sessions :
              Dial(s) \/ SessionEnds(s) \/ SessionEndsReusable(s) \/ RedialRefused(s)
         \/ UNCHANGED vars
         \/ \E entry \in pool : BackendCloses(entry)
  PROVE  InTime'
<1>1. UNCHANGED <<now, sweepAt, lock, since, behind>>
  BY DEF Dial, SessionEnds, SessionEndsReusable, RedialRefused, vars, BackendCloses
<1>2. \A t \in Sessions :
        step'[t] \in {"lock", "dial", "return"} <=> step[t] \in {"lock", "dial", "return"}
  BY DEF Dial, SessionEnds, SessionEndsReusable, RedialRefused, vars, BackendCloses, Goto,
         Typed, TypeOK
<1>3. Started' = Started /\ DialInTime'
  <2>1. CASE \E s \in Sessions : Dial(s)
    <3>1. PICK s \in Sessions : Dial(s)
      BY <2>1
    <3>2. Started' = Started /\ \A t \in Sessions : Dials(t)' => t = s
      BY <3>1, DialStartsNow
    <3>3. dialed'[s] = now /\ now \in Nat
      BY <3>1 DEF Dial, Typed, TypeOK
    <3> QED BY <1>1, <3>2, <3>3, PoolAssumption DEF DialInTime
  <2>2. CASE ~\E s \in Sessions : Dial(s)
    <3>1. /\ UNCHANGED <<now, dialed>>
          /\ \/ UNCHANGED step
             \/ \E s \in Sessions, next \in {"lock", "done", "redial", "return"} :
                  step' = [step EXCEPT ![s] = next] /\ step[s] # "dial"
      BY <2>2 DEF SessionEnds, SessionEndsReusable, RedialRefused, vars, BackendCloses, Goto
    <3>2. Started' = Started /\ \A t \in Sessions : Dials(t)' <=> Dials(t)
      BY <3>1, NoDialStarts
    <3> QED BY <3>1, <3>2 DEF InTime, DialInTime
  <2> QED BY <2>1, <2>2
<1>4. OnceQueued' /\ Turns' /\ \A t \in Tasks : Queued(t)' <=> Queued(t)
  BY <1>1, <1>3, TurnsStay DEF InTime
<1>5. OnlyWaiters' /\ AllQueued'
  <2>1. ASSUME NEW t \in Sessions, Queued(t)' PROVE step'[t] \in {"lock", "dial", "return"}
    BY <1>2, <1>4, <2>1, TaskKinds, NotQueued DEF InTime
  <2>2. OnlyWaiters'
    BY <2>1 DEF OnlyWaiters, Queued
  <2> QED BY <1>2, <1>4, <2>2, TaskKinds DEF InTime, AllQueued
<1>6. SweeperInTime'
  BY <1>1, <1>4, TaskKinds DEF InTime, SweeperInTime
<1> QED BY <1>3, <1>4, <1>5, <1>6 DEF InTime

LEMMA SweeperStepInTime ==
  ASSUME Typed, Typed', InTime, SweeperWakes \/ Sweep
  PROVE  InTime'
<1>1. UNCHANGED <<now, step, dialed>>
  BY DEF SweeperWakes, Sweep
<1>2. Started' = Started /\ \A t \in Sessions : Dials(t)' <=> Dials(t)
  BY <1>1, NoDialStarts
<1>3. DialInTime'
  BY <1>1, <1>2 DEF InTime, DialInTime
<1>4. now \in Nat /\ sweepAt \in Nat
  BY DEF Typed, TypeOK
<1>5. CASE SweeperWakes
  <2>1. Waits(Sweeper) /\ ~Queued(Sweeper) /\ now >= sweepAt /\ sweepAt' = sweepAt
    BY <1>5 DEF SweeperWakes, Queued
  <2>2. OnceQueued' /\ Turns'
    BY <1>2, <2>1, TaskKinds, TurnsJoin DEF InTime
  <2>3. \A t \in Tasks : Queued(t)' <=> Queued(t) \/ t = Sweeper
    BY <2>1, TaskKinds, Joined
  <2>4. OnlyWaiters'
    <3>1. ASSUME NEW t \in Sessions, Queued(t)' PROVE step'[t] \in {"lock", "dial", "return"}
      BY <1>1, <2>3, <3>1, TaskKinds, NotQueued DEF InTime
    <3> QED BY <3>1 DEF OnlyWaiters, Queued
  <2>5. AllQueued'
    BY <1>1, <2>3, TaskKinds DEF InTime, AllQueued
  <2>6. sweepAt = now /\ since'[Sweeper] = now
    BY <1>4, <2>1, TaskKinds DEF InTime, SweeperInTime, Waits, Typed, TypeOK
  <2>7. SweeperInTime'
    BY <1>1, <1>4, <2>1, <2>3, <2>6, TaskKinds, PoolAssumption DEF SweeperInTime
  <2> QED BY <1>3, <2>2, <2>4, <2>5, <2>7 DEF InTime
<1>6. CASE Sweep
  <2>1. Locked(Sweeper) /\ Unlock /\ sweepAt' = now + CleanupInterval
    BY <1>6 DEF Sweep
  <2>2. Started' \in Nat /\ Started' <= Started + ConnectionTimeout
    BY <1>2, StartedNow, PoolAssumption DEF InTime
  <2>3. OnceQueued' /\ Turns'
    BY <2>1, <2>2, TaskKinds, TurnsMove DEF InTime
  <2>4. \A t \in Tasks : Queued(t)' <=> Queued(t) /\ t # Sweeper
    BY <2>1, TaskKinds, Left DEF InTime
  <2>5. OnlyWaiters'
    <3>1. ASSUME NEW t \in Sessions, Queued(t)' PROVE step'[t] \in {"lock", "dial", "return"}
      BY <1>1, <2>4, <3>1, TaskKinds, NotQueued DEF InTime
    <3> QED BY <3>1 DEF OnlyWaiters, Queued
  <2>6. AllQueued'
    BY <1>1, <2>4, TaskKinds DEF InTime, AllQueued
  <2>7. behind'[Sweeper] = 0
    BY <2>1, TaskKinds, QueueMoves DEF Typed, TypeOK
  <2>8. SweeperInTime'
    BY <1>1, <1>4, <2>1, <2>4, <2>7, TaskKinds, PoolAssumption DEF SweeperInTime
  <2> QED BY <1>3, <2>3, <2>5, <2>6, <2>8 DEF InTime
<1> QED BY <1>5, <1>6

LEMMA TickInTime ==
  ASSUME Typed, Typed', InTime, Tick
  PROVE  InTime'
<1>1. /\ now' = now + 1 /\ now \in Nat
      /\ UNCHANGED <<lock, step, dialed, sweepAt, since, behind>>
  BY DEF Tick, Typed, TypeOK
<1>2. DialInTime'
  <2>1. ASSUME NEW t \in Sessions, Dials(t)'
        PROVE  dialed'[t] <= now' /\ now' <= dialed'[t] + ConnectionTimeout
    <3>1. Dials(t) /\ step[t] = "dial" /\ dialed[t] \in Nat
      BY <2>1, <1>1 DEF Dials, Typed, TypeOK
    <3>2. ~(now - dialed[t] >= ConnectionTimeout)
      BY <3>1 DEF Tick, CanRun, DialExpired
    <3>3. dialed[t] <= now
      BY <3>1 DEF InTime, DialInTime
    <3> QED BY <1>1, <3>1, <3>2, <3>3, PoolAssumption
  <2> QED BY <2>1 DEF DialInTime
<1>3. OnceQueued' /\ Turns' /\ \A t \in Tasks : Queued(t)' <=> Queued(t)
  BY <1>1, TickStarts, TurnsStay DEF InTime
<1>4. OnlyWaiters' /\ AllQueued'
  BY <1>1 DEF InTime, OnlyWaiters, AllQueued, Queued
<1>5. SweeperInTime'
  <2>1. ~Queued(Sweeper) => now < sweepAt
    BY <1>1 DEF Tick, CanRun, Queued, Typed, TypeOK
  <2>2. sweepAt \in Nat
    BY DEF Typed, TypeOK
  <2> QED BY <1>1, <1>3, <2>1, <2>2, TaskKinds, PoolAssumption DEF InTime, SweeperInTime
<1> QED BY <1>2, <1>3, <1>4, <1>5 DEF InTime

LEMMA InitInTime == Init => InTime
<1> SUFFICES ASSUME Init PROVE InTime
  OBVIOUS
<1>1. DOMAIN lock = {} /\ \A s \in Sessions : step[s] = "new"
  BY DEF Init
<1>2. DialInTime /\ OnceQueued /\ OnlyWaiters /\ AllQueued /\ Turns
  BY <1>1 DEF DialInTime, Dials, OnceQueued, OnlyWaiters, AllQueued, Turns
<1>3. SweeperInTime
  BY <1>1, TaskKinds, PoolAssumption DEF Init, SweeperInTime, Queued
<1> QED BY <1>2, <1>3 DEF InTime

LEMMA NextInTime == ASSUME Typed, Typed', InTime, [Next]_vars PROVE InTime'
<1>1. ASSUME NEW s \in Sessions,
             \/ Ask(s) \/ Reuse(s) \/ Dial(s) \/ Connected(s)
             \/ step[s] = "dial" /\ DialEnds(s)
             \/ SessionEnds(s) \/ SessionEndsReusable(s)
             \/ Redialed(s) \/ RedialRefused(s) \/ Return(s)
      PROVE  InTime'
  <2>1. CASE Ask(s) \/ Redialed(s)
    BY <2>1, JoinInTime
  <2>2. CASE Reuse(s) \/ Connected(s) \/ (step[s] = "dial" /\ DialEnds(s)) \/ Return(s)
    BY <2>2, LeaveInTime
  <2>3. CASE Dial(s) \/ SessionEnds(s) \/ SessionEndsReusable(s) \/ RedialRefused(s)
    BY <2>3, QuietInTime
  <2> QED BY <1>1, <2>1, <2>2, <2>3
<1>2. CASE SweeperWakes \/ Sweep \/ Tick
  BY <1>2, SweeperStepInTime, TickInTime
<1>3. CASE UNCHANGED vars \/ \E entry \in pool : BackendCloses(entry)
  BY <1>3, QuietInTime
<1> QED BY Steps, <1>1, <1>2, <1>3

\* Whoever is in the queue has the lock within a timeout for each task that was
\* there before it; the first one has it now.
LEMMA TurnComes ==
  ASSUME Typed, InTime, NEW t \in Tasks, Queued(t)
  PROVE  /\ now <= Due(t) + ConnectionTimeout
         /\ lock[1] # t => now <= Due(t)
         /\ Started <= Due(t)
<1>1. PICK i \in DOMAIN lock : lock[i] = t
  BY DEF Queued
<1>2. i \in Nat /\ i >= 1
  BY DEF Typed, TypeOK
<1>3. Started + Timeouts(i - 1) <= Due(t)
  BY <1>1 DEF InTime, Turns
<1>4. Started \in Nat /\ now \in Nat /\ now <= Started + ConnectionTimeout
  BY StartedNow DEF InTime
<1>5. Due(t) \in Nat
  BY DueNat
<1>6. i - 1 \in Nat /\ Timeouts(i - 1) \in Nat
  BY <1>2, TimeoutSums
<1>7. lock[1] # t => Timeouts(i - 1) >= ConnectionTimeout
  <2> SUFFICES ASSUME lock[1] # t PROVE Timeouts(i - 1) >= ConnectionTimeout
    OBVIOUS
  <2>1. i - 2 \in Nat /\ (i - 2) + 1 = i - 1
    BY <1>1, <1>2
  <2>2. Timeouts(i - 2) \in Nat /\ Timeouts((i - 2) + 1) = Timeouts(i - 2) + ConnectionTimeout
    BY <2>1, TimeoutSums
  <2> QED BY <2>1, <2>2, PoolAssumption
<1> QED BY <1>3, <1>4, <1>5, <1>6, <1>7, PoolAssumption

LEMMA NotDialing ==
  ASSUME Typed, InTime, NEW t \in Tasks, Queued(t), lock[1] = t,
         t \in Sessions => step[t] # "dial"
  PROVE  now <= Due(t)
<1>1. \A s \in Sessions : ~Dials(s)
  BY TaskKinds DEF Typed, TypeOK, DialLocked, Dials, Locked
<1> QED BY <1>1, OneDials, TurnComes

\* However many sessions come, one has a connection, or an error, within a timeout
\* for each task that was in the queue when one came, and one's own.
THEOREM PoolWaitBounded == Spec => []WaitBounded
<1> DEFINE Inv == Typed /\ InTime
<1>1. Init => Inv
  BY InitTyped, InitInTime
<1>2. Inv /\ [Next]_vars => Inv'
  <2> SUFFICES ASSUME Inv, [Next]_vars PROVE Inv'
    OBVIOUS
  <2>1. Typed'
    BY NextTyped
  <2> QED BY <2>1, NextInTime
<1>3. Inv => WaitBounded
  <2> SUFFICES ASSUME Inv, NEW s \in Sessions, step[s] \in {"lock", "dial", "return"}
               PROVE  now <= since[s] + Timeouts(behind[s] + 1)
    BY DEF WaitBounded
  <2>1. s \in Tasks /\ Queued(s)
    BY TaskKinds DEF InTime, AllQueued
  <2>2. since[s] \in Nat /\ behind[s] \in Nat /\ now \in Nat
    BY <2>1 DEF Typed, TypeOK
  <2>3. Timeouts(behind[s]) \in Nat
        /\ Timeouts(behind[s] + 1) = Timeouts(behind[s]) + ConnectionTimeout
    BY <2>2, TimeoutSums
  <2>4. now <= since[s] + Timeouts(behind[s]) + ConnectionTimeout
    BY <2>1, TurnComes DEF Due
  <2> QED BY <2>2, <2>3, <2>4, PoolAssumption
<1> QED BY <1>1, <1>2, <1>3, PTL DEF Spec

-----------------------------------------------------------------------------
(* What is in the pool is neither kept nor handed out for too long.        *)

\* An entry comes only from a session that returns it, in time.
LEMMA Enters ==
  ASSUME [Next]_vars, NEW entry \in pool', entry \notin pool
  PROVE  /\ sweepAt' = sweepAt
         /\ \E s \in Sessions : Return(s) /\ entry = PutAway(s)
<1>1. PICK s \in Sessions : Return(s)
  BY Steps DEF Ask, Reuse, Dial, Connected, DialEnds, SessionEnds, SessionEndsReusable,
               Redialed, RedialRefused, SweeperWakes, Sweep, Fit, Tick, vars, BackendCloses
<1> QED BY <1>1 DEF Return, PutAway

LEMMA SweptStays ==
  ASSUME Typed, SweeperInTime, SweptInTime, [Next]_vars
  PROVE  SweptInTime'
<1> SUFFICES ASSUME MaxIdle > 0, NEW entry \in pool'
             PROVE  sweepAt' < entry.lastUsed + MaxIdle + CleanupInterval
  BY DEF SweptInTime
<1>1. CASE Sweep
  <2>1. entry \in pool /\ now - entry.lastUsed < MaxIdle /\ sweepAt' = now + CleanupInterval
    BY <1>1 DEF Sweep, Fit, Age
  <2>2. entry.lastUsed \in Nat /\ now \in Nat
    BY <2>1 DEF Typed, TypeOK, Entry
  <2> QED BY <2>1, <2>2, PoolAssumption
<1>2. CASE entry \in pool /\ sweepAt' = sweepAt
  BY <1>2 DEF SweptInTime
<1>3. CASE entry \notin pool
  <2>1. entry.lastUsed = now /\ sweepAt' = sweepAt
    BY <1>3, Enters DEF PutAway
  <2>2. sweepAt <= now + CleanupInterval /\ sweepAt \in Nat /\ now \in Nat
    BY DEF SweeperInTime, Typed, TypeOK
  <2> QED BY <2>1, <2>2, PoolAssumption
<1>4. Sweep \/ sweepAt' = sweepAt
  BY Steps DEF Ask, Reuse, Dial, Connected, DialEnds, SessionEnds, SessionEndsReusable,
               Redialed, RedialRefused, Return, SweeperWakes, Tick, vars, BackendCloses
<1> QED BY <1>1, <1>2, <1>3, <1>4

\* An entry is closed by the first sweep after --pool-idle-timeout, which is late by
\* no more than the dials the sweeper queues behind.  A timeout of 0 would keep what
\* a sweep has just missed until the next.
THEOREM PoolNothingLingers == MaxIdle > 0 => (Spec => []NothingLingers)
<1> SUFFICES ASSUME MaxIdle > 0 PROVE Spec => []NothingLingers
  OBVIOUS
<1> DEFINE Inv == Typed /\ InTime /\ SweptInTime
<1>1. Init => Inv
  BY InitTyped, InitInTime DEF Init, SweptInTime
<1>2. Inv /\ [Next]_vars => Inv'
  <2> SUFFICES ASSUME Inv, [Next]_vars PROVE Inv'
    OBVIOUS
  <2>1. Typed'
    BY NextTyped
  <2>2. SweeperInTime
    BY DEF InTime
  <2> QED BY <2>1, <2>2, NextInTime, SweptStays
<1>3. Inv => NothingLingers
  <2> SUFFICES ASSUME Inv, NEW entry \in pool
               PROVE  now - entry.lastUsed
                        < MaxIdle + CleanupInterval + Timeouts(behind[Sweeper])
    BY DEF NothingLingers, Age
  <2>1. now \in Nat /\ sweepAt \in Nat /\ entry.lastUsed \in Nat /\ behind[Sweeper] \in Nat
    BY TaskKinds DEF Typed, TypeOK, Entry
  <2>2. Timeouts(behind[Sweeper]) \in Nat /\ Timeouts(0) = 0
    BY <2>1, TimeoutSums
  <2>3. now <= sweepAt + Timeouts(behind[Sweeper])
    <3>1. CASE Queued(Sweeper)
      <4>1. now <= Due(Sweeper)
        BY <3>1, TaskKinds, TurnComes, NotDialing
      <4> QED BY <3>1, <4>1 DEF InTime, SweeperInTime, Due
    <3>2. CASE ~Queued(Sweeper)
      BY <2>1, <2>2, <3>2 DEF InTime, SweeperInTime
    <3> QED BY <3>1, <3>2
  <2>4. sweepAt < entry.lastUsed + MaxIdle + CleanupInterval
    BY DEF SweptInTime
  <2> QED BY <2>1, <2>2, <2>3, <2>4, PoolAssumption
<1> QED BY <1>1, <1>2, <1>3, PTL DEF Spec

LEMMA PutAwayStays ==
  ASSUME Typed, InTime, PutAwaySoon, [Next]_vars
  PROVE  PutAwaySoon'
<1> SUFFICES ASSUME NEW entry \in pool', entry \notin pool
             PROVE  entry.lastUsed <= entry.opened + Timeouts(entry.behind)
  BY DEF PutAwaySoon, Timeouts
<1>1. PICK s \in Sessions : Return(s) /\ entry = PutAway(s)
  BY Enters
<1>2. step[s] = "return" /\ Locked(s) /\ s \in Tasks
  BY <1>1, TaskKinds DEF Return
<1>3. Queued(s) /\ lock[1] = s
  BY <1>2 DEF InTime, AllQueued, Locked, Typed, TypeOK
<1>4. now <= Due(s)
  BY <1>2, <1>3, NotDialing
<1> QED BY <1>1, <1>4 DEF PutAway, Due

LEMMA DeadStay ==
  ASSUME Typed, DeadLong, [Next]_vars
  PROVE  DeadLong'
<1> SUFFICES ASSUME NEW entry \in dead' PROVE entry.opened + BackendKeeps <= now'
  BY DEF DeadLong
<1>1. entry \in dead \/ (entry \in pool /\ BackendCloses(entry))
  BY Steps DEF Ask, Reuse, Dial, Connected, DialEnds, SessionEnds, SessionEndsReusable,
               Redialed, RedialRefused, Return, SweeperWakes, Sweep, Tick, vars, BackendCloses
<1>2. entry.opened \in Nat /\ now \in Nat
  BY <1>1 DEF Typed, TypeOK, Entry
<1>3. now' = now \/ now' = now + 1
  BY Steps DEF Ask, Reuse, Dial, Connected, DialEnds, SessionEnds, SessionEndsReusable,
               Redialed, RedialRefused, Return, SweeperWakes, Sweep, Tick, vars, BackendCloses
<1>4. entry.opened + BackendKeeps <= now
  BY <1>1, <1>2, PoolAssumption DEF DeadLong, BackendCloses
<1> QED BY <1>2, <1>3, <1>4, PoolAssumption

\* What get_connection finds young enough was made ReuseAge and its session's wait
\* ago at most: the crux.
LEMMA YoungSilent ==
  ASSUME Typed, PutAwaySoon, DeadLong, NEW entry \in Young
  PROVE  /\ now - entry.opened < ReuseAge + Timeouts(entry.behind)
         /\ entry \in dead => BackendKeeps < ReuseAge + Timeouts(entry.behind)
<1>1. entry \in pool /\ now - entry.lastUsed < ReuseAge
  BY DEF Young, Age
<1>2. /\ entry.lastUsed \in Nat /\ entry.opened \in Nat /\ entry.behind \in Nat
      /\ now \in Nat
  BY <1>1 DEF Typed, TypeOK, Entry
<1>3. Timeouts(entry.behind) \in Nat
  BY <1>2, TimeoutSums
<1>4. entry.lastUsed <= entry.opened + Timeouts(entry.behind)
  BY <1>1 DEF PutAwaySoon
<1>5. entry \in dead => entry.opened + BackendKeeps <= now
  BY DEF DeadLong
<1> QED BY <1>1, <1>2, <1>3, <1>4, <1>5, PoolAssumption

LEMMA HandsYoung ==
  ASSUME Apart, PutAwaySoon, DeadLong, [Next]_vars PROVE HandsOutYoung
<1> SUFFICES ASSUME NEW s \in Sessions, NEW entry \in pool,
                    step[s] = "lock", holds'[s] = entry.conn
             PROVE  entry \in Young
  BY YoungSilent DEF HandsOutYoung, Apart
<1>1. holds[s] = None /\ entry.conn # None
  BY NoneAssumption DEF Apart, HoldersServe, Typed, TypeOK, Entry
<1>2. Reuse(s)
  BY <1>1, Steps DEF Apart, Typed, TypeOK, Ask, Reuse, Dial, Connected, Serve, DialEnds,
       SessionEnds, SessionEndsReusable, Redialed, RedialRefused, Return, Closes,
       SweeperWakes, Sweep, Tick, vars, BackendCloses, Goto
<1>3. PICK other \in Young : Serve(s, other.conn)
  BY <1>2 DEF Reuse
<1>4. other \in pool /\ other.conn = entry.conn
  BY <1>3 DEF Serve, Young, Apart, Typed, TypeOK
<1> QED BY <1>3, <1>4 DEF Apart, PooledOnce

\* Whatever the backend's keep-alive, and however many sessions there have been, a
\* connection that is handed out has been silent for less than ReuseAge and the wait
\* of the session that returned it; one the backend has closed is handed out only if
\* it keeps connections for less than that.
THEOREM PoolNeverHandsStale == Spec => NeverHandedStale
<1> DEFINE Inv == Apart /\ InTime /\ PutAwaySoon /\ DeadLong
<1>1. Init => Inv
  BY InitApart, InitInTime DEF Init, PutAwaySoon, DeadLong
<1>2. Inv /\ [Next]_vars => Inv'
  <2> SUFFICES ASSUME Inv, [Next]_vars PROVE Inv'
    OBVIOUS
  <2>1. Apart'
    BY NextApart
  <2>2. Typed /\ Typed'
    BY <2>1 DEF Apart
  <2> QED BY <2>1, <2>2, NextInTime, PutAwayStays, DeadStay
<1>3. Inv /\ [Next]_vars => [HandsOutYoung]_vars
  BY HandsYoung
<1> QED BY <1>1, <1>2, <1>3, PTL DEF Spec, NeverHandedStale
=============================================================================
