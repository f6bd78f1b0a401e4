-------------------------------- MODULE Pool --------------------------------
(***************************************************************************)
(* The client's pool of connections to its backend (client/connection.rs), *)
(* the sessions that take from it and return to it                         *)
(* (client/handlers/backend.rs), and the task that sweeps it.  The pool is *)
(* behind one tokio mutex, which serves its waiters in turn; a session     *)
(* keeps it locked while it dials the backend.                             *)
(***************************************************************************)
EXTENDS Naturals, Sequences, FiniteSets

CONSTANTS Sessions,            \* calls of handle_backend_connection
          Sweeper,             \* the task spawned by connect_and_serve
          None,
          ConnectionTimeout,   \* --connection-timeout
          ReuseAge,            \* 30 s: an older entry is not handed out
          MaxIdle,             \* --pool-idle-timeout
          MaxPoolSize,         \* --max-pool-size
          CleanupInterval,     \* 60 s between two sweeps
          BackendKeeps,        \* how long the backend keeps a silent connection
          MaxTime              \* bound: past it, the clock runs only for timers

ASSUME PoolAssumption ==
  /\ Sweeper \notin Sessions
  /\ ConnectionTimeout \in Nat
  /\ ReuseAge \in Nat
  /\ MaxIdle \in Nat
  /\ MaxPoolSize \in Nat
  /\ CleanupInterval \in Nat
  /\ BackendKeeps \in Nat
  /\ MaxTime \in Nat

\* A session makes at most two connections: one to use, and a fresh one for the
\* pool when its own can be replaced.
Conns == [by : Sessions, kind : {"own", "fresh"}]
Own(s)   == [by |-> s, kind |-> "own"]
Fresh(s) == [by |-> s, kind |-> "fresh"]

ASSUME NoneAssumption == None \notin Conns

VARIABLES now,      \* the clock
          lock,     \* the mutex: its holder, then its waiters in turn
          pool,     \* the entries for the backend's port: connection, last_used;
                    \* the Vec has them in the order of last_used
          step,     \* where each session is
          holds,    \* the backend connection each session holds
          dialed,   \* when it began to dial
          sweepAt,  \* when the sweeper wakes
          since,    \* history: when each task in the queue joined it
          behind,   \* history: and how many were there before it
          used,     \* connections that have served a session
          dead      \* entries whose connection the backend has closed

Tasks == Sessions \cup {Sweeper}

vars == <<now, lock, pool, step, holds, dialed, sweepAt, since, behind, used, dead>>

\* opened and behind are history: when the connection was made, which is when its
\* session queued to return it, and how many were there before.
Entry == [conn : Conns, lastUsed : Nat, opened : Nat, behind : Nat]

TypeOK ==
  /\ now \in Nat
  /\ lock \in Seq(Tasks)
  /\ pool \subseteq Entry
  /\ step \in [Sessions -> {"new", "lock", "dial", "serve", "redial", "return", "done", "failed"}]
  /\ holds \in [Sessions -> Conns \cup {None}]
  /\ dialed \in [Sessions -> Nat]
  /\ sweepAt \in Nat
  /\ since \in [Tasks -> Nat]
  /\ behind \in [Tasks -> Nat]
  /\ used \subseteq Conns
  /\ dead \subseteq pool

Init ==
  /\ now = 0
  /\ lock = <<>>
  /\ pool = {}
  /\ step = [s \in Sessions |-> "new"]
  /\ holds = [s \in Sessions |-> None]
  /\ dialed = [s \in Sessions |-> 0]
  /\ sweepAt = CleanupInterval
  /\ since = [t \in Tasks |-> 0]
  /\ behind = [t \in Tasks |-> 0]
  /\ used = {}
  /\ dead = {}

-----------------------------------------------------------------------------
Goto(s, next) == step' = [step EXCEPT ![s] = next]

\* The mutex: one joins the queue at its end, and leaves it from its head.
Waits(t) ==
  /\ lock' = Append(lock, t)
  /\ since' = [since EXCEPT ![t] = now]
  /\ behind' = [behind EXCEPT ![t] = Len(lock)]
Locked(t) == lock # <<>> /\ Head(lock) = t
Unlock ==
  /\ lock' = Tail(lock)
  /\ since' = [since EXCEPT ![Head(lock)] = 0]
  /\ behind' = [behind EXCEPT ![Head(lock)] = 0]

Age(entry) == now - entry.lastUsed

YoungByOption == {entry \in pool : Age(entry) < MaxIdle}
Young == {entry \in pool : Age(entry) < ReuseAge}

\* The session has its connection, and gives up the lock.
Serve(s, c) ==
  /\ Goto(s, "serve")
  /\ holds' = [holds EXCEPT ![s] = c]
  /\ used' = used \cup {c}
  /\ Unlock

\* handle_backend_connection: pool.lock().
Ask(s) ==
  /\ step[s] = "new"
  /\ Goto(s, "lock")
  /\ Waits(s)
  /\ UNCHANGED <<now, pool, holds, dialed, sweepAt, used, dead>>

\* get_connection: the first entry that is young enough ...
Reuse(s) ==
  /\ step[s] = "lock" /\ Locked(s)
  /\ \E entry \in Young :
       /\ \A other \in Young : entry.lastUsed <= other.lastUsed
       /\ pool' = pool \ {entry}
       /\ dead' = dead \ {entry}
       /\ Serve(s, entry.conn)
  /\ UNCHANGED <<now, dialed, sweepAt>>

\* ... or a new connection, with the pool still locked.
Dial(s) ==
  /\ step[s] = "lock" /\ Locked(s)
  /\ Young = {}
  /\ Goto(s, "dial")
  /\ dialed' = [dialed EXCEPT ![s] = now]
  /\ UNCHANGED <<now, lock, pool, holds, sweepAt, since, behind, used, dead>>

Connected(s) ==
  /\ step[s] = "dial"
  /\ Serve(s, Own(s))
  /\ dialed' = [dialed EXCEPT ![s] = 0]
  /\ UNCHANGED <<now, pool, sweepAt, dead>>

DialExpiredTwice(s) == step[s] = "dial" /\ now - dialed[s] >= 2 * ConnectionTimeout
DialNeverExpires(s) == step[s] = "dial" /\ ConnectionTimeout < 0
DialExpired(s) == step[s] = "dial" /\ now - dialed[s] >= ConnectionTimeout

DialEnds(s) ==
  /\ Goto(s, "failed")
  /\ Unlock
  /\ dialed' = [dialed EXCEPT ![s] = 0]
  /\ UNCHANGED <<now, pool, holds, sweepAt, used, dead>>

\* "Failed to connect to backend": refused, or not made in time.
DialRefused(s) == step[s] = "dial" /\ DialEnds(s)
DialTimeout(s) == DialExpired(s) /\ DialEnds(s)

\* Both copy tasks are over: the connection is closed.
Closes(s) == holds' = [holds EXCEPT ![s] = None]
SessionEnds(s) ==
  /\ step[s] = "serve"
  /\ Goto(s, "done")
  /\ Closes(s)
  /\ UNCHANGED <<now, lock, pool, dialed, sweepAt, since, behind, used, dead>>

\* HTTP, keep-alive, and no error: the split halves cannot be joined again, so a
\* fresh connection is made in its place, without a timeout and without the lock.
SessionEndsReturning(s) ==
  /\ step[s] = "serve"
  /\ Goto(s, "return")
  /\ Waits(s)
  /\ UNCHANGED <<now, pool, holds, dialed, sweepAt, used, dead>>
SessionEndsReusable(s) ==
  /\ step[s] = "serve"
  /\ Goto(s, "redial")
  /\ Closes(s)
  /\ UNCHANGED <<now, lock, pool, dialed, sweepAt, since, behind, used, dead>>

Redialed(s) ==
  /\ step[s] = "redial"
  /\ Goto(s, "return")
  /\ holds' = [holds EXCEPT ![s] = Fresh(s)]
  /\ Waits(s)
  /\ UNCHANGED <<now, pool, dialed, sweepAt, used, dead>>

RedialRefusedReturns(s) ==
  /\ step[s] = "redial"
  /\ Goto(s, "return")
  /\ Waits(s)
  /\ UNCHANGED <<now, pool, holds, dialed, sweepAt, used, dead>>
RedialRefused(s) ==
  /\ step[s] = "redial"
  /\ Goto(s, "done")
  /\ UNCHANGED <<now, lock, pool, holds, dialed, sweepAt, since, behind, used, dead>>

HasRoomForOneMore == Cardinality(pool) <= MaxPoolSize
HasRoom == Cardinality(pool) < MaxPoolSize

\* return_connection: a full pool drops it, whatever the age of its entries.
Return(s) ==
  /\ step[s] = "return" /\ Locked(s)
  /\ pool' = IF HasRoom
               THEN pool \cup {[conn |-> holds[s], lastUsed |-> now,
                               opened |-> since[s], behind |-> behind[s]]}
               ELSE pool
  /\ Closes(s)
  /\ Goto(s, "done")
  /\ Unlock
  /\ UNCHANGED <<now, dialed, sweepAt, used, dead>>

-----------------------------------------------------------------------------
(* The sweeper: sleep, lock, clean up.                                     *)

SweeperWakes ==
  /\ now >= sweepAt /\ \A i \in DOMAIN lock : lock[i] # Sweeper
  /\ Waits(Sweeper)
  /\ UNCHANGED <<now, pool, step, holds, dialed, sweepAt, used, dead>>

Fit == {entry \in pool : Age(entry) < MaxIdle}
SweepOnce ==
  /\ Locked(Sweeper)
  /\ pool' = Fit
  /\ dead' = dead \cap Fit
  /\ Unlock
  /\ sweepAt' = MaxTime + CleanupInterval
  /\ UNCHANGED <<now, step, holds, dialed, used>>
Sweep ==
  /\ Locked(Sweeper)
  /\ pool' = Fit
  /\ dead' = dead \cap Fit
  /\ Unlock
  /\ sweepAt' = now + CleanupInterval
  /\ UNCHANGED <<now, step, holds, dialed, used>>

-----------------------------------------------------------------------------
(* The backend, and time.                                                  *)

\* It closes a connection that has been silent long enough; nobody is told.
BackendCloses(entry) ==
  /\ entry \notin dead
  /\ now - entry.opened >= BackendKeeps
  /\ dead' = dead \cup {entry}
  /\ UNCHANGED <<now, lock, pool, step, holds, dialed, sweepAt, since, behind, used>>

\* What the runtime does at once: time passes only when nothing else can run.
Immediate(s) == Reuse(s) \/ Dial(s) \/ DialTimeout(s) \/ Return(s)
Runs == SweeperWakes \/ Sweep \/ \E s \in Sessions : Immediate(s)

\* What the backend and the users decide.
Outside(s) == \/ Ask(s) \/ Connected(s) \/ DialRefused(s)
              \/ SessionEnds(s) \/ SessionEndsReusable(s)
              \/ Redialed(s) \/ RedialRefused(s)

CanRun ==
  \/ lock # <<>> /\ ~\E s \in Sessions : step[s] = "dial"
  \/ \E s \in Sessions : DialExpired(s)
  \/ now >= sweepAt /\ \A i \in DOMAIN lock : lock[i] # Sweeper

TimerPending(s) == step[s] = "dial" /\ now - dialed[s] < ConnectionTimeout

Tick ==
  /\ ~CanRun
  /\ now < MaxTime \/ \E s \in Sessions : TimerPending(s)
  /\ now' = now + 1
  /\ UNCHANGED <<lock, pool, step, holds, dialed, sweepAt, since, behind, used, dead>>

\* The bound on time is reached, and the sessions are where they are.
Finished == now >= MaxTime /\ ~CanRun /\ UNCHANGED vars

Next ==
  \/ Runs \/ Tick \/ Finished
  \/ \E s \in Sessions : Outside(s)
  \/ \E entry \in pool : BackendCloses(entry)

\* The runtime runs what can run, and time goes on.  The backend need not answer.
Spec == Init /\ [][Next]_vars
FairSpec == Spec /\ WF_vars(Runs) /\ WF_vars(Tick)

-----------------------------------------------------------------------------
(* Safety.                                                                 *)

\* A backend connection serves one session at most, ever: what one user's request
\* left in it never reaches another user, and no two sessions share one.
NeverReused ==
  /\ \A entry \in pool : entry.conn \notin used
  /\ \A s, t \in Sessions : s # t /\ holds[s] # None => holds[s] # holds[t]

\* The pool keeps to --max-pool-size, though sessions return to it concurrently.
PoolBounded == Cardinality(pool) <= MaxPoolSize

\* One waits for a connection, or for its error, no longer than one timeout for
\* each task that was in the queue when one came, and one's own, whoever comes
\* after: a dial ends in time, and a return never dials with the pool locked.
Timeouts(n) == n * ConnectionTimeout
WaitBounded == \A s \in Sessions :
  step[s] \in {"lock", "dial", "return"} => now <= since[s] + Timeouts(behind[s] + 1)

\* An entry is closed by the first sweep after --pool-idle-timeout, and a sweep is
\* late by no more than the dials it queues behind.
NothingLingers == \A entry \in pool :
  Age(entry) < MaxIdle + CleanupInterval + Timeouts(behind[Sweeper])

\* get_connection asks nothing of a connection but that its entry is young, and an
\* entry is younger than its connection: that was made before its session queued
\* to return it.  However long that took, and whatever the backend's keep-alive,
\* what is handed out has been silent for no longer than ReuseAge and that wait,
\* so that it can be closed already only where the backend keeps it for less.
HandsOutYoung == \A s \in Sessions, entry \in pool :
  step[s] = "lock" /\ holds'[s] = entry.conn =>
    LET silent == ReuseAge + Timeouts(entry.behind)
    IN  /\ now - entry.opened < silent
        /\ entry \in dead => BackendKeeps < silent
NeverHandedStale == [][HandsOutYoung]_vars

-----------------------------------------------------------------------------
(* Liveness.                                                               *)

\* Every session gets a connection or an error, though a dial may hang in each of
\* those before it, and the replacement dial of one that is over for ever.
EverySessionAnswered ==
  \A s \in Sessions : step[s] \in {"lock", "dial"} ~> step[s] \notin {"lock", "dial"}
=============================================================================
