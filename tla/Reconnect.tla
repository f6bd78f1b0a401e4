------------------------------ MODULE Reconnect ------------------------------
(***************************************************************************)
(* The client's main loop (bin/client.rs): attempts, exponential backoff,  *)
(* the limit on attempts, and shutdown by a signal, with as much of        *)
(* connect_and_serve as decides how an attempt ends.  One step of the wait *)
(* is one second.  What an attempt meets at the server is left to Rejoin.  *)
(***************************************************************************)
EXTENDS Naturals

CONSTANTS ReconnectInterval,      \* --reconnect-interval, seconds; 0: never
          Limits,                 \* the values of --max-reconnect; 0: no limit
          BackoffCap,             \* 300 s
          CountBound,             \* bound: where reconnectCount and attempts stand still
          MaxLines                \* bound: lines one session receives

ASSUME ReconnectAssumption ==
  /\ ReconnectInterval \in Nat
  /\ Limits \subseteq Nat
  /\ BackoffCap \in Nat
  /\ CountBound \in Nat /\ \A n \in Limits : n < CountBound
  /\ MaxLines \in Nat

VARIABLES loop,             \* where the main loop is
          running,          \* the flag the signal handler clears
          reconnectCount,   \* reconnect_count
          backoffTime,      \* backoff_time
          waited,           \* seconds of the current wait that are over
          pending,          \* a line has come that read_line has not returned
          lines,            \* lines the current session was sent
          limit,            \* args.max_reconnect_attempts; it never changes
          attempts          \* history: how often connect_and_serve was called

clientVars == <<loop, running, reconnectCount, backoffTime, waited, pending,
                lines, limit, attempts>>

Lesser(a, b) == IF a < b THEN a ELSE b

ClientTypeOK ==
  /\ loop \in {"check", "connect", "serving", "decide", "wait", "exited"}
  /\ running \in BOOLEAN
  /\ reconnectCount \in Nat
  /\ backoffTime \in Nat
  /\ waited \in 0 .. backoffTime
  /\ pending \in BOOLEAN
  /\ lines \in Nat
  /\ limit \in Nat
  /\ attempts \in 0 .. CountBound

ClientInit ==
  /\ loop = "check"
  /\ running = TRUE
  /\ reconnectCount = 0
  /\ backoffTime = ReconnectInterval
  /\ waited = 0
  /\ pending = FALSE
  /\ lines = 0
  /\ limit \in Limits
  /\ attempts = 0

\* SIGINT or SIGTERM.
Signal ==
  /\ running
  /\ running' = FALSE
  /\ UNCHANGED <<loop, reconnectCount, backoffTime, waited, pending, lines, limit, attempts>>

LimitReachedEarly == limit > 0 /\ reconnectCount + 1 >= limit
LimitReached == limit > 0 /\ reconnectCount >= limit

\* The head of the loop: the flag, then the limit.
Check ==
  /\ loop = "check"
  /\ IF ~running \/ LimitReached
       THEN loop' = "exited" /\ UNCHANGED attempts
       ELSE loop' = "connect" /\ attempts' = Lesser(attempts + 1, CountBound)
  /\ UNCHANGED <<running, reconnectCount, backoffTime, waited, pending, lines, limit>>

\* connect_and_serve returned Err.
CountError == reconnectCount' = Lesser(reconnectCount + 1, CountBound)
ErrorBackoffUncapped ==
  /\ CountError
  /\ backoffTime' = IF reconnectCount + 1 > 1 THEN backoffTime * 2 ELSE backoffTime
ErrorBackoffAtOnce ==
  /\ CountError
  /\ backoffTime' = Lesser(backoffTime * 2, BackoffCap)
ErrorBackoff ==
  /\ CountError
  /\ backoffTime' = IF reconnectCount + 1 > 1
                      THEN Lesser(backoffTime * 2, BackoffCap) ELSE backoffTime

EndSession == pending' = FALSE /\ lines' = 0

Fails ==
  /\ loop' = "decide"
  /\ ErrorBackoff
  /\ EndSession
  /\ UNCHANGED <<running, waited, limit, attempts>>

\* The connection is refused or not made in time.
ConnectFails == loop = "connect" /\ Fails

Registers ==
  /\ loop = "connect"
  /\ loop' = "serving"
  /\ UNCHANGED <<running, reconnectCount, backoffTime, waited, pending, lines, limit, attempts>>

\* The server writes READY, CONNECT or any other line within the second.
LineArrives ==
  /\ loop = "serving" /\ ~pending
  /\ lines < MaxLines
  /\ pending' = TRUE
  /\ lines' = lines + 1
  /\ UNCHANGED <<loop, running, reconnectCount, backoffTime, waited, limit, attempts>>

\* The line is dealt with, and the flag is not looked at.
ReadsLine ==
  /\ loop = "serving" /\ pending
  /\ pending' = FALSE
  /\ UNCHANGED <<loop, running, reconnectCount, backoffTime, waited, lines, limit, attempts>>

\* The server closes the control connection, or reading it fails.
SessionFails == loop = "serving" /\ Fails

\* A second without a line: only here is the flag seen, and Ok returned.
ReadTimeout ==
  /\ loop = "serving" /\ ~running /\ ~pending
  /\ loop' = "decide"
  /\ backoffTime' = ReconnectInterval
  /\ reconnectCount' = 0
  /\ EndSession
  /\ UNCHANGED <<running, waited, limit, attempts>>

\* After an attempt: shutdown, or no reconnection, or a wait.
Decide ==
  /\ loop = "decide"
  /\ loop' = IF ~running \/ ReconnectInterval = 0 THEN "exited" ELSE "wait"
  /\ waited' = 0
  /\ UNCHANGED <<running, reconnectCount, backoffTime, pending, lines, limit, attempts>>

WaitSecondTooMany ==
  /\ loop = "wait" /\ running /\ waited <= backoffTime
  /\ waited' = waited + 1
  /\ UNCHANGED <<loop, running, reconnectCount, backoffTime, pending, lines, limit, attempts>>
WaitSecond ==
  /\ loop = "wait" /\ running /\ waited < backoffTime
  /\ waited' = waited + 1
  /\ UNCHANGED <<loop, running, reconnectCount, backoffTime, pending, lines, limit, attempts>>

WaitEndsOnlyInTime ==
  /\ loop = "wait"
  /\ waited = backoffTime
  /\ loop' = IF running THEN "check" ELSE "exited"
  /\ waited' = 0
  /\ UNCHANGED <<running, reconnectCount, backoffTime, pending, lines, limit, attempts>>
WaitEnds ==
  /\ loop = "wait"
  /\ ~running \/ waited = backoffTime
  /\ loop' = IF running THEN "check" ELSE "exited"
  /\ waited' = 0
  /\ UNCHANGED <<running, reconnectCount, backoffTime, pending, lines, limit, attempts>>

\* The steps of the loop that do not depend on the server.
LoopStep == Check \/ Decide \/ ReadsLine \/ WaitEnds

-----------------------------------------------------------------------------
TwoTo[n \in Nat] == IF n = 0 THEN 1 ELSE 2 * TwoTo[n - 1]

\* The wait is the interval, doubled for every error in a row after the first,
\* up to the cap: no path through the loop forgets or repeats a doubling.
BackoffOfCount ==
  LET doublings == IF reconnectCount = 0 THEN 0 ELSE reconnectCount - 1 IN
    ReconnectInterval <= BackoffCap /\ reconnectCount < CountBound =>
      backoffTime = Lesser(ReconnectInterval * TwoTo[doublings], BackoffCap)

\* A client gives up because of --max-reconnect and nothing else, after exactly that
\* many attempts over its whole life, the first and those that served for days
\* included: connect_and_serve returns Ok, which resets the count, only to a client
\* that is stopping.
GaveUp == loop = "exited" /\ running /\ ReconnectInterval > 0
GivesUpAtLimit ==
  /\ limit > 0 => attempts <= limit
  /\ GaveUp => limit > 0 /\ attempts = limit
=============================================================================
