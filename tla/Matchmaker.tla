----------------------------- MODULE Matchmaker -----------------------------
(***************************************************************************)
(* What the tunnel promises its users, and nothing of how: README.md       *)
(* "Architecture" 1-4.  Each registered session serves the users of its    *)
(* public port one after the other; a user it serves is either joined to   *)
(* the callback that was made for that user, or turned away.               *)
(***************************************************************************)
CONSTANTS Sessions, Publics, None

VARIABLES user,      \* what became of each user
          at,        \* the session whose port the user reached
          desk,      \* the user each session is serving
          answered,  \* the users the tunnel's client has called back for
          partner    \* the callback each user was joined to

vars == <<user, at, desk, answered, partner>>

Init ==
  /\ user = [p \in Publics |-> "away"]
  /\ at = [p \in Publics |-> None]
  /\ desk = [s \in Sessions |-> None]
  /\ answered = {}
  /\ partner = [p \in Publics |-> None]

Arrive(p, s) ==
  /\ user[p] = "away"
  /\ user' = [user EXCEPT ![p] = "queued"]
  /\ at' = [at EXCEPT ![p] = s]
  /\ UNCHANGED <<desk, answered, partner>>

\* One user at a time.
Serve(p, s) ==
  /\ user[p] = "queued" /\ at[p] = s /\ desk[s] = None
  /\ user' = [user EXCEPT ![p] = "serving"]
  /\ desk' = [desk EXCEPT ![s] = p]
  /\ UNCHANGED <<at, answered, partner>>

\* The client calls back only for a user the server has begun to serve, though
\* perhaps after it gave that user up.
Answer(p) ==
  /\ user[p] \notin {"away", "queued"}
  /\ answered' = answered \cup {p}
  /\ UNCHANGED <<user, at, desk, partner>>

\* Joined, and to the user's own callback.
Join(p, s) ==
  /\ desk[s] = p /\ p \in answered
  /\ user' = [user EXCEPT ![p] = "proxied"]
  /\ partner' = [partner EXCEPT ![p] = p]
  /\ desk' = [desk EXCEPT ![s] = None]
  /\ UNCHANGED <<at, answered>>

TurnAway(p, s) ==
  /\ desk[s] = p
  /\ user' = [user EXCEPT ![p] = "dropped"]
  /\ desk' = [desk EXCEPT ![s] = None]
  /\ UNCHANGED <<at, answered, partner>>

\* The session ends, between two users: those who still queue are turned away.
Close(s) ==
  /\ desk[s] = None
  /\ user' = [p \in Publics |-> IF user[p] = "queued" /\ at[p] = s
                                  THEN "dropped" ELSE user[p]]
  /\ UNCHANGED <<at, desk, answered, partner>>

Next ==
  \/ \E p \in Publics : Answer(p)
  \/ \E s \in Sessions : Close(s)
  \/ \E p \in Publics : \E s \in Sessions :
       Arrive(p, s) \/ Serve(p, s) \/ Join(p, s) \/ TurnAway(p, s)

Spec == Init /\ [][Next]_vars
=============================================================================
