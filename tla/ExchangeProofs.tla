--------------------------- MODULE ExchangeProofs ---------------------------
(***************************************************************************)
(* What holds of Exchange for any requests and responses, however many     *)
(* units they have and however the programs' reads cut them.               *)
(***************************************************************************)
EXTENDS Exchange, TLAPS

USE DEF vars, messages, counts, Sides

-----------------------------------------------------------------------------
(* Types.  The server's first bytes come before anything else.             *)

FirstBytes == server = "first" => toClient = 0
Typed == TypeOK /\ FirstBytes

LEMMA Totals ==
  ASSUME NEW m \in Messages
  PROVE  Total(m) \in Nat /\ Total(m) >= HeadUnits
  BY DEF Messages, Total, HeadUnits

LEMMA InitTyped == Init => Typed
<1> SUFFICES ASSUME Init PROVE Typed
  OBVIOUS
<1>1. Total(request) \in Nat /\ Total(response) \in Nat
  BY Totals, ExchangeAssumption DEF Init, ExchangeAssumption
<1> QED BY <1>1 DEF Init, Typed, FirstBytes, TypeOK

\* Steps that pass units on, or leave every count alone.
LEMMA ServerTyped ==
  ASSUME Typed, ServerStep
  PROVE  Typed'
<1>0. Total(request) \in Nat /\ Total(response) \in Nat
  BY Totals, ExchangeAssumption DEF Typed, FirstBytes, TypeOK, ExchangeAssumption
<1> USE <1>0 DEF Typed, FirstBytes, TypeOK, StartsWaiting, SeesHead
<1>1. CASE ServerStarts
  BY <1>1 DEF ServerStarts
<1>2. CASE ServerReadsFirst
  BY <1>2 DEF ServerReadsFirst
<1>3. CASE ServerReadsMore
  BY <1>3 DEF ServerReadsMore
<1>4. CASE ServerEnds \/ ServerTimeout \/ ServerRelayEnds
  BY <1>4 DEF ServerEnds, ServerTimeout, ServerRelayEnds, ServerStops
<1>5. CASE ServerRelaysUp
  BY <1>5 DEF ServerRelaysUp
<1>6. CASE ServerRelaysDown
  BY <1>6 DEF ServerRelaysDown
<1> QED BY <1>1, <1>2, <1>3, <1>4, <1>5, <1>6 DEF ServerStep

LEMMA ClientTyped ==
  ASSUME Typed, ClientStep
  PROVE  Typed'
<1>0. Total(request) \in Nat /\ Total(response) \in Nat
  BY Totals, ExchangeAssumption DEF Typed, FirstBytes, TypeOK, ExchangeAssumption
<1> USE <1>0 DEF Typed, FirstBytes, TypeOK, StartsWaiting, SeesHead
<1>1. CASE Dial
  BY <1>1 DEF Dial
<1>2. CASE ClientStarts
  BY <1>2 DEF ClientStarts
<1>3. CASE ClientReadsFirst
  BY <1>3 DEF ClientReadsFirst
<1>4. CASE ClientReadsMore
  BY <1>4 DEF ClientReadsMore
<1>5. CASE ClientEnds \/ ClientTimeout
  BY <1>5 DEF ClientEnds, ClientTimeout, ClientStops
<1>6. CASE ClientRelaysUp
  BY <1>6 DEF ClientRelaysUp
<1>7. CASE ClientRelaysDown
  BY <1>7 DEF ClientRelaysDown
<1> QED BY <1>1, <1>2, <1>3, <1>4, <1>5, <1>6, <1>7 DEF ClientStep

LEMMA OutsideTyped ==
  ASSUME Typed, BackendWrites \/ BackendCloses \/ UserLeaves \/ Tick \/ Finished
                 \/ UNCHANGED vars
  PROVE  Typed'
<1>0. Total(request) \in Nat /\ Total(response) \in Nat
  BY Totals, ExchangeAssumption DEF Typed, FirstBytes, TypeOK, ExchangeAssumption
<1> USE <1>0 DEF Typed, FirstBytes, TypeOK
<1>1. CASE BackendWrites
  BY <1>1 DEF BackendWrites
<1>2. CASE BackendCloses \/ UserLeaves
  BY <1>2 DEF BackendCloses, UserLeaves
<1>3. CASE Tick
  BY <1>3 DEF Tick
<1>4. CASE Finished \/ UNCHANGED vars
  BY <1>4 DEF Finished
<1> QED BY <1>1, <1>2, <1>3, <1>4

LEMMA NextTyped == Typed /\ [Next]_vars => Typed'
  BY ServerTyped, ClientTyped, OutsideTyped DEF Next

\* Every variable keeps its type: no program passes on more than it was sent.
THEOREM ExchangeTypeCorrect == Spec => []TypeOK
<1>1. Spec => []Typed
  BY InitTyped, NextTyped, PTL DEF Spec
<1>2. Typed => TypeOK
  BY DEF Typed
<1> QED BY <1>1, <1>2, PTL

-----------------------------------------------------------------------------
(* Framed responses.  The backend answers nothing before the request is    *)
(* whole, so a server that has seen the response's head is never reset by  *)
(* a client that left some of the request unread.  The client, if nothing  *)
(* disturbed it, stops only at the end of the response or behind a server  *)
(* that had stopped before; and so does the server.                        *)

Framed == response.framing # "close" /\ response.lookalikes = {}

AnswersWhole == written > 0 => toBackend = Total(request)
DialFirst == client \in {"dial", "first"} => toBackend = 0
HeadRead == /\ "server" \in headSeen => toUser > 0
            /\ server \in {"first", "wait", "relay"} => "server" \notin headSeen
ClosedAtEnd == backend = "closed" => written = Total(response)
ClientAtEnd ==
  client = "over" /\ server # "over" /\ Undisturbed /\ Framed => toServer = Total(response)

Whole == Typed /\ AnswersWhole /\ DialFirst /\ HeadRead /\ ClosedAtEnd /\ ClientAtEnd
               /\ FramedWhole

\* The end that a framing marks is the end of the response.
LEMMA FramingIsEnd ==
  ASSUME TypeOK, Framed, NEW n \in 0 .. Total(response), FramingEnds(n)
  PROVE  n = Total(response)
<1>1. response \in Messages /\ (response.framing = "length" => response.body <= response.announced)
  BY ExchangeAssumption DEF TypeOK, ExchangeAssumption
<1>2. response.body \in Nat /\ response.announced \in Nat
  BY <1>1 DEF Messages
<1> QED
  BY <1>1, <1>2 DEF Framed, FramingEnds, LengthIn, LastChunkIn, Total, HeadUnits

LEMMA Lengths ==
  ASSUME TypeOK
  PROVE  /\ Total(request) \in Nat /\ Total(request) >= 2
         /\ Total(response) \in Nat /\ Total(response) >= 2
  BY Totals, ExchangeAssumption DEF TypeOK, ExchangeAssumption, HeadUnits

LEMMA InitWhole == Init => Whole
<1>1. Init => Typed
  BY InitTyped
<1> QED
  BY <1>1 DEF Init, Whole, AnswersWhole, DialFirst, HeadRead, ClosedAtEnd, ClientAtEnd,
              FramedWhole

LEMMA ServerWhole ==
  ASSUME Whole, ServerStep, Typed'
  PROVE  Whole'
<1>0. TypeOK /\ Total(request) >= 2 /\ Total(request) \in Nat
      /\ Total(response) \in Nat /\ Total(response) >= 2
  BY Lengths DEF Whole, Typed
<1> USE DEF Whole, AnswersWhole, DialFirst, HeadRead, ClosedAtEnd, ClientAtEnd, FramedWhole,
            Undisturbed, Dialed, Framed
<1>1. CASE ServerStarts
  BY <1>0, <1>1 DEF ServerStarts, TypeOK
<1>2. CASE ServerReadsFirst
  <2>1. PICK n \in toUser + 1 .. toServer :
          /\ toUser' = n
          /\ SeesHead("server", n)
          /\ server' = IF ServerReadsOn(n) THEN "more" ELSE "over"
    BY <1>2 DEF ServerReadsFirst
  <2>2. n \in 0 .. Total(response) /\ n > 0
    BY <1>0, <2>1 DEF TypeOK
  <2>3. server' = "over" /\ "server" \in headSeen' /\ Framed => n = Total(response)
    BY <1>0, <1>2, <2>1, <2>2, FramingIsEnd DEF ServerReadsFirst, ServerReadsOn, SeesHead
  <2> QED
    BY <1>0, <1>2, <2>1, <2>2, <2>3 DEF ServerReadsFirst, TypeOK
<1>3. CASE ServerReadsMore
  <2>1. PICK n \in toUser + 1 .. toServer :
          toUser' = n /\ server' = IF FramingEnds(n) THEN "over" ELSE "more"
    BY <1>3 DEF ServerReadsMore
  <2>2. n \in 0 .. Total(response) /\ n > 0
    BY <1>0, <2>1 DEF TypeOK
  <2>3. server' = "over" /\ Framed => n = Total(response)
    BY <1>0, <2>1, <2>2, FramingIsEnd
  <2> QED
    BY <1>0, <1>3, <2>1, <2>2, <2>3 DEF ServerReadsMore, TypeOK
<1>4. CASE ServerEnds
  <2>1. UNCHANGED <<messages, client, counts, backend, user, headSeen, timedOut>> /\ server' = "over"
    BY <1>4 DEF ServerEnds, ServerStops
  <2>2. CASE ServerEof
    BY <1>0, <2>1, <2>2 DEF ServerEof, ServerWaits, TypeOK
  <2>3. CASE ServerReset
    BY <1>0, <2>1, <2>3 DEF ServerReset, TypeOK
  <2>4. CASE ServerWriteFails
    BY <1>0, <2>1, <2>4 DEF ServerWriteFails, TypeOK
  <2> QED BY <1>4, <2>2, <2>3, <2>4 DEF ServerEnds
<1>5. CASE ServerTimeout
  BY <1>0, <1>5 DEF ServerTimeout, ServerStops, TypeOK
<1>6. CASE ServerRelaysUp
  BY <1>0, <1>6 DEF ServerRelaysUp, TypeOK
<1>7. CASE ServerRelaysDown
  BY <1>0, <1>7 DEF ServerRelaysDown, TypeOK
<1>8. CASE ServerRelayEnds
  BY <1>0, <1>8 DEF ServerRelayEnds, ServerStops, TypeOK
<1> QED BY <1>1, <1>2, <1>3, <1>4, <1>5, <1>6, <1>7, <1>8 DEF ServerStep

LEMMA ClientWhole ==
  ASSUME Whole, ClientStep, Typed'
  PROVE  Whole'
<1>0. TypeOK /\ Total(request) >= 2 /\ Total(request) \in Nat
      /\ Total(response) \in Nat /\ Total(response) >= 2
  BY Lengths DEF Whole, Typed
<1> USE DEF Whole, AnswersWhole, DialFirst, HeadRead, ClosedAtEnd, ClientAtEnd, FramedWhole,
            Undisturbed, Dialed, Framed
<1>1. CASE Dial
  BY <1>0, <1>1 DEF Dial, TypeOK
<1>2. CASE ClientStarts
  BY <1>0, <1>2 DEF ClientStarts, TypeOK
<1>3. CASE ClientReadsFirst
  <2>1. PICK n \in toServer + 1 .. written :
          /\ toServer' = n
          /\ SeesHead("client", n)
          /\ client' = IF ClientHasAll(n) THEN "over" ELSE "more"
    BY <1>3 DEF ClientReadsFirst
  <2>2. n \in 0 .. Total(response)
    BY <1>0, <2>1 DEF TypeOK
  <2>3. client' = "over" /\ Framed => n = Total(response)
    BY <1>0, <2>1, <2>2, FramingIsEnd DEF ClientHasAll, ResponseComplete
  <2>4. "server" \in headSeen' <=> "server" \in headSeen
    BY <2>1 DEF SeesHead
  <2> QED
    BY <1>0, <1>3, <2>1, <2>2, <2>3, <2>4 DEF ClientReadsFirst, TypeOK
<1>4. CASE ClientReadsMore
  <2>1. PICK n \in toServer + 1 .. written :
          /\ toServer' = n
          /\ client' = IF "client" \in headSeen /\ FramingEnds(n) THEN "over" ELSE "more"
    BY <1>4 DEF ClientReadsMore
  <2>2. n \in 0 .. Total(response)
    BY <1>0, <2>1 DEF TypeOK
  <2>3. client' = "over" /\ Framed => n = Total(response)
    BY <1>0, <2>1, <2>2, FramingIsEnd
  <2> QED
    BY <1>0, <1>4, <2>1, <2>2, <2>3 DEF ClientReadsMore, TypeOK
<1>5. CASE ClientEnds
  BY <1>0, <1>5 DEF ClientEnds, ClientStops, ClientEof, ClientWriteFails, ClientRelayEnds,
                    ClientWaits, TypeOK
<1>6. CASE ClientTimeout
  BY <1>0, <1>6 DEF ClientTimeout, ClientStops, TypeOK
<1>7. CASE ClientRelaysUp
  BY <1>0, <1>7 DEF ClientRelaysUp, TypeOK
<1>8. CASE ClientRelaysDown
  BY <1>0, <1>8 DEF ClientRelaysDown, TypeOK
<1> QED BY <1>1, <1>2, <1>3, <1>4, <1>5, <1>6, <1>7, <1>8 DEF ClientStep

LEMMA OutsideWhole ==
  ASSUME Whole, Typed',
         BackendWrites \/ BackendCloses \/ UserLeaves \/ Tick \/ Finished \/ UNCHANGED vars
  PROVE  Whole'
<1>0. TypeOK /\ Total(request) >= 2 /\ Total(request) \in Nat
      /\ Total(response) \in Nat /\ Total(response) >= 2
  BY Lengths DEF Whole, Typed
<1> USE DEF Whole, AnswersWhole, DialFirst, HeadRead, ClosedAtEnd, ClientAtEnd, FramedWhole,
            Undisturbed, Dialed, Framed
<1>1. CASE BackendWrites
  BY <1>0, <1>1 DEF BackendWrites, TypeOK
<1>2. CASE BackendCloses
  BY <1>0, <1>2 DEF BackendCloses, TypeOK
<1>3. CASE UserLeaves
  BY <1>0, <1>3 DEF UserLeaves, TypeOK
<1>4. CASE Tick
  BY <1>0, <1>4 DEF Tick, TypeOK
<1>5. CASE Finished \/ UNCHANGED vars
  BY <1>5 DEF Finished
<1> QED BY <1>1, <1>2, <1>3, <1>4, <1>5

LEMMA NextWhole == Whole /\ [Next]_vars => Whole'
<1> SUFFICES ASSUME Whole, [Next]_vars PROVE Whole'
  OBVIOUS
<1>1. Typed'
  BY NextTyped DEF Whole
<1> QED BY <1>1, ServerWhole, ClientWhole, OutsideWhole DEF Next

\* A one-time response that a length or a last chunk ends reaches its user whole,
\* whatever the two programs' reads showed them, for every request and response.
THEOREM FramedArrivesWhole == Spec => []FramedWhole
<1>1. Spec => []Whole
  BY InitWhole, NextWhole, PTL DEF Spec
<1>2. Whole => FramedWhole
  BY DEF Whole
<1> QED BY <1>1, <1>2, PTL
=============================================================================
