---------------------------- MODULE HTTPRelayProofs ----------------------------
(***************************************************************************)
(* Proofs about HTTPRelay for any finite set of offers, any connections    *)
(* and any candidates.                                                     *)
(***************************************************************************)
EXTENDS HTTPRelay, FiniteSetTheorems, TLAPS

-----------------------------------------------------------------------------
(* The inductive invariant.                                                 *)

\* The types, without the bound on joins: that one follows from the count.
Types ==
  /\ OfferOK
  /\ relay \in [Offers -> {"none", "status", "signal", "reply", "count", "record", "done"}]
  /\ sdp \in [Offers -> SUBSET Candidates]
  /\ told \in [Offers -> {"nothing", "answer", "error"}]
  /\ joins \in Nat
  /\ seen \subseteq Offers

\* An offer is in the map under its own key, until it is relayed or the relay closed.
\* An offer not received has left no trace.
MapInv ==
  /\ \A k \in Keys : pending[k] # NoOffer => key[pending[k]] = k /\ relay[pending[k]] = "none"
  /\ closing # "open" => \A k \in Keys : pending[k] = NoOffer
  /\ \A o \in Offers : key[o] = NoKey => armed[o] = {} /\ due[o] = {} /\ relay[o] = "none"

\* The client was told nothing before the reply, and the answer before the count.
ReplyInv ==
  \A o \in Offers : /\ relay[o] \in {"none", "status", "signal", "reply"} => told[o] = "nothing"
                    /\ relay[o] \in {"count", "record"} => told[o] = "answer"

Counted == {o \in Offers : told[o] = "answer" /\ relay[o] # "count"}

CountInv == joins = Cardinality(Counted) /\ \A o \in seen : told[o] = "answer"

QuietInv == closing = "returned" => Running = {}

IInv == Types /\ MapInv /\ ReplyInv /\ CountInv /\ QuietInv /\ PendingIsTimed /\ NoCandidateLost

-----------------------------------------------------------------------------
(* Steps by what they do: the map's side, one goroutine's side, or close.   *)

Gathers ==
  \/ \E o \in Offers, k \in Keys : ReceiveOffer(o, k)
  \/ \E k \in Keys : ReceiveError(k) \/ \E c \in Candidates : ReceiveCandidate(k, c)
  \/ \E o \in Offers, timer \in Timers : TimerFires(o, timer) \/ FlushLate(o, timer)

Flushes == \E o \in Offers, timer \in Timers : Flush(o, timer)

Relays == \E o \in Offers : RelayStep(o)

(* The kinds a step is of, by the part of an offer's way through the relay
   it takes. *)
LEMMA StepKinds == ASSUME [Next]_vars
                   PROVE  Gathers \/ Flushes \/ Relays \/ Close \/ CloseReturns \/ UNCHANGED vars
BY DEF Next, Gathers, Flushes, Relays

(* The inductive invariant holds initially. *)
LEMMA Initially == Init => IInv
<1> SUFFICES ASSUME Init PROVE IInv
  OBVIOUS
<1>1. Types /\ MapInv /\ ReplyInv /\ QuietInv /\ PendingIsTimed /\ NoCandidateLost
  BY RelayAssumption DEF Init, Types, OfferOK, MapInv, ReplyInv, QuietInv, Running,
       PendingIsTimed, Pending,
     NoCandidateLost
<1>2. CountInv
  <2>1. Counted = {}
    BY DEF Init, Counted
  <2> QED
    BY <2>1, FS_EmptySet DEF Init, CountInv
<1> QED
  BY <1>1, <1>2 DEF IInv

-----------------------------------------------------------------------------
(* Types.                                                                   *)

(* Every step keeps the types. *)
LEMMA TypesKept == Types /\ [Next]_vars => Types'
<1> SUFFICES ASSUME Types, [Next]_vars PROVE Types'
  OBVIOUS
<1> USE DEF Types, OfferOK, Timers
<1>1. CASE Gathers
  <2>1. CASE \E o \in Offers, k \in Keys : ReceiveOffer(o, k)
    BY <2>1 DEF ReceiveOffer, relayVars
  <2>2. CASE \E k \in Keys : ReceiveError(k)
    BY <2>2 DEF ReceiveError, relayVars
  <2>3. CASE \E k \in Keys, c \in Candidates : ReceiveCandidate(k, c)
    BY <2>3 DEF ReceiveCandidate, relayVars
  <2>4. CASE \E o \in Offers, timer \in Timers : TimerFires(o, timer) \/ FlushLate(o, timer)
    BY <2>4 DEF TimerFires, FlushLate, relayVars
  <2> QED
    BY <1>1, <2>1, <2>2, <2>3, <2>4 DEF Gathers
<1>2. CASE Flushes
  <2>1. PICK o \in Offers, timer \in Timers : Flush(o, timer)
    BY <1>2 DEF Flushes
  <2>2. pending' \in [Keys -> Offers \cup {NoOffer}]
    BY <2>1 DEF Flush
  <2>3. armed' \in [Offers -> SUBSET Timers] /\ due' \in [Offers -> SUBSET Timers]
    BY <2>1 DEF Flush
  <2>4. relay' \in [Offers -> {"none", "status", "signal", "reply", "count", "record", "done"}]
    BY <2>1 DEF Flush
  <2>5. sdp' \in [Offers -> SUBSET Candidates]
    BY <2>1 DEF Flush
  <2> QED
    BY <2>1, <2>2, <2>3, <2>4, <2>5 DEF Flush
<1>3. CASE Relays
  <2>1. PICK o \in Offers : RelayStep(o)
    BY <1>3 DEF Relays
  <2>2. UNCHANGED <<offerVars, closing, sdp>>
    BY <2>1 DEF RelayStep, StatusChecked, StatusFails, Answered, SignalFails, Reply, ReplyFails,
         CountJoin, recordJoin
  <2>3. relay' \in [Offers -> {"none", "status", "signal", "reply", "count", "record", "done"}]
    BY <2>1 DEF RelayStep, Goto, fail, StatusChecked, StatusFails, Answered, SignalFails, Reply,
         ReplyFails,
       CountJoin, recordJoin
  <2>4. told' \in [Offers -> {"nothing", "answer", "error"}]
    BY <2>1 DEF RelayStep, fail, StatusChecked, StatusFails, Answered, SignalFails, Reply,
         ReplyFails,
       CountJoin, recordJoin
  <2>5. joins' \in Nat /\ seen' \subseteq Offers
    BY <2>1 DEF RelayStep, StatusChecked, StatusFails, Answered, SignalFails, Reply, ReplyFails,
         CountJoin, recordJoin
  <2> QED
    BY <2>2, <2>3, <2>4, <2>5 DEF offerVars
<1>4. CASE Close
  BY <1>4 DEF Close, relayVars
<1>5. CASE CloseReturns
  BY <1>5 DEF CloseReturns, offerVars, relayVars
<1>6. CASE UNCHANGED vars
  BY <1>6 DEF vars, offerVars, relayVars
<1> QED
  BY <1>1, <1>2, <1>3, <1>4, <1>5, <1>6, StepKinds

-----------------------------------------------------------------------------
(* What a step of the goroutine relaying o does.                            *)

(* What a relay's own step changes: its offer's progress and answer,
   nothing of the others. *)
LEMMA RelayEffect ==
  ASSUME Types, ReplyInv, NEW o \in Offers, RelayStep(o)
  PROVE  /\ UNCHANGED <<key, candidates, armed, due, pending, closing, sdp>>
         /\ \A p \in Offers \ {o} : relay'[p] = relay[p] /\ told'[p] = told[p]
         /\ relay[o] \notin {"none", "done"} /\ relay'[o] # "none"
         /\ \/ /\ relay[o] \in {"status", "signal"} /\ relay'[o] \in {"signal", "reply"}
               /\ told'[o] = "nothing" /\ UNCHANGED <<joins, seen>>
            \/ /\ relay[o] \in {"status", "signal", "reply"} /\ relay'[o] = "done"
               /\ told'[o] \in {"nothing", "error"} /\ UNCHANGED <<joins, seen>>
            \/ /\ relay[o] = "reply" /\ relay'[o] = "count" /\ told'[o] = "answer" /\ UNCHANGED <<joins, seen>>
            \/ /\ relay[o] = "count" /\ relay'[o] = "record" /\ told'[o] = "answer"
               /\ joins' = joins + 1 /\ UNCHANGED seen
            \/ /\ relay[o] = "record" /\ relay'[o] = "done" /\ told'[o] = "answer"
               /\ seen' \subseteq seen \cup {o} /\ UNCHANGED joins
<1> USE DEF Types, ReplyInv, offerVars, Goto, fail
<1>1. CASE StatusChecked(o) \/ Answered(o)
  BY <1>1 DEF StatusChecked, Answered
<1>2. CASE StatusFails(o) \/ SignalFails(o) \/ ReplyFails(o)
  BY <1>2 DEF StatusFails, SignalFails, ReplyFails
<1>3. CASE Reply(o)
  BY <1>3 DEF Reply
<1>4. CASE CountJoin(o)
  BY <1>4 DEF CountJoin
<1>5. CASE recordJoin(o)
  BY <1>5 DEF recordJoin
<1> QED
  BY <1>1, <1>2, <1>3, <1>4, <1>5 DEF RelayStep

-----------------------------------------------------------------------------
(* The other parts of the invariant.                                        *)

(* Every step keeps the map of pending offers and the offers' keys in
   agreement. *)
LEMMA MapKept == Types /\ MapInv /\ ReplyInv /\ [Next]_vars => MapInv'
<1> SUFFICES ASSUME Types, MapInv, ReplyInv, [Next]_vars PROVE MapInv'
  OBVIOUS
<1> USE RelayAssumption DEF Types, OfferOK, MapInv
<1>1. CASE Gathers
  <2>1. CASE \E o \in Offers, k \in Keys : ReceiveOffer(o, k)
    BY <2>1 DEF ReceiveOffer, relayVars
  <2>2. CASE \E k \in Keys : ReceiveError(k)
    BY <2>2 DEF ReceiveError, relayVars
  <2>3. CASE \E k \in Keys, c \in Candidates : ReceiveCandidate(k, c)
    BY <2>3 DEF ReceiveCandidate, relayVars
  <2>4. CASE \E o \in Offers, timer \in Timers : TimerFires(o, timer) \/ FlushLate(o, timer)
    BY <2>4 DEF TimerFires, FlushLate, relayVars
  <2> QED
    BY <1>1, <2>1, <2>2, <2>3, <2>4 DEF Gathers
<1>2. CASE Flushes
  <2>1. PICK o \in Offers, timer \in Timers : Flush(o, timer)
    BY <1>2 DEF Flushes
  <2>2. key[o] \in Keys
    BY <2>1 DEF Flush
  <2>3. \A p \in Offers : relay'[p] # relay[p] => p = o
    BY <2>1 DEF Flush
  <2>4. \A k \in Keys : pending'[k] = IF k = key[o] THEN NoOffer ELSE pending[k]
    BY <2>1, <2>2 DEF Flush
  <2>5. \A k \in Keys : pending'[k] # NoOffer => pending'[k] # o
    BY <2>4
  <2> QED
    BY <2>1, <2>2, <2>3, <2>4, <2>5 DEF Flush, Current
<1>3. CASE Relays
  <2>1. PICK o \in Offers : RelayStep(o)
    BY <1>3 DEF Relays
  <2> QED
    BY <2>1, RelayEffect
<1>4. CASE Close
  BY <1>4 DEF Close, relayVars
<1>5. CASE CloseReturns
  BY <1>5 DEF CloseReturns, offerVars, relayVars
<1>6. CASE UNCHANGED vars
  BY <1>6 DEF vars, offerVars, relayVars
<1> QED
  BY <1>1, <1>2, <1>3, <1>4, <1>5, <1>6, StepKinds

\* The map's side leaves the goroutines alone.
LEMMA GatheringEffect ==
  ASSUME Gathers \/ Close \/ CloseReturns \/ UNCHANGED vars
  PROVE  UNCHANGED relayVars
BY DEF Gathers, ReceiveOffer, ReceiveError, ReceiveCandidate, TimerFires, FlushLate, Close,
     CloseReturns, vars

(* What a flush changes: the offer leaves the map with the candidates
   gathered so far. *)
LEMMA FlushEffect ==
  ASSUME Types, MapInv, NEW o \in Offers, NEW timer \in Timers, Flush(o, timer)
  PROVE  /\ key[o] \in Keys /\ pending[key[o]] = o /\ relay[o] = "none" /\ closing = "open"
         /\ UNCHANGED <<key, candidates, closing, told, joins, seen>>
         /\ relay' = [relay EXCEPT ![o] = "status"] /\ sdp' = [sdp EXCEPT ![o] = candidates[o]]
         /\ pending' = [pending EXCEPT ![key[o]] = NoOffer]
BY RelayAssumption DEF Types, OfferOK, MapInv, Flush, Current

(* Every step keeps the agreement of an offer's progress and the replies it
   was told. *)
LEMMA ReplyKept == Types /\ MapInv /\ ReplyInv /\ [Next]_vars => ReplyInv'
<1> SUFFICES ASSUME Types, MapInv, ReplyInv, [Next]_vars PROVE ReplyInv'
  OBVIOUS
<1>1. CASE Gathers \/ Close \/ CloseReturns \/ UNCHANGED vars
  BY <1>1, GatheringEffect DEF ReplyInv, relayVars
<1>2. CASE Flushes
  <2>1. PICK o \in Offers, timer \in Timers : Flush(o, timer)
    BY <1>2 DEF Flushes
  <2> QED
    BY <2>1, FlushEffect DEF ReplyInv, Types
<1>3. CASE Relays
  <2>1. PICK o \in Offers : RelayStep(o)
    BY <1>3 DEF Relays
  <2> QED
    BY <2>1, RelayEffect DEF ReplyInv, Types
<1> QED
  BY <1>1, <1>2, <1>3, StepKinds

\* Each step counts the offer it moves past the count, and no other.
LEMMA CountKept == Types /\ MapInv /\ ReplyInv /\ CountInv /\ [Next]_vars => CountInv'
<1> SUFFICES ASSUME Types, MapInv, ReplyInv, CountInv, [Next]_vars PROVE CountInv'
  OBVIOUS
<1>1. CASE Gathers \/ Close \/ CloseReturns \/ UNCHANGED vars
  BY <1>1, GatheringEffect DEF CountInv, Counted, relayVars
<1>2. CASE Flushes
  <2>1. PICK o \in Offers, timer \in Timers : Flush(o, timer)
    BY <1>2 DEF Flushes
  <2>2. told[o] = "nothing"
    BY <2>1, FlushEffect DEF ReplyInv
  <2>3. Counted' = Counted
    BY <2>1, <2>2, FlushEffect DEF Counted, Types
  <2> QED
    BY <2>1, <2>3, FlushEffect DEF CountInv
<1>3. CASE Relays
  <2>1. PICK o \in Offers : RelayStep(o)
    BY <1>3 DEF Relays
  <2>2. \A p \in Offers \ {o} : relay'[p] = relay[p] /\ told'[p] = told[p]
    BY <2>1, RelayEffect
  <2>3. CASE relay[o] = "count"
    <3>1. relay'[o] = "record" /\ told'[o] = "answer" /\ joins' = joins + 1 /\ seen' = seen
      BY <2>1, <2>3, RelayEffect
    <3>2. Counted' = Counted \cup {o} /\ o \notin Counted
      BY <2>2, <2>3, <3>1 DEF Counted
    <3>3. IsFiniteSet(Counted)
      BY RelayAssumption, FS_Subset DEF Counted
    <3>4. Cardinality(Counted') = Cardinality(Counted) + 1
      BY <3>2, <3>3, FS_AddElement
    <3> QED
      BY <2>2, <3>1, <3>4 DEF CountInv, Types
  <2>4. CASE relay[o] # "count"
    <3>1. Counted' = Counted
      <4>1. o \in Counted <=> told'[o] = "answer" /\ relay'[o] # "count"
        BY <2>1, <2>4, RelayEffect DEF Counted, ReplyInv
      <4> QED
        BY <2>2, <4>1 DEF Counted
    <3>2. joins' = joins
      BY <2>1, <2>4, RelayEffect
    <3>3. \A p \in seen' : told'[p] = "answer"
      BY <2>1, <2>4, RelayEffect DEF CountInv, Types, ReplyInv
    <3> QED
      BY <3>1, <3>2, <3>3 DEF CountInv
  <2> QED
    BY <2>3, <2>4
<1> QED
  BY <1>1, <1>2, <1>3, StepKinds

(* Every step keeps a relay whose Close returned free of goroutines. *)
LEMMA QuietKept == Types /\ MapInv /\ ReplyInv /\ QuietInv /\ [Next]_vars => QuietInv'
<1> SUFFICES ASSUME Types, MapInv, ReplyInv, QuietInv, [Next]_vars PROVE QuietInv'
  OBVIOUS
<1>1. CASE Gathers \/ Close \/ UNCHANGED vars
  <2>1. relay' = relay /\ closing' \in {closing, "closed"}
    BY <1>1 DEF Gathers, ReceiveOffer, ReceiveError, ReceiveCandidate, TimerFires, FlushLate,
         Close, relayVars, offerVars, vars
  <2> QED
    BY <2>1 DEF QuietInv, Running
<1>2. CASE CloseReturns
  BY <1>2 DEF CloseReturns, QuietInv, Running, relayVars
<1>3. CASE Flushes
  BY <1>3, FlushEffect DEF Flushes, QuietInv
<1>4. CASE Relays
  <2>1. PICK o \in Offers : RelayStep(o)
    BY <1>4 DEF Relays
  <2>2. closing' = closing /\ o \in Running
    BY <2>1, RelayEffect DEF Running
  <2> QED
    BY <2>2 DEF QuietInv
<1> QED
  BY <1>1, <1>2, <1>3, <1>4, StepKinds

(* Every step keeps a timer armed for each pending offer. *)
LEMMA TimedKept == Types /\ MapInv /\ ReplyInv /\ PendingIsTimed /\ [Next]_vars => PendingIsTimed'
<1> SUFFICES ASSUME Types, MapInv, ReplyInv, PendingIsTimed, [Next]_vars,
                    NEW o \in Offers, key'[o] # NoKey, pending'[key'[o]] = o
             PROVE  "max" \in armed'[o] \cup due'[o]
  BY DEF PendingIsTimed, Pending
<1> USE DEF Types, OfferOK
<1>1. CASE \E p \in Offers, k \in Keys : ReceiveOffer(p, k)
  <2>1. PICK p \in Offers, k \in Keys : ReceiveOffer(p, k)
    BY <1>1
  <2>2. CASE o = p
    BY <2>1, <2>2 DEF ReceiveOffer, Timers
  <2>3. CASE o # p
    <3>1. key'[o] = key[o] /\ key[o] \in Keys /\ due' = due
      BY <2>1, <2>3 DEF ReceiveOffer
    <3>2. key[o] # k /\ pending[key[o]] = o
      BY <2>1, <2>3, <3>1 DEF ReceiveOffer
    <3>3. o # pending[k]
      BY <2>1, <3>2, RelayAssumption DEF MapInv
    <3>4. armed'[o] = armed[o]
      BY <2>1, <2>3, <3>3 DEF ReceiveOffer
    <3> QED
      BY <3>1, <3>2, <3>4 DEF PendingIsTimed, Pending
  <2> QED
    BY <2>2, <2>3
<1>2. CASE \E k \in Keys : ReceiveError(k)
  <2>1. PICK k \in Keys : ReceiveError(k)
    BY <1>2
  <2>2. key' = key /\ due' = due /\ key[o] \in Keys
    BY <2>1 DEF ReceiveError
  <2>3. key[o] # k /\ pending[key[o]] = o
    BY <2>1, <2>2, RelayAssumption DEF ReceiveError
  <2>4. armed'[o] = armed[o]
    BY <2>1, <2>3 DEF ReceiveError, MapInv
  <2> QED
    BY <2>2, <2>3, <2>4 DEF PendingIsTimed, Pending
<1>3. CASE \E k \in Keys, c \in Candidates : ReceiveCandidate(k, c)
  BY <1>3 DEF ReceiveCandidate, PendingIsTimed, Pending, Timers
<1>4. CASE \E p \in Offers, timer \in Timers : TimerFires(p, timer)
  BY <1>4 DEF TimerFires, PendingIsTimed, Pending
<1>5. CASE \E p \in Offers, timer \in Timers : FlushLate(p, timer)
  <2>1. PICK p \in Offers, timer \in Timers : FlushLate(p, timer)
    BY <1>5
  <2>2. UNCHANGED <<key, pending, armed, closing>>
    BY <2>1 DEF FlushLate
  <2>3. o # p
    BY <2>1, <2>2, RelayAssumption DEF FlushLate, Current, MapInv
  <2>4. due'[o] = due[o]
    BY <2>1, <2>3 DEF FlushLate
  <2> QED
    BY <2>2, <2>4 DEF PendingIsTimed, Pending
<1>6. CASE Flushes
  <2>1. PICK p \in Offers, timer \in Timers : Flush(p, timer)
    BY <1>6 DEF Flushes
  <2>2. key' = key /\ pending' = [pending EXCEPT ![key[p]] = NoOffer] /\ pending[key[p]] = p
    BY <2>1, FlushEffect
  <2>3. o # p /\ pending[key[o]] = o
    BY <2>1, <2>2, RelayAssumption
  <2>4. armed'[o] = armed[o] /\ due'[o] = due[o]
    BY <2>1, <2>3 DEF Flush
  <2> QED
    BY <2>2, <2>3, <2>4 DEF PendingIsTimed, Pending
<1>7. CASE Relays
  <2>1. UNCHANGED <<key, pending, armed, due>>
    BY <1>7, RelayEffect DEF Relays
  <2> QED
    BY <2>1 DEF PendingIsTimed, Pending
<1>8. CASE Close
  BY <1>8, RelayAssumption DEF Close
<1>9. CASE CloseReturns \/ UNCHANGED vars
  BY <1>9 DEF CloseReturns, vars, offerVars, PendingIsTimed, Pending
<1> QED
  BY <1>1, <1>2, <1>3, <1>4, <1>5, <1>6, <1>7, <1>8, <1>9, StepKinds DEF Gathers

(* Every step keeps the candidates gathered in the description that is
   sent. *)
LEMMA CandidatesKept == Types /\ MapInv /\ ReplyInv /\ NoCandidateLost /\ [Next]_vars => NoCandidateLost'
<1> SUFFICES ASSUME Types, MapInv, ReplyInv, NoCandidateLost, [Next]_vars PROVE NoCandidateLost'
  OBVIOUS
<1> USE DEF Types, OfferOK
<1>1. CASE Gathers \/ Close \/ CloseReturns \/ UNCHANGED vars
  <2>1. relay' = relay /\ sdp' = sdp
    BY <1>1, GatheringEffect DEF relayVars
  <2>2. \A o \in Offers : candidates'[o] # candidates[o] => relay[o] = "none"
    <3>1. CASE \E k \in Keys, c \in Candidates : ReceiveCandidate(k, c)
      BY <3>1 DEF ReceiveCandidate, MapInv
    <3>2. CASE candidates' = candidates
      BY <3>2
    <3>3. candidates' = candidates \/ \E k \in Keys, c \in Candidates : ReceiveCandidate(k, c)
      BY <1>1 DEF Gathers, ReceiveOffer, ReceiveError, TimerFires, FlushLate, Close,
           CloseReturns, offerVars, vars
    <3> QED
      BY <3>1, <3>2, <3>3
  <2> QED
    BY <2>1, <2>2 DEF NoCandidateLost
<1>2. CASE Flushes
  BY <1>2, FlushEffect DEF Flushes, NoCandidateLost
<1>3. CASE Relays
  <2>1. PICK o \in Offers : RelayStep(o)
    BY <1>3 DEF Relays
  <2> QED
    BY <2>1, RelayEffect DEF NoCandidateLost
<1> QED
  BY <1>1, <1>2, <1>3, StepKinds

(* The inductive invariant holds in every reachable state. *)
LEMMA Invariance == Spec => []IInv
<1>1. IInv /\ [Next]_vars => IInv'
  BY TypesKept, MapKept, ReplyKept, CountKept, QuietKept, TimedKept, CandidatesKept DEF IInv
<1> QED
  BY <1>1, Initially, PTL DEF Spec

-----------------------------------------------------------------------------
(* Theorems.                                                                *)

\* The variables keep their types, and no more joins are counted than offers were
\* received, whatever fails and however late the timers are.
THEOREM TypeCorrect == Spec => []TypeOK
<1>1. IInv => TypeOK
  <2> SUFFICES ASSUME IInv PROVE TypeOK
    OBVIOUS
  <2> DEFINE Received == {o \in Offers : key[o] # NoKey}
  <2>1. Counted \subseteq Received
    BY DEF IInv, MapInv, ReplyInv, Counted
  <2>2. IsFiniteSet(Received)
    BY RelayAssumption, FS_Subset
  <2>3. Cardinality(Counted) <= Cardinality(Received) /\ Cardinality(Received) \in Nat
    BY <2>1, <2>2, FS_Subset, FS_CardinalityType
  <2>4. joins \in 0..Cardinality(Received)
    BY <2>3 DEF IInv, Types, CountInv
  <2> QED
    BY <2>4 DEF IInv, Types, TypeOK, RelayOK
<1> QED
  BY <1>1, Invariance, PTL

\* No candidate slips in between the flush of an offer and its relay.
THEOREM CandidatesAreRelayed == Spec => []NoCandidateLost
<1>1. IInv => NoCandidateLost
  BY DEF IInv
<1> QED
  BY <1>1, Invariance, PTL

\* The max timer is always ahead of an offer that waits for candidates.
THEOREM GatheringIsBounded == Spec => []PendingIsTimed
<1>1. IInv => PendingIsTimed
  BY DEF IInv
<1> QED
  BY <1>1, Invariance, PTL

\* close leaves neither a pending offer nor a goroutine that relays.
THEOREM CloseQuiets == Spec => []ClosedIsQuiet
<1>1. IInv => ClosedIsQuiet
  BY RelayAssumption DEF IInv, MapInv, QuietInv, ClosedIsQuiet, Pending, Types, OfferOK
<1> QED
  BY <1>1, Invariance, PTL

\* The joins counted are the answers that reached their client, to the last one.
THEOREM JoinsAreExact == Spec => []JoinsAreAnswered
<1>1. IInv => JoinsAreAnswered
  BY DEF IInv, CountInv, Counted, JoinsAreAnswered
<1> QED
  BY <1>1, Invariance, PTL

-----------------------------------------------------------------------------
(* The relay implements JoinOffers: a step of an offer its client can see is *)
(* a step of the promise, and every other step is a stutter.                 *)

(* The initial states of the relay are initial states of JoinOffers. *)
LEMMA PromiseInitially == Init => Promise!Init
BY DEF Init, Promise!Init, phase

(* Receiving an offer is the promise's Receive. *)
LEMMA PromiseReceive ==
  ASSUME IInv, NEW o \in Offers, NEW k \in Keys, ReceiveOffer(o, k)
  PROVE  Promise!Receive(o, k)
<1> USE DEF IInv, Types, OfferOK
<1>1. phase[o] = "unsent" /\ relay[o] = "none" /\ relay' = relay /\ told' = told
  BY DEF ReceiveOffer, MapInv, phase, relayVars
<1>2. key' = [key EXCEPT ![o] = k] /\ pending' = [pending EXCEPT ![k] = o]
  BY DEF ReceiveOffer
<1>3. phase' = [p \in Offers |-> IF p = o THEN "gathering"
                                ELSE IF p \in Promise!Gathering /\ key[p] = k THEN "dropped"
                                ELSE phase[p]]
  <2>1. phase'[o] = "gathering"
    BY <1>1, <1>2, RelayAssumption DEF phase
  <2>2. ASSUME NEW p \in Offers, p # o
        PROVE  phase'[p] = IF p \in Promise!Gathering /\ key[p] = k THEN "dropped" ELSE phase[p]
    <3>1. key'[p] = key[p]
      BY <1>2, <2>2
    <3>2. CASE key[p] = k
      BY <1>1, <1>2, <2>2, <3>1, <3>2, RelayAssumption DEF phase, Promise!Gathering
    <3>3. CASE key[p] # k
      BY <1>1, <1>2, <2>2, <3>1, <3>3 DEF phase
    <3> QED
      BY <3>2, <3>3
  <2> QED
    BY <2>1, <2>2 DEF phase
<1> QED
  BY <1>1, <1>2, <1>3 DEF Promise!Receive

\* An error report drops the offer pending for its connection, close drops them all.
LEMMA PromiseDrop ==
  ASSUME IInv, Close \/ \E k \in Keys : ReceiveError(k)
  PROVE  \E S \in SUBSET Promise!Gathering : Promise!Drop(S)
<1> USE DEF IInv, Types, OfferOK
<1>1. UNCHANGED <<key, relay, told>>
  BY DEF Close, ReceiveError, relayVars
<1>2. CASE Close
  <2>1. pending' = [k \in Keys |-> NoOffer]
    BY <1>2 DEF Close
  <2>2. \A o \in Offers : phase'[o] = IF o \in Promise!Gathering THEN "dropped" ELSE phase[o]
    <3> TAKE o \in Offers
    <3>1. CASE relay[o] = "none" /\ key[o] # NoKey
      <4>1. phase'[o] = "dropped" /\ phase[o] \in {"gathering", "dropped"}
        BY <1>1, <2>1, <3>1, RelayAssumption DEF phase
      <4> QED
        BY <4>1 DEF Promise!Gathering
    <3>2. CASE ~(relay[o] = "none" /\ key[o] # NoKey)
      <4>1. phase'[o] = phase[o] /\ phase[o] # "gathering"
        BY <1>1, <3>2 DEF phase
      <4> QED
        BY <4>1 DEF Promise!Gathering
    <3> QED
      BY <3>1, <3>2
  <2>3. phase' = [o \in Offers |-> IF o \in Promise!Gathering THEN "dropped" ELSE phase[o]]
    BY <2>2 DEF phase
  <2>4. Promise!Drop(Promise!Gathering)
    BY <1>1, <2>3 DEF Promise!Drop
  <2> QED
    BY <2>4
<1>3. CASE \E k \in Keys : ReceiveError(k)
  <2>1. PICK k \in Keys : ReceiveError(k)
    BY <1>3
  <2>2. pending' = [pending EXCEPT ![k] = NoOffer] /\ pending[k] \in Offers
    BY <2>1 DEF ReceiveError
  <2>3. key[pending[k]] = k /\ relay[pending[k]] = "none"
    BY <2>2, RelayAssumption DEF MapInv
  <2>4. pending[k] \in Promise!Gathering
    BY <2>2, <2>3, RelayAssumption DEF phase, Promise!Gathering
  <2>5. \A o \in Offers : phase'[o] = IF o = pending[k] THEN "dropped" ELSE phase[o]
    BY <1>1, <2>2, <2>3, RelayAssumption DEF phase
  <2>6. phase' = [o \in Offers |-> IF o \in {pending[k]} THEN "dropped" ELSE phase[o]]
    BY <2>5 DEF phase
  <2>7. Promise!Drop({pending[k]})
    BY <1>1, <2>6 DEF Promise!Drop
  <2> QED
    BY <2>4, <2>7
<1> QED
  BY <1>2, <1>3

(* Flushing an offer is the promise's Relay. *)
LEMMA PromiseRelay ==
  ASSUME IInv, NEW o \in Offers, NEW timer \in Timers, Flush(o, timer)
  PROVE  Promise!Relay(o)
<1> USE DEF IInv, Types, OfferOK
<1>1. /\ key[o] \in Keys /\ pending[key[o]] = o /\ relay[o] = "none" /\ told[o] = "nothing"
      /\ UNCHANGED <<key, told>>
      /\ relay' = [relay EXCEPT ![o] = "status"] /\ pending' = [pending EXCEPT ![key[o]] = NoOffer]
  BY FlushEffect DEF ReplyInv
<1>2. phase[o] = "gathering" /\ phase'[o] = "relayed"
  BY <1>1, RelayAssumption DEF phase
<1>3. \A p \in Offers \ {o} : phase'[p] = phase[p]
  BY <1>1, RelayAssumption DEF phase
<1>4. phase' = [phase EXCEPT ![o] = "relayed"]
  BY <1>2, <1>3 DEF phase
<1> QED
  BY <1>1, <1>2, <1>4 DEF Promise!Relay

(* A relay's step is the promise's Conclude, or nothing the promise sees. *)
LEMMA PromiseConclude ==
  ASSUME IInv, NEW o \in Offers, RelayStep(o)
  PROVE  Promise!Conclude(o) \/ UNCHANGED <<key, phase>>
<1> USE DEF IInv, Types, OfferOK
<1>1. UNCHANGED <<key, pending>> /\ \A p \in Offers \ {o} : relay'[p] = relay[p] /\ told'[p] = told[p]
  BY RelayEffect
<1>2. \A p \in Offers \ {o} : phase'[p] = phase[p]
  BY <1>1 DEF phase
<1>3. key[o] # NoKey /\ relay[o] \notin {"none", "done"} /\ relay'[o] # "none"
  BY RelayEffect, RelayAssumption DEF MapInv
<1>4. \/ phase'[o] = phase[o]
      \/ phase[o] = "relayed" /\ phase'[o] \in {"answered", "refused", "unreachable"}
  <2>1. CASE told[o] = "nothing"
    <3>1. relay[o] \in {"status", "signal", "reply"} /\ told'[o] \in {"nothing", "answer", "error"}
          /\ (told'[o] = "nothing" => relay'[o] \in {"signal", "reply", "done"})
      BY <1>3, <2>1, RelayEffect DEF ReplyInv
    <3>2. phase[o] = "relayed"
      BY <1>3, <2>1, <3>1 DEF phase
    <3>3. phase'[o] \in {"answered", "refused", "unreachable", "relayed"}
      BY <1>1, <1>3, <3>1 DEF phase
    <3> QED
      BY <3>2, <3>3
  <2>2. CASE told[o] # "nothing"
    <3>1. told[o] = "answer" /\ told'[o] = "answer"
      BY <1>3, <2>2, RelayEffect DEF ReplyInv
    <3> QED
      BY <1>1, <1>3, <3>1 DEF phase
  <2> QED
    BY <2>1, <2>2
<1>5. CASE phase'[o] = phase[o]
  BY <1>1, <1>2, <1>5 DEF phase
<1>6. CASE phase[o] = "relayed" /\ phase'[o] \in {"answered", "refused", "unreachable"}
  <2>1. PICK outcome \in {"answered", "refused", "unreachable"} : phase'[o] = outcome
    BY <1>6
  <2>2. DOMAIN phase = Offers /\ phase' = [p \in Offers |-> phase'[p]]
    BY DEF phase
  <2>3. phase' = [phase EXCEPT ![o] = outcome]
    BY <1>2, <2>1, <2>2, Zenon
  <2>4. Promise!Conclude(o)
    BY <1>1, <1>6, <2>3, Zenon DEF Promise!Conclude
  <2> QED
    BY <2>4
<1> QED
  BY <1>4, <1>5, <1>6

\* Every step maps to a step of the promise or a stutter.
LEMMA PromiseStep == IInv /\ [Next]_vars => [Promise!Next]_<<key, phase>>
<1> SUFFICES ASSUME IInv, [Next]_vars PROVE [Promise!Next]_<<key, phase>>
  OBVIOUS
<1>1. CASE \E o \in Offers, k \in Keys : ReceiveOffer(o, k)
  BY <1>1, PromiseReceive DEF Promise!Next
<1>2. CASE Close \/ \E k \in Keys : ReceiveError(k)
  BY <1>2, PromiseDrop DEF Promise!Next
<1>3. CASE Flushes
  BY <1>3, PromiseRelay DEF Flushes, Promise!Next
<1>4. CASE Relays
  BY <1>4, PromiseConclude DEF Relays, Promise!Next
<1>5. CASE \/ \E k \in Keys, c \in Candidates : ReceiveCandidate(k, c)
           \/ \E o \in Offers, timer \in Timers : TimerFires(o, timer) \/ FlushLate(o, timer)
           \/ CloseReturns \/ UNCHANGED vars
  <2>1. UNCHANGED <<key, pending, relay, told>>
    BY <1>5 DEF ReceiveCandidate, TimerFires, FlushLate, CloseReturns, offerVars, relayVars, vars
  <2> QED
    BY <2>1 DEF phase
<1> QED
  BY <1>1, <1>2, <1>3, <1>4, <1>5, StepKinds DEF Gathers

\* The relay implements its promise to the client for any number of offers: relayed at
\* most once, replied to at most once, never after a newer offer took its place.
THEOREM PromiseIsKept == Spec => PromiseKept
<1> QED
  BY PromiseInitially, PromiseStep, Invariance, PTL DEF Spec, PromiseKept, Promise!Spec,
       Promise!vars
=============================================================================
