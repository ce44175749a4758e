------------------------------ MODULE HTTPRelay ------------------------------
(***************************************************************************)
(* The relay of relay.go: it gathers the candidates that trickle in after  *)
(* a join offer, relays the completed offer to the target server once      *)
(* either of its two timers fires, and sends the answer, or an error, back *)
(* to the client.                                                          *)
(*                                                                         *)
(* Everything under r.mu is one action.  A timer that fires starts a       *)
(* goroutine that then waits for r.mu: until it gets there (due) signals   *)
(* arrive, the other timer fires, and close may run.                       *)
(***************************************************************************)
EXTENDS Naturals, FiniteSets

CONSTANTS
  Offers,      \* pendingOffer values, one for every offer received
  Keys,        \* offerKey: a client's network ID and connection ID
  Candidates,
  NoOffer,     \* a nil pendingOffer
  NoKey        \* the key of an offer not received yet

ASSUME RelayAssumption ==
  /\ NoOffer \notin Offers
  /\ NoKey \notin Keys
  /\ IsFiniteSet(Offers)

Timers == {"quiet", "max"}

VARIABLES
  key,         \* o.key
  candidates,  \* o.candidates
  armed,       \* the timers of o that run
  due,         \* the timers of o that fired and whose flush waits for r.mu
  pending,     \* r.pending, NoOffer where the map has no entry
  closing,     \* "open", "closed" once r.closed is set, "returned" after close
  relay,       \* where the goroutine relaying o is, "none" before flush starts it
  sdp,         \* the candidates in the offer sent to the target
  told,        \* the reply the client of o got
  joins,       \* r.joins
  seen         \* the offers whose player was recorded in r.history

offerVars == <<key, candidates, armed, due, pending>>
relayVars == <<relay, sdp, told, joins, seen>>
vars == <<offerVars, closing, relayVars>>

\* Mutant: wg counts an offer from its receipt on.
RunningFromReceipt == {o \in Offers : key[o] # NoKey /\ relay[o] # "done"}

\* The offers whose goroutine wg counts.
Running == {o \in Offers : relay[o] \notin {"none", "done"}}

Pending == {o \in Offers : key[o] # NoKey /\ pending[key[o]] = o}

Init ==
  /\ key = [o \in Offers |-> NoKey]
  /\ candidates = [o \in Offers |-> {}]
  /\ armed = [o \in Offers |-> {}]
  /\ due = [o \in Offers |-> {}]
  /\ pending = [k \in Keys |-> NoOffer]
  /\ closing = "open"
  /\ relay = [o \in Offers |-> "none"]
  /\ sdp = [o \in Offers |-> {}]
  /\ told = [o \in Offers |-> "nothing"]
  /\ joins = 0
  /\ seen = {}

-----------------------------------------------------------------------------
(* NotifySignal.  Once r.closed is set it returns at once; a candidate for  *)
(* an offer that is not pending is dropped.                                 *)

\* Mutant: only the quiet timer is started.
ReceiveOfferWithoutMax(o, k) ==
  /\ closing = "open" /\ key[o] = NoKey
  /\ key' = [key EXCEPT ![o] = k]
  /\ pending' = [pending EXCEPT ![k] = o]
  /\ armed' = [p \in Offers |-> IF p = o THEN {"quiet"} ELSE IF p = pending[k] THEN {} ELSE armed[p]]
  /\ UNCHANGED <<candidates, due, closing, relayVars>>

ReceiveOffer(o, k) ==
  /\ closing = "open"
  /\ key[o] = NoKey
  /\ key' = [key EXCEPT ![o] = k]
  /\ pending' = [pending EXCEPT ![k] = o]
  /\ armed' = [p \in Offers |-> IF p = o THEN Timers ELSE IF p = pending[k] THEN {} ELSE armed[p]]
  /\ UNCHANGED <<candidates, due, closing, relayVars>>

\* quiet.Reset arms the timer again even if it has fired and its flush is due.
ReceiveCandidate(k, c) ==
  /\ closing = "open"
  /\ pending[k] # NoOffer
  /\ candidates' = [candidates EXCEPT ![pending[k]] = @ \cup {c}]
  /\ armed' = [armed EXCEPT ![pending[k]] = @ \cup {"quiet"}]
  /\ UNCHANGED <<key, due, pending, closing, relayVars>>

ReceiveError(k) ==
  /\ closing = "open"
  /\ pending[k] # NoOffer
  /\ armed' = [armed EXCEPT ![pending[k]] = {}]
  /\ pending' = [pending EXCEPT ![k] = NoOffer]
  /\ UNCHANGED <<key, candidates, due, closing, relayVars>>

-----------------------------------------------------------------------------
(* flush.                                                                   *)

TimerFires(o, timer) ==
  /\ timer \in armed[o]
  /\ armed' = [armed EXCEPT ![o] = @ \ {timer}]
  /\ due' = [due EXCEPT ![o] = @ \cup {timer}]
  /\ UNCHANGED <<key, candidates, pending, closing, relayVars>>

\* Mutant: any pending offer of the connection lets a late flush through.
CurrentByKey(o) == closing = "open" /\ pending[key[o]] # NoOffer

Current(o) == closing = "open" /\ pending[key[o]] = o

\* Mutant: the entry is left in the map while the offer is relayed.
FlushKeepingEntry(o, timer) ==
  /\ timer \in due[o] /\ Current(o)
  /\ due' = [due EXCEPT ![o] = @ \ {timer}]
  /\ armed' = [armed EXCEPT ![o] = {}]
  /\ sdp' = [sdp EXCEPT ![o] = candidates[o]]
  /\ relay' = [relay EXCEPT ![o] = "status"]
  /\ UNCHANGED <<key, candidates, pending, closing, told, joins, seen>>

Flush(o, timer) ==
  /\ timer \in due[o]
  /\ Current(o)
  /\ due' = [due EXCEPT ![o] = @ \ {timer}]
  /\ pending' = [pending EXCEPT ![key[o]] = NoOffer]
  /\ armed' = [armed EXCEPT ![o] = {}]
  /\ sdp' = [sdp EXCEPT ![o] = candidates[o]]
  /\ relay' = [relay EXCEPT ![o] = "status"]
  /\ UNCHANGED <<key, candidates, closing, told, joins, seen>>

\* The relay is closed, or the offer was relayed, replaced or withdrawn.
FlushLate(o, timer) ==
  /\ timer \in due[o]
  /\ ~Current(o)
  /\ due' = [due EXCEPT ![o] = @ \ {timer}]
  /\ UNCHANGED <<key, candidates, armed, pending, closing, relayVars>>

-----------------------------------------------------------------------------
(* relay: the target's status, the offer, the answer, the record.           *)

Goto(o, place) == relay' = [relay EXCEPT ![o] = place]

\* The error may not reach the client.
fail(o) ==
  /\ Goto(o, "done")
  /\ told' = told \/ told' = [told EXCEPT ![o] = "error"]

StatusChecked(o) ==
  /\ relay[o] = "status"
  /\ Goto(o, "signal")
  /\ UNCHANGED <<offerVars, closing, sdp, told, joins, seen>>

StatusFails(o) ==
  /\ relay[o] = "status"
  /\ fail(o)
  /\ UNCHANGED <<offerVars, closing, sdp, joins, seen>>

Answered(o) ==
  /\ relay[o] = "signal"
  /\ Goto(o, "reply")
  /\ UNCHANGED <<offerVars, closing, sdp, told, joins, seen>>

\* The request failed, or returned without an answer.
SignalFails(o) ==
  /\ relay[o] = "signal"
  /\ fail(o)
  /\ UNCHANGED <<offerVars, closing, sdp, joins, seen>>

Reply(o) ==
  /\ relay[o] = "reply"
  /\ Goto(o, "count")
  /\ told' = [told EXCEPT ![o] = "answer"]
  /\ UNCHANGED <<offerVars, closing, sdp, joins, seen>>

\* Mutant: a join whose answer was not sent is counted.
ReplyFailsCounting(o) ==
  /\ relay[o] = "reply"
  /\ Goto(o, "count")
  /\ UNCHANGED <<offerVars, closing, sdp, told, joins, seen>>

ReplyFails(o) ==
  /\ relay[o] = "reply"
  /\ Goto(o, "done")
  /\ UNCHANGED <<offerVars, closing, sdp, told, joins, seen>>

CountJoin(o) ==
  /\ relay[o] = "count"
  /\ Goto(o, "record")
  /\ joins' = joins + 1
  /\ UNCHANGED <<offerVars, closing, sdp, told, seen>>

\* The player's identity may not verify, and there may be no history.
recordJoin(o) ==
  /\ relay[o] = "record"
  /\ Goto(o, "done")
  /\ seen' = seen \/ seen' = seen \cup {o}
  /\ UNCHANGED <<offerVars, closing, sdp, told, joins>>

RelayStep(o) ==
  \/ StatusChecked(o) \/ StatusFails(o) \/ Answered(o) \/ SignalFails(o)
  \/ Reply(o) \/ ReplyFails(o) \/ CountJoin(o) \/ recordJoin(o)

-----------------------------------------------------------------------------
(* close.                                                                   *)

Close ==
  /\ closing = "open"
  /\ closing' = "closed"
  /\ armed' = [o \in Offers |-> IF o \in Pending THEN {} ELSE armed[o]]
  /\ pending' = [k \in Keys |-> NoOffer]
  /\ UNCHANGED <<key, candidates, due, relayVars>>

\* Mutant: close does not wait for the goroutines that relay.
CloseReturnsAtOnce ==
  /\ closing = "closed"
  /\ closing' = "returned"
  /\ UNCHANGED <<offerVars, relayVars>>

\* wg.Wait.
CloseReturns ==
  /\ closing = "closed"
  /\ Running = {}
  /\ closing' = "returned"
  /\ UNCHANGED <<offerVars, relayVars>>
-----------------------------------------------------------------------------

Next ==
  \/ \E o \in Offers :
       \/ \E k \in Keys : ReceiveOffer(o, k)
       \/ \E timer \in Timers : TimerFires(o, timer) \/ Flush(o, timer) \/ FlushLate(o, timer)
       \/ RelayStep(o)
  \/ \E k \in Keys : ReceiveError(k) \/ \E c \in Candidates : ReceiveCandidate(k, c)
  \/ Close \/ CloseReturns

\* Timers fire, their goroutines get the lock, and every request a relay makes has
\* a deadline.  The quiet timer may be reset for ever; only max is sure to fire.
Fairness ==
  /\ \A o \in Offers :
       /\ WF_vars(TimerFires(o, "max"))
       /\ \A timer \in Timers : WF_vars(Flush(o, timer) \/ FlushLate(o, timer))
       /\ WF_vars(RelayStep(o))
  /\ WF_vars(CloseReturns)

Spec == Init /\ [][Next]_vars

FairSpec == Spec /\ Fairness

-----------------------------------------------------------------------------
(* Properties.                                                              *)

OfferOK ==
  /\ key \in [Offers -> Keys \cup {NoKey}]
  /\ candidates \in [Offers -> SUBSET Candidates]
  /\ armed \in [Offers -> SUBSET Timers]
  /\ due \in [Offers -> SUBSET Timers]
  /\ pending \in [Keys -> Offers \cup {NoOffer}]
  /\ closing \in {"open", "closed", "returned"}

RelayOK ==
  /\ relay \in [Offers -> {"none", "status", "signal", "reply", "count", "record", "done"}]
  /\ sdp \in [Offers -> SUBSET Candidates]
  /\ told \in [Offers -> {"nothing", "answer", "error"}]
  /\ joins \in 0..Cardinality({o \in Offers : key[o] # NoKey})
  /\ seen \subseteq Offers

\* The variables hold values of their types; in particular no more joins are counted
\* than offers were received.
TypeOK == OfferOK /\ RelayOK

\* Every candidate NotifySignal accepted for a relayed offer is in the offer the
\* target got: none slips in between the flush and the relay.
NoCandidateLost == \A o \in Offers : relay[o] # "none" => sdp[o] = candidates[o]

\* An offer waiting for candidates has its max timer ahead of it, so a client that
\* trickles for ever is relayed all the same.
PendingIsTimed == \A o \in Pending : "max" \in armed[o] \cup due[o]

\* When close returns nothing is being relayed and nothing will be.
ClosedIsQuiet == closing = "returned" => Running = {} /\ Pending = {}

\* Only a join whose answer reached the client is counted and recorded.
JoinsAreAnswered ==
  /\ joins = Cardinality({o \in Offers : told[o] = "answer" /\ relay[o] # "count"})
  /\ \A o \in seen : told[o] = "answer"

\* How the state of an offer looks to its client.
phase ==
  [o \in Offers |->
     IF key[o] = NoKey THEN "unsent"
     ELSE IF relay[o] = "none" THEN IF pending[key[o]] = o THEN "gathering" ELSE "dropped"
     ELSE IF told[o] = "answer" THEN "answered"
     ELSE IF told[o] = "error" THEN "refused"
     ELSE IF relay[o] = "done" THEN "unreachable"
     ELSE "relayed"]

Promise == INSTANCE JoinOffers
             WITH Offers <- Offers, Keys <- Keys, NoKey <- NoKey, key <- key, phase <- phase

\* The relay keeps its promise to the client: an offer is relayed at most once with
\* at most one reply, though both its timers may fire, and a replaced or withdrawn
\* offer is never relayed, however late its timer's goroutine gets the lock.
PromiseKept == Promise!Spec

\* A received offer does not wait for ever, even under an endless trickle.
OffersLeave == \A o \in Offers : o \in Pending ~> o \notin Pending

\* close returns, whatever is in flight.
CloseEnds == closing = "closed" ~> closing = "returned"

\* The relay ends what it has begun: offers are flushed or dropped, and close does
\* not wait for ever (relay.go:110, 141).
BegunIsEnded == OffersLeave /\ CloseEnds
=============================================================================
