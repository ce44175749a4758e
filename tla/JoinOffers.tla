------------------------------ MODULE JoinOffers ------------------------------
(***************************************************************************)
(* What the relay promises a client about each join offer it sends: while  *)
(* candidates trickle in the offer is gathered, then it is relayed at most *)
(* once, with at most one reply, unless a newer offer of the same          *)
(* connection, an error report or the end of the relay drops it first.     *)
(* A dropped offer is never relayed.                                       *)
(***************************************************************************)
CONSTANTS
  Offers,  \* the offers clients may send
  Keys,    \* client connections
  NoKey    \* the key of an offer not sent yet

VARIABLES
  key,    \* the connection each offer belongs to
  phase   \* how far the offer is

vars == <<key, phase>>

Gathering == {o \in Offers : phase[o] = "gathering"}

Init == key = [o \in Offers |-> NoKey] /\ phase = [o \in Offers |-> "unsent"]

\* A new offer replaces the one its connection is still gathering for.
Receive(o, k) ==
  /\ phase[o] = "unsent"
  /\ key' = [key EXCEPT ![o] = k]
  /\ phase' = [p \in Offers |-> IF p = o THEN "gathering"
                                ELSE IF p \in Gathering /\ key[p] = k THEN "dropped"
                                ELSE phase[p]]

Drop(S) ==
  /\ phase' = [o \in Offers |-> IF o \in S THEN "dropped" ELSE phase[o]]
  /\ UNCHANGED key

Relay(o) ==
  /\ phase[o] = "gathering"
  /\ phase' = [phase EXCEPT ![o] = "relayed"]
  /\ UNCHANGED key

\* The client gets the answer or an error, or the reply cannot be sent.
Conclude(o) ==
  /\ phase[o] = "relayed"
  /\ \E outcome \in {"answered", "refused", "unreachable"} :
       phase' = [phase EXCEPT ![o] = outcome]
  /\ UNCHANGED key

Next ==
  \/ \E o \in Offers : (\E k \in Keys : Receive(o, k)) \/ Relay(o) \/ Conclude(o)
  \/ \E S \in SUBSET Gathering : Drop(S)

Spec == Init /\ [][Next]_vars
=============================================================================
