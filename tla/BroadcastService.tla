-------------------------- MODULE BroadcastService --------------------------
(* What a supervisor of the Broadcaster relies on: a service that is stopped,
   serving, being repaired, ending or failed, and the session new players are
   sent to. *)
CONSTANTS
  Sessions,
  NoSession

VARIABLES
  phase,
  current   \* the session on offer

Phases == {"stopped", "serving", "repairing", "ending", "failed"}

Init == phase = "stopped" /\ current = NoSession

\* The service begins with a session on offer.
Start ==
  /\ phase = "stopped"
  /\ phase' = "serving" /\ current' \in Sessions

\* A session is replaced by another at once, never by none.
Rotate ==
  /\ phase = "serving"
  /\ current' \in Sessions /\ UNCHANGED phase

\* A repair starts from a service that has its session still.
Repair == phase = "serving" /\ phase' = "repairing" /\ UNCHANGED current

\* An attempt withdraws the session, or offers a new one.
Attempt ==
  /\ phase = "repairing"
  /\ current' \in Sessions \cup {NoSession} /\ UNCHANGED phase

\* A repair is over: with a session, or for good.
Repaired == phase = "repairing" /\ current \in Sessions /\ phase' = "serving" /\ UNCHANGED current
Fail == phase = "repairing" /\ current = NoSession /\ phase' = "failed" /\ UNCHANGED current

\* The context of Start ends.  What was under way may still change the session.
Stop == phase \in {"serving", "repairing"} /\ phase' = "ending" /\ UNCHANGED current
WindDown == phase = "ending" /\ current' \in Sessions \cup {NoSession} /\ UNCHANGED phase

Close == phase # "stopped" /\ phase' = "stopped" /\ current' = NoSession

Next ==
  \/ Start \/ Rotate \/ Repair \/ Attempt \/ Repaired \/ Fail \/ Stop \/ WindDown \/ Close

Spec == Init /\ [][Next]_<<phase, current>>
=============================================================================
