-------------------------- MODULE MCSessionNonces --------------------------
(* Two statuses that ask for different restrictions, and their hidden form. *)
EXTENDS SessionNonces, TLC

MCStatuses == {"friends", "invited"}
MCHidden == [st \in {"friends", "invited", "hidden"} |-> "hidden"]
MCRestriction == ("friends" :> "followed") @@ ("invited" :> "local")
=============================================================================
