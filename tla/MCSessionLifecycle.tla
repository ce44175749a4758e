-------------------------- MODULE MCSessionLifecycle --------------------------
(***************************************************************************)
(* SessionLifecycle for TLC.  Announcers, and the connections the          *)
(* Broadcaster dials itself, are interchangeable.                          *)
(***************************************************************************)
EXTENDS SessionLifecycle, TLC

SessionSymmetry == Permutations(Sessions)

Symmetry == Permutations(Sessions) \cup Permutations(Signalings)
=============================================================================
