--------------------------- MODULE FriendSyncProofs ---------------------------
(****************************************************************************)
(* Proofs about FriendSync, for any finite set of players, any delays and   *)
(* any configuration.                                                       *)
(****************************************************************************)
EXTENDS FriendSync, FiniteSetTheorems, TLAPS

-----------------------------------------------------------------------------
(* The inductive invariant.                                                 *)

InPass == {"read", "bulk", "each", "decline", "list", "expiring"}
Adding == {"read", "bulk", "each", "decline"}

\* A pass begins with an empty result, and nothing of it is left at the select.
FreshResult == pc \in {"wait", "read", "bulk", "off"} => result = NoResult

\* Reads: no pass goes on, and no other begins, while they are limited.
ReadInv ==
  /\ pc \in InPass => closed.read = 0
  /\ pc = "record" => closed.read <= result.readRetryAfter
  /\ pc \in {"wait", "off"} => closed.read <= nextScan

\* Adds: what record will make of the backoff covers Xbox's delay.
AddInv ==
  /\ pc \in Adding => closed.add = 0
  /\ closed.add <= Backoff(addRetryUntil, result.addRetryAfter)

\* Removals: the same, and a pass that may remove was not limited.
RemoveInv ==
  /\ pc \notin {"wait", "off"} /\ opts.remove /\ result.removeRetryAfter = 0
       => closed.remove = 0
  /\ closed.remove <= Backoff(removeRetryUntil, result.removeRetryAfter)

\* The hold of a player, once the pass is recorded.
HoldFor(p) ==
  Greatest(skipFor[p], IF p \in result.fullPlayers THEN Hold ELSE result.waits[p])

\* Players: their hold covers what Xbox or their refusal asks for; those a pass
\* is still to ask for are not held and were not refused in it.
HoldInv ==
  \A p \in Players :
    /\ quiet[p] <= HoldFor(p)
    /\ pc = "read" /\ p \notin opts.skip => quiet[p] = 0
    /\ pc \in {"bulk", "each", "decline"} /\ p \in todo =>
         quiet[p] = 0 /\ p \notin result.fullPlayers

\* The timer is what the last iteration of Run made it.
TimerInv == pc = "wait" => timer = NextWake(pending, nextScan, nextPoll, nextExpiry)

\* Until the pass has an accept, what counts for a full list is unanswered.
FullInv ==
  ~result.accepted =>
    /\ {p \in Players : fresh[p] > 0} \cup result.fullPlayers \subseteq unanswered
    /\ full => Cardinality(unanswered) >= FullListPlayers

IInv ==
  /\ TypeOK /\ FreshResult /\ ReadInv /\ AddInv /\ RemoveInv /\ HoldInv
  /\ TimerInv /\ FullInv

-----------------------------------------------------------------------------

(* Facts about the helpers.                                                 *)

(* Where the sync goes after the adds: to list again, or to record its
   result. *)
LEMMA AfterAddsIs == \A e : AfterAdds(e) \subseteq {"list", "record"}
BY DEF AfterAdds

(* A countdown stays a number and falls by one until it is zero. *)
LEMMA CountdownIs ==
  \A n \in Nat : Earlier(n) \in Nat /\ Earlier(n) <= n /\ (n > 0 => Earlier(n) = n - 1)
BY DEF Earlier

(* The later of two times is a number no smaller than either. *)
LEMMA GreatestIs ==
  \A a, b \in Nat : Greatest(a, b) \in Nat /\ a <= Greatest(a, b) /\ b <= Greatest(a, b)
BY DEF Greatest

(* The time until the next wake is a number. *)
LEMMA NextWakeIs ==
  \A w \in BOOLEAN, s, p, e \in Nat : NextWake(w, s, p, e) \in Nat
BY ConstantsAssumption DEF NextWake, Least

-----------------------------------------------------------------------------
(* Type correctness.                                                        *)

(* The empty result of a sync that has done nothing is a result. *)
LEMMA NoResultIs == NoResult \in FriendSyncResult
<1> DEFINE none == [p \in Players |-> 0]
<1>1. none \in [Players -> Nat]
  OBVIOUS
<1> HIDE DEF none
<1>2. NoResult = [readRetryAfter |-> 0, addRetryAfter |-> 0, removeRetryAfter |-> 0,
                  accepted |-> FALSE, fullPlayers |-> {}, waits |-> none,
                  pendingRead |-> FALSE]
  BY DEF none, NoResult
<1> QED
  BY <1>1, <1>2 DEF FriendSyncResult

(* The types hold initially. *)
LEMMA InitTypes == Init => TypeOK
<1> SUFFICES ASSUME Init PROVE TypeOK
  OBVIOUS
<1>1. RunOK
  BY DEF Init, RunOK
<1>2. PassOK
  BY ConstantsAssumption, NoResultIs DEF Init, PassOK, NoOptions, FriendSyncResult
<1>3. StateOK
  BY DEF Init, StateOK
<1>4. XboxOK
  BY DEF Init, XboxOK
<1> QED
  BY <1>1, <1>2, <1>3, <1>4 DEF TypeOK

(* Every step keeps the types, action by action. *)
LEMMA TypesPreserved ==
  ASSUME TypeOK, [Next]_vars
  PROVE  TypeOK'
<1>1. ASSUME NEW event \in BOOLEAN, Wake(event)
      PROVE  TypeOK'
  <2> USE DEF TypeOK, RunOK, PassOK, StateOK, XboxOK, FriendSyncResult, vars,
      schedule, pass, state, xbox
  <2>1. RunOK'
    <3>1. pc' \in {"wait", "read", "list", "record"}
      BY <1>1, AfterAddsIs DEF Wake
    <3>2. timer' \in Nat
      BY <1>1 DEF Wake, NextWake, Least
    <3>3. (pending') \in BOOLEAN /\ (expire') \in BOOLEAN /\ (trigger') \in BOOLEAN
      BY <1>1 DEF Wake
    <3> QED
      BY <1>1, <3>1, <3>2, <3>3 DEF Wake
  <2>2. PassOK'
    <3>1. (opts') \in [remove : BOOLEAN, skip : SUBSET Players]
      <4>1. (removeRetryUntil = 0) \in BOOLEAN /\ Skipped \in SUBSET Players
        BY DEF Skipped
      <4>2. CASE UNCHANGED opts
        BY <4>2
      <4>3. CASE opts' = [remove |-> removeRetryUntil = 0, skip |-> Skipped]
        <5> DEFINE remove == removeRetryUntil = 0
                   skip == Skipped
        <5>1. remove \in BOOLEAN /\ skip \in SUBSET Players
          BY <4>1
        <5>2. opts' = [remove |-> remove, skip |-> skip]
          BY <4>3
        <5> HIDE DEF remove, skip
        <5> QED
          BY <5>1, <5>2, Zenon
      <4> QED
        BY <1>1, <4>2, <4>3 DEF Wake
    <3> QED
      BY <1>1, <3>1 DEF Wake
  <2>3. StateOK'
    BY <1>1, ConstantsAssumption, AfterAddsIs, NextWakeIs DEF Wake, Skipped
  <2>4. XboxOK'
    BY <1>1, ConstantsAssumption, AfterAddsIs, NextWakeIs DEF Wake, Skipped
  <2> QED
    BY <2>1, <2>2, <2>3, <2>4
<1>2. ASSUME Stop
      PROVE  TypeOK'
  BY <1>2, ConstantsAssumption, AfterAddsIs
  DEF Stop, TypeOK, RunOK, PassOK, StateOK, XboxOK, FriendSyncResult, vars, schedule,
      pass, state, xbox
<1>3. ASSUME ReadPending
      PROVE  TypeOK'
  <2> USE DEF ReadPending, TypeOK
  <2>1. RunOK'
    BY <1>3, ConstantsAssumption, AfterAddsIs DEF RunOK, schedule
  <2>2. PassOK'
    <3>1. result' \in FriendSyncResult
      BY <1>3 DEF PassOK, FriendSyncResult
    <3>2. todo' \in SUBSET Players
      BY <1>3 DEF XboxOK
    <3> QED
      BY <1>3, <3>1, <3>2 DEF PassOK
  <2>3. StateOK'
    BY <1>3, ConstantsAssumption DEF StateOK, state
  <2>4. XboxOK'
    BY <1>3, ConstantsAssumption DEF XboxOK, xbox
  <2> QED
    BY <2>1, <2>2, <2>3, <2>4
<1>4. ASSUME NEW d \in Delays \cup {0}, ReadPendingFails(d)
      PROVE  TypeOK'
  BY <1>4, ConstantsAssumption, AfterAddsIs
  DEF ReadPendingFails, TypeOK, RunOK, PassOK, StateOK, XboxOK, FriendSyncResult,
      vars, schedule, pass, state, xbox
<1>5. ASSUME NEW accepted \in SUBSET todo, NEW held \in SUBSET (todo \ accepted),
               NEW waits \in [held -> Delays], NEW stop \in {"none", "account", "other"},
               NEW d \in Delays, BulkAccept(accepted, waits, stop, d)
      PROVE  TypeOK'
  <2> USE DEF TypeOK, RunOK, PassOK, StateOK, XboxOK, FriendSyncResult, vars,
      schedule, pass, state, xbox
  <2>1. RunOK'
    BY <1>5, ConstantsAssumption, AfterAddsIs DEF BulkAccept, LeftOver
  <2>2. PassOK'
    <3>1. (result') \in FriendSyncResult
      <4>1. [p \in Players |-> IF p \in DOMAIN waits THEN waits[p] ELSE 0] \in [Players -> Nat]
        BY ConstantsAssumption
      <4>2. (accepted # {}) \in BOOLEAN /\ (IF stop = "account" THEN d ELSE 0) \in Nat
        BY ConstantsAssumption
      <4>3. PICK read \in BOOLEAN : result' =
              [result EXCEPT !.accepted = accepted # {},
                 !.addRetryAfter = IF stop = "account" THEN d ELSE 0,
                 !.waits = [p \in Players |-> IF p \in DOMAIN waits THEN waits[p] ELSE 0],
                 !.pendingRead = read]
        BY <1>5 DEF BulkAccept
      <4> QED
        BY <4>1, <4>2, <4>3 DEF FriendSyncResult
    <3>2. (todo') \in SUBSET Players
      BY <1>5 DEF BulkAccept, LeftOver
    <3> QED
      BY <1>5, <3>1, <3>2 DEF BulkAccept, FriendSyncResult
  <2>3. StateOK'
    BY <1>5, ConstantsAssumption, AfterAddsIs DEF BulkAccept, LeftOver
  <2>4. XboxOK'
    BY <1>5, ConstantsAssumption, AfterAddsIs DEF BulkAccept, LeftOver
  <2> QED
    BY <2>1, <2>2, <2>3, <2>4
<1>6. ASSUME NEW p \in Players, Added(p)
      PROVE  TypeOK'
  <2> USE DEF TypeOK, RunOK, PassOK, StateOK, XboxOK, FriendSyncResult, vars,
      schedule, pass, state, xbox
  <2>1. RunOK'
    BY <1>6, ConstantsAssumption, AfterAddsIs DEF Added, Asked
  <2>2. PassOK'
    BY <1>6, ConstantsAssumption, AfterAddsIs DEF Added, Asked
  <2>3. StateOK'
    BY <1>6, ConstantsAssumption, AfterAddsIs DEF Added, Asked
  <2>4. XboxOK'
    BY <1>6, ConstantsAssumption, AfterAddsIs DEF Added, Asked
  <2> QED
    BY <2>1, <2>2, <2>3, <2>4
<1>7. ASSUME NEW p \in Players, Restricted(p)
      PROVE  TypeOK'
  <2> USE DEF TypeOK, RunOK, PassOK, StateOK, XboxOK, FriendSyncResult, vars,
      schedule, pass, state, xbox
  <2>1. RunOK'
    BY <1>7, ConstantsAssumption, AfterAddsIs DEF Restricted
  <2>2. PassOK'
    BY <1>7, ConstantsAssumption, AfterAddsIs DEF Restricted
  <2>3. StateOK'
    BY <1>7, ConstantsAssumption, AfterAddsIs DEF Restricted
  <2>4. XboxOK'
    BY <1>7, ConstantsAssumption, AfterAddsIs DEF Restricted
  <2> QED
    BY <2>1, <2>2, <2>3, <2>4
<1>8. ASSUME NEW p \in Players, Refused(p)
      PROVE  TypeOK'
  <2> USE DEF TypeOK, RunOK, PassOK, StateOK, XboxOK, FriendSyncResult, vars,
      schedule, pass, state, xbox
  <2>1. RunOK'
    BY <1>8, ConstantsAssumption, AfterAddsIs DEF Refused, Asked
  <2>2. PassOK'
    BY <1>8, ConstantsAssumption, AfterAddsIs DEF Refused, Asked
  <2>3. StateOK'
    BY <1>8, ConstantsAssumption, AfterAddsIs DEF Refused, Asked
  <2>4. XboxOK'
    BY <1>8, ConstantsAssumption, AfterAddsIs DEF Refused, Asked
  <2> QED
    BY <2>1, <2>2, <2>3, <2>4
<1>9. ASSUME NEW p \in Players, NEW d \in Delays, Limited(p, d)
      PROVE  TypeOK'
  <2> USE DEF TypeOK, RunOK, PassOK, StateOK, XboxOK, FriendSyncResult, vars,
      schedule, pass, state, xbox
  <2>1. RunOK'
    BY <1>9, ConstantsAssumption, AfterAddsIs DEF Limited, Asked
  <2>2. PassOK'
    BY <1>9, ConstantsAssumption, AfterAddsIs DEF Limited, Asked
  <2>3. StateOK'
    BY <1>9, ConstantsAssumption, AfterAddsIs DEF Limited, Asked
  <2>4. XboxOK'
    BY <1>9, ConstantsAssumption, AfterAddsIs DEF Limited, Asked
  <2> QED
    BY <2>1, <2>2, <2>3, <2>4
<1>10. ASSUME NEW p \in Players, NEW d \in Delays \cup {Hold}, Waits(p, d)
      PROVE  TypeOK'
  <2> USE DEF TypeOK, RunOK, PassOK, StateOK, XboxOK, FriendSyncResult, vars,
      schedule, pass, state, xbox
  <2>1. RunOK'
    BY <1>10, ConstantsAssumption, AfterAddsIs DEF Waits, Asked
  <2>2. PassOK'
    BY <1>10, ConstantsAssumption, AfterAddsIs DEF Waits, Asked
  <2>3. StateOK'
    BY <1>10, ConstantsAssumption, AfterAddsIs DEF Waits, Asked
  <2>4. XboxOK'
    BY <1>10, ConstantsAssumption, AfterAddsIs DEF Waits, Asked
  <2> QED
    BY <2>1, <2>2, <2>3, <2>4
<1>11. ASSUME NEW p \in Players, AddFails(p)
      PROVE  TypeOK'
  <2> USE DEF TypeOK, RunOK, PassOK, StateOK, XboxOK, FriendSyncResult, vars,
      schedule, pass, state, xbox
  <2>1. RunOK'
    BY <1>11, ConstantsAssumption, AfterAddsIs DEF AddFails, Asked
  <2>2. PassOK'
    BY <1>11, ConstantsAssumption, AfterAddsIs DEF AddFails, Asked
  <2>3. StateOK'
    BY <1>11, ConstantsAssumption, AfterAddsIs DEF AddFails, Asked
  <2>4. XboxOK'
    BY <1>11, ConstantsAssumption, AfterAddsIs DEF AddFails, Asked
  <2> QED
    BY <2>1, <2>2, <2>3, <2>4
<1>12. ASSUME Decline
      PROVE  TypeOK'
  <2> USE DEF TypeOK, RunOK, PassOK, StateOK, XboxOK, FriendSyncResult, vars,
      schedule, pass, state, xbox
  <2>1. RunOK'
    BY <1>12, ConstantsAssumption, AfterAddsIs DEF Decline
  <2>2. PassOK'
    BY <1>12, ConstantsAssumption, AfterAddsIs DEF Decline
  <2>3. StateOK'
    BY <1>12, ConstantsAssumption, AfterAddsIs DEF Decline
  <2>4. XboxOK'
    BY <1>12, ConstantsAssumption, AfterAddsIs DEF Decline
  <2> QED
    BY <2>1, <2>2, <2>3, <2>4
<1>13. ASSUME ListFriends
      PROVE  TypeOK'
  BY <1>13, ConstantsAssumption, AfterAddsIs
  DEF ListFriends, TypeOK, RunOK, PassOK, StateOK, XboxOK, FriendSyncResult, vars,
      schedule, pass, state, xbox
<1>14. ASSUME NEW d \in Delays \cup {0}, ListFriendsFails(d)
      PROVE  TypeOK'
  BY <1>14, ConstantsAssumption, AfterAddsIs
  DEF ListFriendsFails, TypeOK, RunOK, PassOK, StateOK, XboxOK, FriendSyncResult,
      vars, schedule, pass, state, xbox
<1>15. ASSUME NEW d \in Delays \cup {0}, RemoveFriend(d)
      PROVE  TypeOK'
  <2> USE DEF TypeOK, RunOK, PassOK, StateOK, XboxOK, FriendSyncResult, vars,
      schedule, pass, state, xbox
  <2>1. RunOK'
    BY <1>15, ConstantsAssumption, AfterAddsIs DEF RemoveFriend, Removing
  <2>2. PassOK'
    BY <1>15, ConstantsAssumption, AfterAddsIs DEF RemoveFriend, Removing
  <2>3. StateOK'
    BY <1>15, ConstantsAssumption, AfterAddsIs DEF RemoveFriend, Removing
  <2>4. XboxOK'
    BY <1>15, ConstantsAssumption, AfterAddsIs DEF RemoveFriend, Removing
  <2> QED
    BY <2>1, <2>2, <2>3, <2>4
<1>16. ASSUME ExpiryEnds
      PROVE  TypeOK'
  BY <1>16, ConstantsAssumption, AfterAddsIs
  DEF ExpiryEnds, Removing, TypeOK, RunOK, PassOK, StateOK, XboxOK, FriendSyncResult,
      vars, schedule, pass, state, xbox
<1>17. ASSUME Record
      PROVE  TypeOK'
  <2> USE DEF TypeOK, RunOK, PassOK, StateOK, XboxOK, FriendSyncResult, vars,
      schedule, pass, state, xbox
  <2>1. RunOK'
    <3>1. nextScan' \in Nat /\ nextPoll' \in Nat /\ nextExpiry' \in Nat
      BY <1>17, ConstantsAssumption, GreatestIs DEF Record, Reschedule
    <3>2. (pending') \in BOOLEAN
      BY <1>17 DEF Record, Reschedule
    <3>3. (expire') \in BOOLEAN
      BY <1>17 DEF Record, Reschedule
    <3>4. timer' \in Nat
      BY <1>17, <3>1, <3>2, NextWakeIs DEF Record, Reschedule
    <3> QED
      BY <1>17, <3>1, <3>2, <3>3, <3>4 DEF Record
  <2>2. PassOK'
    BY <1>17, ConstantsAssumption, AfterAddsIs, GreatestIs, NextWakeIs DEF Record,
        RecordState, Reschedule, Backoff, Fresh, NoOptions, NoResult
  <2>3. StateOK'
    <3>1. addRetryUntil' \in Nat /\ removeRetryUntil' \in Nat
      BY <1>17 DEF Record, RecordState, Backoff
    <3>2. skipFor' \in [Players -> Nat]
      BY <1>17, ConstantsAssumption, GreatestIs DEF Record, RecordState
    <3>3. fresh' \in [Players -> Nat]
      BY <1>17, ConstantsAssumption DEF Record, RecordState, Fresh
    <3>4. (refusedBefore') \in SUBSET Players
      BY <1>17 DEF Record, RecordState
    <3>5. (started') \in BOOLEAN /\ (full') \in BOOLEAN
      BY <1>17 DEF Record, RecordState
    <3> QED
      BY <3>1, <3>2, <3>3, <3>4, <3>5
  <2>4. XboxOK'
    BY <1>17, ConstantsAssumption, AfterAddsIs, GreatestIs, NextWakeIs DEF Record,
        RecordState, Reschedule, Backoff, Fresh, NoOptions, NoResult
  <2> QED
    BY <2>1, <2>2, <2>3, <2>4
<1>18. ASSUME NEW p \in Players, PlayerActs(p)
      PROVE  TypeOK'
  <2> USE DEF TypeOK, RunOK, PassOK, StateOK, XboxOK, FriendSyncResult, vars,
      schedule, pass, state, xbox
  <2>1. RunOK'
    <3>1. (trigger') \in BOOLEAN
      BY <1>18 DEF PlayerActs
    <3> QED
      BY <1>18, <3>1 DEF PlayerActs
  <2>2. PassOK'
    BY <1>18, ConstantsAssumption, AfterAddsIs DEF PlayerActs
  <2>3. StateOK'
    BY <1>18, ConstantsAssumption, AfterAddsIs DEF PlayerActs
  <2>4. XboxOK'
    BY <1>18, ConstantsAssumption, AfterAddsIs DEF PlayerActs
  <2> QED
    BY <2>1, <2>2, <2>3, <2>4
<1>19. ASSUME Signal
      PROVE  TypeOK'
  BY <1>19, ConstantsAssumption, AfterAddsIs
  DEF Signal, TypeOK, RunOK, PassOK, StateOK, XboxOK, FriendSyncResult, vars,
      schedule, pass, state, xbox
<1>20. ASSUME Tick
      PROVE  TypeOK'
  <2> USE DEF TypeOK, RunOK, PassOK, StateOK, XboxOK, FriendSyncResult, vars,
      schedule, pass, state, xbox
  <2>1. RunOK'
    BY <1>20, ConstantsAssumption, AfterAddsIs, CountdownIs DEF Tick
  <2>2. PassOK'
    BY <1>20, ConstantsAssumption, AfterAddsIs, CountdownIs DEF Tick
  <2>3. StateOK'
    BY <1>20, ConstantsAssumption, AfterAddsIs, CountdownIs DEF Tick
  <2>4. XboxOK'
    BY <1>20, ConstantsAssumption, AfterAddsIs, CountdownIs DEF Tick
  <2> QED
    BY <2>1, <2>2, <2>3, <2>4
<1>21. ASSUME UNCHANGED vars
      PROVE  TypeOK'
  BY <1>21, ConstantsAssumption, AfterAddsIs
  DEF TypeOK, RunOK, PassOK, StateOK, XboxOK, FriendSyncResult, vars, schedule, pass,
      state, xbox
<1>22. ASSUME Bulk PROVE TypeOK'
  BY <1>5, <1>22 DEF Bulk
<1>23. ASSUME NEW p \in Players, AddFriend(p) PROVE TypeOK'
  BY <1>6, <1>7, <1>8, <1>9, <1>10, <1>11, <1>23 DEF AddFriend
<1> QED
  BY <1>1, <1>2, <1>3, <1>4, <1>12, <1>13, <1>14, <1>15, <1>16, <1>17, <1>18, <1>19,
     <1>20, <1>21, <1>22, <1>23
  DEF Next, Work

-----------------------------------------------------------------------------
(* What a pass begins with.                                                 *)

(* Every step keeps the result of the running sync as fresh as its phase
   says. *)
LEMMA FreshResultPreserved ==
  ASSUME TypeOK, FreshResult, [Next]_vars
  PROVE  FreshResult'
<1>1. ASSUME NEW event \in BOOLEAN, Wake(event)
      PROVE  FreshResult'
  BY <1>1, AfterAddsIs
  DEF Wake, Skipped, FreshResult, vars, schedule, pass, state, xbox
<1>2. ASSUME Stop
      PROVE  FreshResult'
  BY <1>2, AfterAddsIs
  DEF Stop, FreshResult, vars, schedule, pass, state, xbox
<1>3. ASSUME ReadPending
      PROVE  FreshResult'
  BY <1>3, AfterAddsIs
  DEF ReadPending, FreshResult, vars, schedule, pass, state, xbox
<1>4. ASSUME NEW d \in Delays \cup {0}, ReadPendingFails(d)
      PROVE  FreshResult'
  BY <1>4, AfterAddsIs
  DEF ReadPendingFails, FreshResult, vars, schedule, pass, state, xbox
<1>5. ASSUME NEW accepted \in SUBSET todo, NEW held \in SUBSET (todo \ accepted),
               NEW waits \in [held -> Delays], NEW stop \in {"none", "account", "other"},
               NEW d \in Delays, BulkAccept(accepted, waits, stop, d)
      PROVE  FreshResult'
  BY <1>5, AfterAddsIs
  DEF BulkAccept, LeftOver, FreshResult, vars, schedule, pass, state, xbox
<1>6. ASSUME NEW p \in Players, Added(p)
      PROVE  FreshResult'
  BY <1>6, AfterAddsIs
  DEF Added, Asked, FreshResult, vars, schedule, pass, state, xbox
<1>7. ASSUME NEW p \in Players, Restricted(p)
      PROVE  FreshResult'
  BY <1>7, AfterAddsIs
  DEF Restricted, FreshResult, vars, schedule, pass, state, xbox
<1>8. ASSUME NEW p \in Players, Refused(p)
      PROVE  FreshResult'
  BY <1>8, AfterAddsIs
  DEF Refused, Asked, FreshResult, vars, schedule, pass, state, xbox
<1>9. ASSUME NEW p \in Players, NEW d \in Delays, Limited(p, d)
      PROVE  FreshResult'
  BY <1>9, AfterAddsIs
  DEF Limited, Asked, FreshResult, vars, schedule, pass, state, xbox
<1>10. ASSUME NEW p \in Players, NEW d \in Delays \cup {Hold}, Waits(p, d)
      PROVE  FreshResult'
  BY <1>10, AfterAddsIs
  DEF Waits, Asked, FreshResult, vars, schedule, pass, state, xbox
<1>11. ASSUME NEW p \in Players, AddFails(p)
      PROVE  FreshResult'
  BY <1>11, AfterAddsIs
  DEF AddFails, Asked, FreshResult, vars, schedule, pass, state, xbox
<1>12. ASSUME Decline
      PROVE  FreshResult'
  BY <1>12, AfterAddsIs
  DEF Decline, FreshResult, vars, schedule, pass, state, xbox
<1>13. ASSUME ListFriends
      PROVE  FreshResult'
  BY <1>13, AfterAddsIs
  DEF ListFriends, FreshResult, vars, schedule, pass, state, xbox
<1>14. ASSUME NEW d \in Delays \cup {0}, ListFriendsFails(d)
      PROVE  FreshResult'
  BY <1>14, AfterAddsIs
  DEF ListFriendsFails, FreshResult, vars, schedule, pass, state, xbox
<1>15. ASSUME NEW d \in Delays \cup {0}, RemoveFriend(d)
      PROVE  FreshResult'
  BY <1>15, AfterAddsIs
  DEF RemoveFriend, Removing, FreshResult, vars, schedule, pass, state, xbox
<1>16. ASSUME ExpiryEnds
      PROVE  FreshResult'
  BY <1>16, AfterAddsIs
  DEF ExpiryEnds, Removing, FreshResult, vars, schedule, pass, state, xbox
<1>17. ASSUME Record
      PROVE  FreshResult'
  BY <1>17, AfterAddsIs
  DEF Record, RecordState, Reschedule, Backoff, Fresh, NoOptions, NoResult,
      FreshResult, vars, schedule, pass, state, xbox
<1>18. ASSUME NEW p \in Players, PlayerActs(p)
      PROVE  FreshResult'
  BY <1>18, AfterAddsIs
  DEF PlayerActs, FreshResult, vars, schedule, pass, state, xbox
<1>19. ASSUME Signal
      PROVE  FreshResult'
  BY <1>19, AfterAddsIs
  DEF Signal, FreshResult, vars, schedule, pass, state, xbox
<1>20. ASSUME Tick
      PROVE  FreshResult'
  BY <1>20, AfterAddsIs
  DEF Tick, FreshResult, vars, schedule, pass, state, xbox
<1>21. ASSUME UNCHANGED vars
      PROVE  FreshResult'
  BY <1>21, AfterAddsIs
  DEF FreshResult, vars, schedule, pass, state, xbox
<1>22. ASSUME Bulk PROVE FreshResult'
  BY <1>5, <1>22 DEF Bulk
<1>23. ASSUME NEW p \in Players, AddFriend(p) PROVE FreshResult'
  BY <1>6, <1>7, <1>8, <1>9, <1>10, <1>11, <1>23 DEF AddFriend
<1> QED
  BY <1>1, <1>2, <1>3, <1>4, <1>12, <1>13, <1>14, <1>15, <1>16, <1>17, <1>18, <1>19,
     <1>20, <1>21, <1>22, <1>23
  DEF Next, Work

-----------------------------------------------------------------------------
(* Reads.                                                                   *)

(* Every step keeps reads from going on, or from being due, while limited. *)
LEMMA ReadInvPreserved ==
  ASSUME TypeOK, FreshResult, ReadInv, [Next]_vars
  PROVE  ReadInv'
<1>1. ASSUME NEW event \in BOOLEAN, Wake(event)
      PROVE  ReadInv'
  BY <1>1, ConstantsAssumption, AfterAddsIs
  DEF Wake, Skipped, FreshResult, NoResult, ReadInv, InPass, TypeOK, RunOK, PassOK,
      XboxOK, FriendSyncResult, vars, schedule, pass, state, xbox
<1>2. ASSUME Stop
      PROVE  ReadInv'
  BY <1>2, ConstantsAssumption, AfterAddsIs
  DEF Stop, ReadInv, InPass, TypeOK, RunOK, PassOK, XboxOK, FriendSyncResult, vars,
      schedule, pass, state, xbox
<1>3. ASSUME ReadPending
      PROVE  ReadInv'
  BY <1>3, ConstantsAssumption, AfterAddsIs
  DEF ReadPending, ReadInv, InPass, TypeOK, RunOK, PassOK, XboxOK, FriendSyncResult,
      vars, schedule, pass, state, xbox
<1>4. ASSUME NEW d \in Delays \cup {0}, ReadPendingFails(d)
      PROVE  ReadInv'
  BY <1>4, ConstantsAssumption, AfterAddsIs
  DEF ReadPendingFails, ReadInv, InPass, TypeOK, RunOK, PassOK, XboxOK,
      FriendSyncResult, vars, schedule, pass, state, xbox
<1>5. ASSUME NEW accepted \in SUBSET todo, NEW held \in SUBSET (todo \ accepted),
               NEW waits \in [held -> Delays], NEW stop \in {"none", "account", "other"},
               NEW d \in Delays, BulkAccept(accepted, waits, stop, d)
      PROVE  ReadInv'
  BY <1>5, ConstantsAssumption, AfterAddsIs
  DEF BulkAccept, LeftOver, ReadInv, InPass, TypeOK, RunOK, PassOK, XboxOK,
      FriendSyncResult, vars, schedule, pass, state, xbox
<1>6. ASSUME NEW p \in Players, Added(p)
      PROVE  ReadInv'
  BY <1>6, ConstantsAssumption, AfterAddsIs
  DEF Added, Asked, ReadInv, InPass, TypeOK, RunOK, PassOK, XboxOK, FriendSyncResult,
      vars, schedule, pass, state, xbox
<1>7. ASSUME NEW p \in Players, Restricted(p)
      PROVE  ReadInv'
  BY <1>7, ConstantsAssumption, AfterAddsIs
  DEF Restricted, ReadInv, InPass, TypeOK, RunOK, PassOK, XboxOK, FriendSyncResult,
      vars, schedule, pass, state, xbox
<1>8. ASSUME NEW p \in Players, Refused(p)
      PROVE  ReadInv'
  BY <1>8, ConstantsAssumption, AfterAddsIs
  DEF Refused, Asked, ReadInv, InPass, TypeOK, RunOK, PassOK, XboxOK,
      FriendSyncResult, vars, schedule, pass, state, xbox
<1>9. ASSUME NEW p \in Players, NEW d \in Delays, Limited(p, d)
      PROVE  ReadInv'
  BY <1>9, ConstantsAssumption, AfterAddsIs
  DEF Limited, Asked, ReadInv, InPass, TypeOK, RunOK, PassOK, XboxOK,
      FriendSyncResult, vars, schedule, pass, state, xbox
<1>10. ASSUME NEW p \in Players, NEW d \in Delays \cup {Hold}, Waits(p, d)
      PROVE  ReadInv'
  BY <1>10, ConstantsAssumption, AfterAddsIs
  DEF Waits, Asked, ReadInv, InPass, TypeOK, RunOK, PassOK, XboxOK, FriendSyncResult,
      vars, schedule, pass, state, xbox
<1>11. ASSUME NEW p \in Players, AddFails(p)
      PROVE  ReadInv'
  BY <1>11, ConstantsAssumption, AfterAddsIs
  DEF AddFails, Asked, ReadInv, InPass, TypeOK, RunOK, PassOK, XboxOK,
      FriendSyncResult, vars, schedule, pass, state, xbox
<1>12. ASSUME Decline
      PROVE  ReadInv'
  BY <1>12, ConstantsAssumption, AfterAddsIs
  DEF Decline, ReadInv, InPass, TypeOK, RunOK, PassOK, XboxOK, FriendSyncResult, vars,
      schedule, pass, state, xbox
<1>13. ASSUME ListFriends
      PROVE  ReadInv'
  BY <1>13, ConstantsAssumption, AfterAddsIs
  DEF ListFriends, ReadInv, InPass, TypeOK, RunOK, PassOK, XboxOK, FriendSyncResult,
      vars, schedule, pass, state, xbox
<1>14. ASSUME NEW d \in Delays \cup {0}, ListFriendsFails(d)
      PROVE  ReadInv'
  BY <1>14, ConstantsAssumption, AfterAddsIs
  DEF ListFriendsFails, ReadInv, InPass, TypeOK, RunOK, PassOK, XboxOK,
      FriendSyncResult, vars, schedule, pass, state, xbox
<1>15. ASSUME NEW d \in Delays \cup {0}, RemoveFriend(d)
      PROVE  ReadInv'
  BY <1>15, ConstantsAssumption, AfterAddsIs
  DEF RemoveFriend, Removing, ReadInv, InPass, TypeOK, RunOK, PassOK, XboxOK,
      FriendSyncResult, vars, schedule, pass, state, xbox
<1>16. ASSUME ExpiryEnds
      PROVE  ReadInv'
  BY <1>16, ConstantsAssumption, AfterAddsIs
  DEF ExpiryEnds, Removing, ReadInv, InPass, TypeOK, RunOK, PassOK, XboxOK,
      FriendSyncResult, vars, schedule, pass, state, xbox
<1>17. ASSUME Record
      PROVE  ReadInv'
  BY <1>17, ConstantsAssumption, AfterAddsIs
  DEF Record, RecordState, Reschedule, Backoff, Fresh, NoOptions, NoResult, Greatest,
      ReadInv, InPass, TypeOK, RunOK, PassOK, XboxOK, FriendSyncResult, vars,
      schedule, pass, state, xbox
<1>18. ASSUME NEW p \in Players, PlayerActs(p)
      PROVE  ReadInv'
  BY <1>18, ConstantsAssumption, AfterAddsIs
  DEF PlayerActs, ReadInv, InPass, TypeOK, RunOK, PassOK, XboxOK, FriendSyncResult,
      vars, schedule, pass, state, xbox
<1>19. ASSUME Signal
      PROVE  ReadInv'
  BY <1>19, ConstantsAssumption, AfterAddsIs
  DEF Signal, ReadInv, InPass, TypeOK, RunOK, PassOK, XboxOK, FriendSyncResult, vars,
      schedule, pass, state, xbox
<1>20. ASSUME Tick
      PROVE  ReadInv'
  BY <1>20, ConstantsAssumption, AfterAddsIs
  DEF Tick, Earlier, ReadInv, InPass, TypeOK, RunOK, PassOK, XboxOK, FriendSyncResult,
      vars, schedule, pass, state, xbox
<1>21. ASSUME UNCHANGED vars
      PROVE  ReadInv'
  BY <1>21, ConstantsAssumption, AfterAddsIs
  DEF ReadInv, InPass, TypeOK, RunOK, PassOK, XboxOK, FriendSyncResult, vars,
      schedule, pass, state, xbox
<1>22. ASSUME Bulk PROVE ReadInv'
  BY <1>5, <1>22 DEF Bulk
<1>23. ASSUME NEW p \in Players, AddFriend(p) PROVE ReadInv'
  BY <1>6, <1>7, <1>8, <1>9, <1>10, <1>11, <1>23 DEF AddFriend
<1> QED
  BY <1>1, <1>2, <1>3, <1>4, <1>12, <1>13, <1>14, <1>15, <1>16, <1>17, <1>18, <1>19,
     <1>20, <1>21, <1>22, <1>23
  DEF Next, Work

-----------------------------------------------------------------------------
(* Adds.                                                                    *)

(* Every step keeps the backoff of adds over the delay Xbox asks for. *)
LEMMA AddInvPreserved ==
  ASSUME TypeOK, FreshResult, AddInv, [Next]_vars
  PROVE  AddInv'
<1>1. ASSUME NEW event \in BOOLEAN, Wake(event)
      PROVE  AddInv'
  BY <1>1, ConstantsAssumption, AfterAddsIs
  DEF Wake, Skipped, FreshResult, NoResult, AddInv, Adding, Backoff, TypeOK, PassOK,
      StateOK, XboxOK, FriendSyncResult, vars, schedule, pass, state, xbox
<1>2. ASSUME Stop
      PROVE  AddInv'
  BY <1>2, ConstantsAssumption, AfterAddsIs
  DEF Stop, AddInv, Adding, Backoff, TypeOK, PassOK, StateOK, XboxOK,
      FriendSyncResult, vars, schedule, pass, state, xbox
<1>3. ASSUME ReadPending
      PROVE  AddInv'
  BY <1>3, ConstantsAssumption, AfterAddsIs
  DEF ReadPending, AddInv, Adding, Backoff, TypeOK, PassOK, StateOK, XboxOK,
      FriendSyncResult, vars, schedule, pass, state, xbox
<1>4. ASSUME NEW d \in Delays \cup {0}, ReadPendingFails(d)
      PROVE  AddInv'
  BY <1>4, ConstantsAssumption, AfterAddsIs
  DEF ReadPendingFails, AddInv, Adding, Backoff, TypeOK, PassOK, StateOK, XboxOK,
      FriendSyncResult, vars, schedule, pass, state, xbox
<1>5. ASSUME NEW accepted \in SUBSET todo, NEW held \in SUBSET (todo \ accepted),
               NEW waits \in [held -> Delays], NEW stop \in {"none", "account", "other"},
               NEW d \in Delays, BulkAccept(accepted, waits, stop, d)
      PROVE  AddInv'
  <2> USE DEF AddInv, Adding, Backoff, TypeOK, PassOK, StateOK, XboxOK,
      FriendSyncResult, vars, schedule, pass, state, xbox
  <2>1. result.addRetryAfter = 0 /\ closed.add = 0
    BY <1>5 DEF BulkAccept, FreshResult, NoResult
  <2>2. result'.addRetryAfter = IF stop = "account" THEN d ELSE 0
    BY <1>5 DEF BulkAccept
  <2>3. CASE stop = "account"
    <3>1. pc' \in {"list", "record"} /\ closed'.add = d
      BY <1>5, <2>3, AfterAddsIs DEF BulkAccept
    <3> QED
      BY <1>5, <2>2, <2>3, <3>1, ConstantsAssumption DEF BulkAccept
  <2>4. CASE stop # "account"
    BY <1>5, <2>1, <2>2, <2>4 DEF BulkAccept
  <2> QED
    BY <2>3, <2>4
<1>6. ASSUME NEW p \in Players, Added(p)
      PROVE  AddInv'
  BY <1>6, ConstantsAssumption, AfterAddsIs
  DEF Added, Asked, AddInv, Adding, Backoff, TypeOK, PassOK, StateOK, XboxOK,
      FriendSyncResult, vars, schedule, pass, state, xbox
<1>7. ASSUME NEW p \in Players, Restricted(p)
      PROVE  AddInv'
  BY <1>7, ConstantsAssumption, AfterAddsIs
  DEF Restricted, AddInv, Adding, Backoff, TypeOK, PassOK, StateOK, XboxOK,
      FriendSyncResult, vars, schedule, pass, state, xbox
<1>8. ASSUME NEW p \in Players, Refused(p)
      PROVE  AddInv'
  BY <1>8, ConstantsAssumption, AfterAddsIs
  DEF Refused, Asked, AddInv, Adding, Backoff, TypeOK, PassOK, StateOK, XboxOK,
      FriendSyncResult, vars, schedule, pass, state, xbox
<1>9. ASSUME NEW p \in Players, NEW d \in Delays, Limited(p, d)
      PROVE  AddInv'
  BY <1>9, ConstantsAssumption, AfterAddsIs
  DEF Limited, Asked, AddBlocked, AddInv, Adding, Backoff, TypeOK, PassOK, StateOK,
      XboxOK, FriendSyncResult, vars, schedule, pass, state, xbox
<1>10. ASSUME NEW p \in Players, NEW d \in Delays \cup {Hold}, Waits(p, d)
      PROVE  AddInv'
  BY <1>10, ConstantsAssumption, AfterAddsIs
  DEF Waits, Asked, AddInv, Adding, Backoff, TypeOK, PassOK, StateOK, XboxOK,
      FriendSyncResult, vars, schedule, pass, state, xbox
<1>11. ASSUME NEW p \in Players, AddFails(p)
      PROVE  AddInv'
  BY <1>11, ConstantsAssumption, AfterAddsIs
  DEF AddFails, Asked, AddInv, Adding, Backoff, TypeOK, PassOK, StateOK, XboxOK,
      FriendSyncResult, vars, schedule, pass, state, xbox
<1>12. ASSUME Decline
      PROVE  AddInv'
  BY <1>12, ConstantsAssumption, AfterAddsIs
  DEF Decline, AddInv, Adding, Backoff, TypeOK, PassOK, StateOK, XboxOK,
      FriendSyncResult, vars, schedule, pass, state, xbox
<1>13. ASSUME ListFriends
      PROVE  AddInv'
  BY <1>13, ConstantsAssumption, AfterAddsIs
  DEF ListFriends, AddInv, Adding, Backoff, TypeOK, PassOK, StateOK, XboxOK,
      FriendSyncResult, vars, schedule, pass, state, xbox
<1>14. ASSUME NEW d \in Delays \cup {0}, ListFriendsFails(d)
      PROVE  AddInv'
  BY <1>14, ConstantsAssumption, AfterAddsIs
  DEF ListFriendsFails, AddInv, Adding, Backoff, TypeOK, PassOK, StateOK, XboxOK,
      FriendSyncResult, vars, schedule, pass, state, xbox
<1>15. ASSUME NEW d \in Delays \cup {0}, RemoveFriend(d)
      PROVE  AddInv'
  BY <1>15, ConstantsAssumption, AfterAddsIs
  DEF RemoveFriend, Removing, AddInv, Adding, Backoff, TypeOK, PassOK, StateOK,
      XboxOK, FriendSyncResult, vars, schedule, pass, state, xbox
<1>16. ASSUME ExpiryEnds
      PROVE  AddInv'
  BY <1>16, ConstantsAssumption, AfterAddsIs
  DEF ExpiryEnds, Removing, AddInv, Adding, Backoff, TypeOK, PassOK, StateOK, XboxOK,
      FriendSyncResult, vars, schedule, pass, state, xbox
<1>17. ASSUME Record
      PROVE  AddInv'
  BY <1>17, ConstantsAssumption, AfterAddsIs
  DEF Record, RecordState, Reschedule, Backoff, Fresh, NoOptions, NoResult, AddInv,
      Adding, Backoff, TypeOK, PassOK, StateOK, XboxOK, FriendSyncResult, vars,
      schedule, pass, state, xbox
<1>18. ASSUME NEW p \in Players, PlayerActs(p)
      PROVE  AddInv'
  BY <1>18, ConstantsAssumption, AfterAddsIs
  DEF PlayerActs, AddInv, Adding, Backoff, TypeOK, PassOK, StateOK, XboxOK,
      FriendSyncResult, vars, schedule, pass, state, xbox
<1>19. ASSUME Signal
      PROVE  AddInv'
  BY <1>19, ConstantsAssumption, AfterAddsIs
  DEF Signal, AddInv, Adding, Backoff, TypeOK, PassOK, StateOK, XboxOK,
      FriendSyncResult, vars, schedule, pass, state, xbox
<1>20. ASSUME Tick
      PROVE  AddInv'
  BY <1>20, ConstantsAssumption, AfterAddsIs
  DEF Tick, Earlier, AddInv, Adding, Backoff, TypeOK, PassOK, StateOK, XboxOK,
      FriendSyncResult, vars, schedule, pass, state, xbox
<1>21. ASSUME UNCHANGED vars
      PROVE  AddInv'
  BY <1>21, ConstantsAssumption, AfterAddsIs
  DEF AddInv, Adding, Backoff, TypeOK, PassOK, StateOK, XboxOK, FriendSyncResult,
      vars, schedule, pass, state, xbox
<1>22. ASSUME Bulk PROVE AddInv'
  BY <1>5, <1>22 DEF Bulk
<1>23. ASSUME NEW p \in Players, AddFriend(p) PROVE AddInv'
  BY <1>6, <1>7, <1>8, <1>9, <1>10, <1>11, <1>23 DEF AddFriend
<1> QED
  BY <1>1, <1>2, <1>3, <1>4, <1>12, <1>13, <1>14, <1>15, <1>16, <1>17, <1>18, <1>19,
     <1>20, <1>21, <1>22, <1>23
  DEF Next, Work

-----------------------------------------------------------------------------
(* Removals.                                                                *)

(* Every step keeps the backoff of removals over the delay Xbox asks for. *)
LEMMA RemoveInvPreserved ==
  ASSUME TypeOK, FreshResult, RemoveInv, [Next]_vars
  PROVE  RemoveInv'
<1>1. ASSUME NEW event \in BOOLEAN, Wake(event)
      PROVE  RemoveInv'
  BY <1>1, ConstantsAssumption, AfterAddsIs
  DEF Wake, Skipped, FreshResult, NoResult, RemoveInv, Backoff, TypeOK, PassOK,
      StateOK, XboxOK, FriendSyncResult, vars, schedule, pass, state, xbox
<1>2. ASSUME Stop
      PROVE  RemoveInv'
  BY <1>2, ConstantsAssumption, AfterAddsIs
  DEF Stop, RemoveInv, Backoff, TypeOK, PassOK, StateOK, XboxOK, FriendSyncResult,
      vars, schedule, pass, state, xbox
<1>3. ASSUME ReadPending
      PROVE  RemoveInv'
  BY <1>3, ConstantsAssumption, AfterAddsIs
  DEF ReadPending, RemoveInv, Backoff, TypeOK, PassOK, StateOK, XboxOK,
      FriendSyncResult, vars, schedule, pass, state, xbox
<1>4. ASSUME NEW d \in Delays \cup {0}, ReadPendingFails(d)
      PROVE  RemoveInv'
  BY <1>4, ConstantsAssumption, AfterAddsIs
  DEF ReadPendingFails, RemoveInv, Backoff, TypeOK, PassOK, StateOK, XboxOK,
      FriendSyncResult, vars, schedule, pass, state, xbox
<1>5. ASSUME NEW accepted \in SUBSET todo, NEW held \in SUBSET (todo \ accepted),
               NEW waits \in [held -> Delays], NEW stop \in {"none", "account", "other"},
               NEW d \in Delays, BulkAccept(accepted, waits, stop, d)
      PROVE  RemoveInv'
  BY <1>5, ConstantsAssumption, AfterAddsIs
  DEF BulkAccept, LeftOver, RemoveInv, Backoff, TypeOK, PassOK, StateOK, XboxOK,
      FriendSyncResult, vars, schedule, pass, state, xbox
<1>6. ASSUME NEW p \in Players, Added(p)
      PROVE  RemoveInv'
  BY <1>6, ConstantsAssumption, AfterAddsIs
  DEF Added, Asked, RemoveInv, Backoff, TypeOK, PassOK, StateOK, XboxOK,
      FriendSyncResult, vars, schedule, pass, state, xbox
<1>7. ASSUME NEW p \in Players, Restricted(p)
      PROVE  RemoveInv'
  BY <1>7, ConstantsAssumption, AfterAddsIs
  DEF Restricted, RemoveInv, Backoff, TypeOK, PassOK, StateOK, XboxOK,
      FriendSyncResult, vars, schedule, pass, state, xbox
<1>8. ASSUME NEW p \in Players, Refused(p)
      PROVE  RemoveInv'
  BY <1>8, ConstantsAssumption, AfterAddsIs
  DEF Refused, Asked, RemoveInv, Backoff, TypeOK, PassOK, StateOK, XboxOK,
      FriendSyncResult, vars, schedule, pass, state, xbox
<1>9. ASSUME NEW p \in Players, NEW d \in Delays, Limited(p, d)
      PROVE  RemoveInv'
  BY <1>9, ConstantsAssumption, AfterAddsIs
  DEF Limited, Asked, RemoveInv, Backoff, TypeOK, PassOK, StateOK, XboxOK,
      FriendSyncResult, vars, schedule, pass, state, xbox
<1>10. ASSUME NEW p \in Players, NEW d \in Delays \cup {Hold}, Waits(p, d)
      PROVE  RemoveInv'
  BY <1>10, ConstantsAssumption, AfterAddsIs
  DEF Waits, Asked, RemoveInv, Backoff, TypeOK, PassOK, StateOK, XboxOK,
      FriendSyncResult, vars, schedule, pass, state, xbox
<1>11. ASSUME NEW p \in Players, AddFails(p)
      PROVE  RemoveInv'
  BY <1>11, ConstantsAssumption, AfterAddsIs
  DEF AddFails, Asked, RemoveInv, Backoff, TypeOK, PassOK, StateOK, XboxOK,
      FriendSyncResult, vars, schedule, pass, state, xbox
<1>12. ASSUME Decline
      PROVE  RemoveInv'
  BY <1>12, ConstantsAssumption, AfterAddsIs
  DEF Decline, RemoveInv, Backoff, TypeOK, PassOK, StateOK, XboxOK, FriendSyncResult,
      vars, schedule, pass, state, xbox
<1>13. ASSUME ListFriends
      PROVE  RemoveInv'
  BY <1>13, ConstantsAssumption, AfterAddsIs
  DEF ListFriends, RemoveInv, Backoff, TypeOK, PassOK, StateOK, XboxOK,
      FriendSyncResult, vars, schedule, pass, state, xbox
<1>14. ASSUME NEW d \in Delays \cup {0}, ListFriendsFails(d)
      PROVE  RemoveInv'
  BY <1>14, ConstantsAssumption, AfterAddsIs
  DEF ListFriendsFails, RemoveInv, Backoff, TypeOK, PassOK, StateOK, XboxOK,
      FriendSyncResult, vars, schedule, pass, state, xbox
<1>15. ASSUME NEW d \in Delays \cup {0}, RemoveFriend(d)
      PROVE  RemoveInv'
  BY <1>15, ConstantsAssumption, AfterAddsIs
  DEF RemoveFriend, Removing, RemoveInv, Backoff, TypeOK, PassOK, StateOK, XboxOK,
      FriendSyncResult, vars, schedule, pass, state, xbox
<1>16. ASSUME ExpiryEnds
      PROVE  RemoveInv'
  BY <1>16, ConstantsAssumption, AfterAddsIs
  DEF ExpiryEnds, Removing, RemoveInv, Backoff, TypeOK, PassOK, StateOK, XboxOK,
      FriendSyncResult, vars, schedule, pass, state, xbox
<1>17. ASSUME Record
      PROVE  RemoveInv'
  BY <1>17, ConstantsAssumption, AfterAddsIs
  DEF Record, RecordState, Reschedule, Backoff, Fresh, NoOptions, NoResult, RemoveInv,
      Backoff, TypeOK, PassOK, StateOK, XboxOK, FriendSyncResult, vars, schedule,
      pass, state, xbox
<1>18. ASSUME NEW p \in Players, PlayerActs(p)
      PROVE  RemoveInv'
  BY <1>18, ConstantsAssumption, AfterAddsIs
  DEF PlayerActs, RemoveInv, Backoff, TypeOK, PassOK, StateOK, XboxOK,
      FriendSyncResult, vars, schedule, pass, state, xbox
<1>19. ASSUME Signal
      PROVE  RemoveInv'
  BY <1>19, ConstantsAssumption, AfterAddsIs
  DEF Signal, RemoveInv, Backoff, TypeOK, PassOK, StateOK, XboxOK, FriendSyncResult,
      vars, schedule, pass, state, xbox
<1>20. ASSUME Tick
      PROVE  RemoveInv'
  BY <1>20, ConstantsAssumption, AfterAddsIs
  DEF Tick, Earlier, RemoveInv, Backoff, TypeOK, PassOK, StateOK, XboxOK,
      FriendSyncResult, vars, schedule, pass, state, xbox
<1>21. ASSUME UNCHANGED vars
      PROVE  RemoveInv'
  BY <1>21, ConstantsAssumption, AfterAddsIs
  DEF RemoveInv, Backoff, TypeOK, PassOK, StateOK, XboxOK, FriendSyncResult, vars,
      schedule, pass, state, xbox
<1>22. ASSUME Bulk PROVE RemoveInv'
  BY <1>5, <1>22 DEF Bulk
<1>23. ASSUME NEW p \in Players, AddFriend(p) PROVE RemoveInv'
  BY <1>6, <1>7, <1>8, <1>9, <1>10, <1>11, <1>23 DEF AddFriend
<1> QED
  BY <1>1, <1>2, <1>3, <1>4, <1>12, <1>13, <1>14, <1>15, <1>16, <1>17, <1>18, <1>19,
     <1>20, <1>21, <1>22, <1>23
  DEF Next, Work

-----------------------------------------------------------------------------
(* The timer.                                                               *)

(* Every step keeps the timer what the last iteration of Run made it. *)
LEMMA TimerInvPreserved ==
  ASSUME TypeOK, TimerInv, [Next]_vars
  PROVE  TimerInv'
<1>1. ASSUME NEW event \in BOOLEAN, Wake(event)
      PROVE  TimerInv'
  BY <1>1, AfterAddsIs
  DEF Wake, Skipped, TimerInv, TypeOK, RunOK, vars, schedule, pass, state, xbox
<1>2. ASSUME Stop
      PROVE  TimerInv'
  BY <1>2, AfterAddsIs
  DEF Stop, TimerInv, TypeOK, RunOK, vars, schedule, pass, state, xbox
<1>3. ASSUME ReadPending
      PROVE  TimerInv'
  BY <1>3, AfterAddsIs
  DEF ReadPending, TimerInv, TypeOK, RunOK, vars, schedule, pass, state, xbox
<1>4. ASSUME NEW d \in Delays \cup {0}, ReadPendingFails(d)
      PROVE  TimerInv'
  BY <1>4, AfterAddsIs
  DEF ReadPendingFails, TimerInv, TypeOK, RunOK, vars, schedule, pass, state, xbox
<1>5. ASSUME NEW accepted \in SUBSET todo, NEW held \in SUBSET (todo \ accepted),
               NEW waits \in [held -> Delays], NEW stop \in {"none", "account", "other"},
               NEW d \in Delays, BulkAccept(accepted, waits, stop, d)
      PROVE  TimerInv'
  BY <1>5, AfterAddsIs
  DEF BulkAccept, LeftOver, TimerInv, TypeOK, RunOK, vars, schedule, pass, state, xbox
<1>6. ASSUME NEW p \in Players, Added(p)
      PROVE  TimerInv'
  BY <1>6, AfterAddsIs
  DEF Added, Asked, TimerInv, TypeOK, RunOK, vars, schedule, pass, state, xbox
<1>7. ASSUME NEW p \in Players, Restricted(p)
      PROVE  TimerInv'
  BY <1>7, AfterAddsIs
  DEF Restricted, TimerInv, TypeOK, RunOK, vars, schedule, pass, state, xbox
<1>8. ASSUME NEW p \in Players, Refused(p)
      PROVE  TimerInv'
  BY <1>8, AfterAddsIs
  DEF Refused, Asked, TimerInv, TypeOK, RunOK, vars, schedule, pass, state, xbox
<1>9. ASSUME NEW p \in Players, NEW d \in Delays, Limited(p, d)
      PROVE  TimerInv'
  BY <1>9, AfterAddsIs
  DEF Limited, Asked, TimerInv, TypeOK, RunOK, vars, schedule, pass, state, xbox
<1>10. ASSUME NEW p \in Players, NEW d \in Delays \cup {Hold}, Waits(p, d)
      PROVE  TimerInv'
  BY <1>10, AfterAddsIs
  DEF Waits, Asked, TimerInv, TypeOK, RunOK, vars, schedule, pass, state, xbox
<1>11. ASSUME NEW p \in Players, AddFails(p)
      PROVE  TimerInv'
  BY <1>11, AfterAddsIs
  DEF AddFails, Asked, TimerInv, TypeOK, RunOK, vars, schedule, pass, state, xbox
<1>12. ASSUME Decline
      PROVE  TimerInv'
  BY <1>12, AfterAddsIs
  DEF Decline, TimerInv, TypeOK, RunOK, vars, schedule, pass, state, xbox
<1>13. ASSUME ListFriends
      PROVE  TimerInv'
  BY <1>13, AfterAddsIs
  DEF ListFriends, TimerInv, TypeOK, RunOK, vars, schedule, pass, state, xbox
<1>14. ASSUME NEW d \in Delays \cup {0}, ListFriendsFails(d)
      PROVE  TimerInv'
  BY <1>14, AfterAddsIs
  DEF ListFriendsFails, TimerInv, TypeOK, RunOK, vars, schedule, pass, state, xbox
<1>15. ASSUME NEW d \in Delays \cup {0}, RemoveFriend(d)
      PROVE  TimerInv'
  BY <1>15, AfterAddsIs
  DEF RemoveFriend, Removing, TimerInv, TypeOK, RunOK, vars, schedule, pass, state, xbox
<1>16. ASSUME ExpiryEnds
      PROVE  TimerInv'
  BY <1>16, AfterAddsIs
  DEF ExpiryEnds, Removing, TimerInv, TypeOK, RunOK, vars, schedule, pass, state, xbox
<1>17. ASSUME Record
      PROVE  TimerInv'
  BY <1>17, AfterAddsIs
  DEF Record, RecordState, Reschedule, Backoff, Fresh, NoOptions, NoResult, TimerInv,
      TypeOK, RunOK, vars, schedule, pass, state, xbox
<1>18. ASSUME NEW p \in Players, PlayerActs(p)
      PROVE  TimerInv'
  BY <1>18, AfterAddsIs
  DEF PlayerActs, TimerInv, TypeOK, RunOK, vars, schedule, pass, state, xbox
<1>19. ASSUME Signal
      PROVE  TimerInv'
  BY <1>19, AfterAddsIs
  DEF Signal, TimerInv, TypeOK, RunOK, vars, schedule, pass, state, xbox
<1>20. ASSUME Tick
      PROVE  TimerInv'
  BY <1>20, AfterAddsIs
  DEF Tick, Earlier, NextWake, Least, TimerInv, TypeOK, RunOK, vars, schedule, pass,
      state, xbox
<1>21. ASSUME UNCHANGED vars
      PROVE  TimerInv'
  BY <1>21, AfterAddsIs
  DEF TimerInv, TypeOK, RunOK, vars, schedule, pass, state, xbox
<1>22. ASSUME Bulk PROVE TimerInv'
  BY <1>5, <1>22 DEF Bulk
<1>23. ASSUME NEW p \in Players, AddFriend(p) PROVE TimerInv'
  BY <1>6, <1>7, <1>8, <1>9, <1>10, <1>11, <1>23 DEF AddFriend
<1> QED
  BY <1>1, <1>2, <1>3, <1>4, <1>12, <1>13, <1>14, <1>15, <1>16, <1>17, <1>18, <1>19,
     <1>20, <1>21, <1>22, <1>23
  DEF Next, Work

-----------------------------------------------------------------------------
(* Players and their holds.                                                 *)

(* Every step keeps each player's hold over the wait that is asked for. *)
LEMMA HoldInvPreserved ==
  ASSUME TypeOK, FreshResult, HoldInv, [Next]_vars
  PROVE  HoldInv'
<1>1. ASSUME NEW event \in BOOLEAN, Wake(event)
      PROVE  HoldInv'
  BY <1>1, ConstantsAssumption, AfterAddsIs
  DEF Wake, Skipped, FreshResult, NoResult, HoldInv, HoldFor, Greatest, TypeOK,
      PassOK, StateOK, XboxOK, FriendSyncResult, vars, schedule, pass, state, xbox
<1>2. ASSUME Stop
      PROVE  HoldInv'
  BY <1>2, ConstantsAssumption, AfterAddsIs
  DEF Stop, HoldInv, HoldFor, Greatest, TypeOK, PassOK, StateOK, XboxOK,
      FriendSyncResult, vars, schedule, pass, state, xbox
<1>3. ASSUME ReadPending
      PROVE  HoldInv'
  BY <1>3, ConstantsAssumption, AfterAddsIs
  DEF ReadPending, FreshResult, NoResult, HoldInv, HoldFor, Greatest, TypeOK, PassOK,
      StateOK, XboxOK, FriendSyncResult, vars, schedule, pass, state, xbox
<1>4. ASSUME NEW d \in Delays \cup {0}, ReadPendingFails(d)
      PROVE  HoldInv'
  BY <1>4, ConstantsAssumption, AfterAddsIs
  DEF ReadPendingFails, HoldInv, HoldFor, Greatest, TypeOK, PassOK, StateOK, XboxOK,
      FriendSyncResult, vars, schedule, pass, state, xbox
<1>5. ASSUME NEW accepted \in SUBSET todo, NEW held \in SUBSET (todo \ accepted),
               NEW waits \in [held -> Delays], NEW stop \in {"none", "account", "other"},
               NEW d \in Delays, BulkAccept(accepted, waits, stop, d)
      PROVE  HoldInv'
  <2> USE DEF HoldInv, HoldFor, Greatest, TypeOK, PassOK, StateOK, XboxOK,
      FriendSyncResult, vars, schedule, pass, state, xbox
  <2>1. result = NoResult /\ pc = "bulk"
    BY <1>5 DEF BulkAccept, FreshResult
  <2>2. /\ result'.fullPlayers = {} /\ skipFor' = skipFor
        /\ result'.waits = [q \in Players |-> IF q \in held THEN waits[q] ELSE 0]
        /\ quiet' = [q \in Players |-> IF q \in held THEN waits[q] ELSE quiet[q]]
    BY <1>5, <2>1 DEF BulkAccept, NoResult
  <2>3. todo' \subseteq todo \ held /\ pc' # "read"
    BY <1>5, AfterAddsIs DEF BulkAccept, LeftOver
  <2>4. ASSUME NEW p \in Players
        PROVE  quiet'[p] <= Greatest(skipFor'[p], result'.waits[p])
    <3>1. quiet[p] <= Greatest(skipFor[p], 0)
      BY <2>1 DEF NoResult
    <3>2. CASE p \in held
      <4>1. waits[p] \in Nat /\ skipFor'[p] \in Nat
        BY <2>2, <3>2, ConstantsAssumption
      <4> QED
        BY <2>2, <3>2, <4>1
    <3>3. CASE p \notin held
      BY <2>2, <3>1, <3>3
    <3> QED
      BY <3>2, <3>3
  <2> QED
    BY <2>1, <2>2, <2>3, <2>4
<1>6. ASSUME NEW p \in Players, Added(p)
      PROVE  HoldInv'
  BY <1>6, ConstantsAssumption, AfterAddsIs
  DEF Added, Asked, HoldInv, HoldFor, Greatest, TypeOK, PassOK, StateOK, XboxOK,
      FriendSyncResult, vars, schedule, pass, state, xbox
<1>7. ASSUME NEW p \in Players, Restricted(p)
      PROVE  HoldInv'
  BY <1>7, ConstantsAssumption, AfterAddsIs
  DEF Restricted, HoldInv, HoldFor, Greatest, TypeOK, PassOK, StateOK, XboxOK,
      FriendSyncResult, vars, schedule, pass, state, xbox
<1>8. ASSUME NEW p \in Players, Refused(p)
      PROVE  HoldInv'
  BY <1>8, ConstantsAssumption, AfterAddsIs
  DEF Refused, Asked, HoldInv, HoldFor, Greatest, TypeOK, PassOK, StateOK, XboxOK,
      FriendSyncResult, vars, schedule, pass, state, xbox
<1>9. ASSUME NEW p \in Players, NEW d \in Delays, Limited(p, d)
      PROVE  HoldInv'
  BY <1>9, ConstantsAssumption, AfterAddsIs
  DEF Limited, Asked, HoldInv, HoldFor, Greatest, TypeOK, PassOK, StateOK, XboxOK,
      FriendSyncResult, vars, schedule, pass, state, xbox
<1>10. ASSUME NEW p \in Players, NEW d \in Delays \cup {Hold}, Waits(p, d)
      PROVE  HoldInv'
  BY <1>10, ConstantsAssumption, AfterAddsIs
  DEF Waits, Asked, HoldInv, HoldFor, Greatest, TypeOK, PassOK, StateOK, XboxOK,
      FriendSyncResult, vars, schedule, pass, state, xbox
<1>11. ASSUME NEW p \in Players, AddFails(p)
      PROVE  HoldInv'
  BY <1>11, ConstantsAssumption, AfterAddsIs
  DEF AddFails, Asked, HoldInv, HoldFor, Greatest, TypeOK, PassOK, StateOK, XboxOK,
      FriendSyncResult, vars, schedule, pass, state, xbox
<1>12. ASSUME Decline
      PROVE  HoldInv'
  BY <1>12, ConstantsAssumption, AfterAddsIs
  DEF Decline, HoldInv, HoldFor, Greatest, TypeOK, PassOK, StateOK, XboxOK,
      FriendSyncResult, vars, schedule, pass, state, xbox
<1>13. ASSUME ListFriends
      PROVE  HoldInv'
  BY <1>13, ConstantsAssumption, AfterAddsIs
  DEF ListFriends, HoldInv, HoldFor, Greatest, TypeOK, PassOK, StateOK, XboxOK,
      FriendSyncResult, vars, schedule, pass, state, xbox
<1>14. ASSUME NEW d \in Delays \cup {0}, ListFriendsFails(d)
      PROVE  HoldInv'
  BY <1>14, ConstantsAssumption, AfterAddsIs
  DEF ListFriendsFails, HoldInv, HoldFor, Greatest, TypeOK, PassOK, StateOK, XboxOK,
      FriendSyncResult, vars, schedule, pass, state, xbox
<1>15. ASSUME NEW d \in Delays \cup {0}, RemoveFriend(d)
      PROVE  HoldInv'
  BY <1>15, ConstantsAssumption, AfterAddsIs
  DEF RemoveFriend, Removing, HoldInv, HoldFor, Greatest, TypeOK, PassOK, StateOK,
      XboxOK, FriendSyncResult, vars, schedule, pass, state, xbox
<1>16. ASSUME ExpiryEnds
      PROVE  HoldInv'
  BY <1>16, ConstantsAssumption, AfterAddsIs
  DEF ExpiryEnds, Removing, HoldInv, HoldFor, Greatest, TypeOK, PassOK, StateOK,
      XboxOK, FriendSyncResult, vars, schedule, pass, state, xbox
<1>17. ASSUME Record
      PROVE  HoldInv'
  BY <1>17, ConstantsAssumption, AfterAddsIs
  DEF Record, RecordState, Reschedule, Backoff, Fresh, NoOptions, NoResult, HoldInv,
      HoldFor, Greatest, TypeOK, PassOK, StateOK, XboxOK, FriendSyncResult, vars,
      schedule, pass, state, xbox
<1>18. ASSUME NEW p \in Players, PlayerActs(p)
      PROVE  HoldInv'
  BY <1>18, ConstantsAssumption, AfterAddsIs
  DEF PlayerActs, HoldInv, HoldFor, Greatest, TypeOK, PassOK, StateOK, XboxOK,
      FriendSyncResult, vars, schedule, pass, state, xbox
<1>19. ASSUME Signal
      PROVE  HoldInv'
  BY <1>19, ConstantsAssumption, AfterAddsIs
  DEF Signal, HoldInv, HoldFor, Greatest, TypeOK, PassOK, StateOK, XboxOK,
      FriendSyncResult, vars, schedule, pass, state, xbox
<1>20. ASSUME Tick
      PROVE  HoldInv'
  BY <1>20, ConstantsAssumption, AfterAddsIs
  DEF Tick, Earlier, HoldInv, HoldFor, Greatest, TypeOK, PassOK, StateOK, XboxOK,
      FriendSyncResult, vars, schedule, pass, state, xbox
<1>21. ASSUME UNCHANGED vars
      PROVE  HoldInv'
  BY <1>21, ConstantsAssumption, AfterAddsIs
  DEF HoldInv, HoldFor, Greatest, TypeOK, PassOK, StateOK, XboxOK, FriendSyncResult,
      vars, schedule, pass, state, xbox
<1>22. ASSUME Bulk PROVE HoldInv'
  BY <1>5, <1>22 DEF Bulk
<1>23. ASSUME NEW p \in Players, AddFriend(p) PROVE HoldInv'
  BY <1>6, <1>7, <1>8, <1>9, <1>10, <1>11, <1>23 DEF AddFriend
<1> QED
  BY <1>1, <1>2, <1>3, <1>4, <1>12, <1>13, <1>14, <1>15, <1>16, <1>17, <1>18, <1>19,
     <1>20, <1>21, <1>22, <1>23
  DEF Next, Work

-----------------------------------------------------------------------------
(* The report of a full list.                                               *)

(* Every step keeps what counts for a full list unanswered, until an accept. *)
LEMMA FullInvPreserved ==
  ASSUME TypeOK, FreshResult, FullInv, [Next]_vars
  PROVE  FullInv'
<1>1. ASSUME NEW event \in BOOLEAN, Wake(event)
      PROVE  FullInv'
  BY <1>1, ConstantsAssumption, AfterAddsIs
  DEF Wake, Skipped, FreshResult, NoResult, FullInv, TypeOK, PassOK, StateOK, XboxOK,
      FriendSyncResult, vars, schedule, pass, state, xbox
<1>2. ASSUME Stop
      PROVE  FullInv'
  BY <1>2, ConstantsAssumption, AfterAddsIs
  DEF Stop, FullInv, TypeOK, PassOK, StateOK, XboxOK, FriendSyncResult, vars,
      schedule, pass, state, xbox
<1>3. ASSUME ReadPending
      PROVE  FullInv'
  BY <1>3, ConstantsAssumption, AfterAddsIs
  DEF ReadPending, FullInv, TypeOK, PassOK, StateOK, XboxOK, FriendSyncResult, vars,
      schedule, pass, state, xbox
<1>4. ASSUME NEW d \in Delays \cup {0}, ReadPendingFails(d)
      PROVE  FullInv'
  BY <1>4, ConstantsAssumption, AfterAddsIs
  DEF ReadPendingFails, FullInv, TypeOK, PassOK, StateOK, XboxOK, FriendSyncResult,
      vars, schedule, pass, state, xbox
<1>5. ASSUME NEW accepted \in SUBSET todo, NEW held \in SUBSET (todo \ accepted),
               NEW waits \in [held -> Delays], NEW stop \in {"none", "account", "other"},
               NEW d \in Delays, BulkAccept(accepted, waits, stop, d)
      PROVE  FullInv'
  <2> USE DEF FullInv, TypeOK, PassOK, StateOK, XboxOK, FriendSyncResult, vars,
      schedule, pass, state, xbox
  <2>1. ~result.accepted /\ result.fullPlayers = {}
    BY <1>5 DEF BulkAccept, FreshResult, NoResult
  <2>2. CASE accepted = {}
    <3>1. unanswered' = unanswered /\ UNCHANGED <<fresh, full>>
      BY <1>5, <2>2 DEF BulkAccept
    <3>2. result'.fullPlayers = {}
      BY <1>5, <2>1 DEF BulkAccept
    <3> QED
      BY <2>1, <3>1, <3>2
  <2>3. CASE accepted # {}
    <3>1. result'.accepted = (accepted # {})
      BY <1>5 DEF BulkAccept
    <3> QED
      BY <2>3, <3>1
  <2> QED
    BY <2>2, <2>3
<1>6. ASSUME NEW p \in Players, Added(p)
      PROVE  FullInv'
  BY <1>6, ConstantsAssumption, AfterAddsIs
  DEF Added, Asked, FullInv, TypeOK, PassOK, StateOK, XboxOK, FriendSyncResult, vars,
      schedule, pass, state, xbox
<1>7. ASSUME NEW p \in Players, Restricted(p)
      PROVE  FullInv'
  BY <1>7, ConstantsAssumption, AfterAddsIs
  DEF Restricted, FullInv, TypeOK, PassOK, StateOK, XboxOK, FriendSyncResult, vars,
      schedule, pass, state, xbox
<1>8. ASSUME NEW p \in Players, Refused(p)
      PROVE  FullInv'
  <2> USE DEF FullInv, TypeOK, PassOK, StateOK, XboxOK, FriendSyncResult, vars,
      schedule, pass, state, xbox
  <2> SUFFICES ASSUME ~result'.accepted
               PROVE  /\ {q \in Players : fresh'[q] > 0} \cup result'.fullPlayers
                            \subseteq unanswered'
                      /\ full' => Cardinality(unanswered') >= FullListPlayers
    OBVIOUS
  <2>1. ~result.accepted /\ result'.fullPlayers = result.fullPlayers \cup {p}
    BY <1>8 DEF Refused
  <2>2. unanswered' = unanswered \cup {p} /\ UNCHANGED <<fresh, full>>
    BY <1>8 DEF Refused
  <2>3. Cardinality(unanswered) <= Cardinality(unanswered \cup {p})
    BY ConstantsAssumption, FS_Subset
  <2>4. Cardinality(unanswered) \in Nat /\ Cardinality(unanswered \cup {p}) \in Nat
    BY ConstantsAssumption, FS_Subset, FS_CardinalityType
  <2> QED
    BY <2>1, <2>2, <2>3, <2>4, ConstantsAssumption
<1>9. ASSUME NEW p \in Players, NEW d \in Delays, Limited(p, d)
      PROVE  FullInv'
  BY <1>9, ConstantsAssumption, AfterAddsIs
  DEF Limited, Asked, FullInv, TypeOK, PassOK, StateOK, XboxOK, FriendSyncResult,
      vars, schedule, pass, state, xbox
<1>10. ASSUME NEW p \in Players, NEW d \in Delays \cup {Hold}, Waits(p, d)
      PROVE  FullInv'
  BY <1>10, ConstantsAssumption, AfterAddsIs
  DEF Waits, Asked, FullInv, TypeOK, PassOK, StateOK, XboxOK, FriendSyncResult, vars,
      schedule, pass, state, xbox
<1>11. ASSUME NEW p \in Players, AddFails(p)
      PROVE  FullInv'
  BY <1>11, ConstantsAssumption, AfterAddsIs
  DEF AddFails, Asked, FullInv, TypeOK, PassOK, StateOK, XboxOK, FriendSyncResult,
      vars, schedule, pass, state, xbox
<1>12. ASSUME Decline
      PROVE  FullInv'
  BY <1>12, ConstantsAssumption, AfterAddsIs
  DEF Decline, FullInv, TypeOK, PassOK, StateOK, XboxOK, FriendSyncResult, vars,
      schedule, pass, state, xbox
<1>13. ASSUME ListFriends
      PROVE  FullInv'
  BY <1>13, ConstantsAssumption, AfterAddsIs
  DEF ListFriends, FullInv, TypeOK, PassOK, StateOK, XboxOK, FriendSyncResult, vars,
      schedule, pass, state, xbox
<1>14. ASSUME NEW d \in Delays \cup {0}, ListFriendsFails(d)
      PROVE  FullInv'
  BY <1>14, ConstantsAssumption, AfterAddsIs
  DEF ListFriendsFails, FullInv, TypeOK, PassOK, StateOK, XboxOK, FriendSyncResult,
      vars, schedule, pass, state, xbox
<1>15. ASSUME NEW d \in Delays \cup {0}, RemoveFriend(d)
      PROVE  FullInv'
  BY <1>15, ConstantsAssumption, AfterAddsIs
  DEF RemoveFriend, Removing, FullInv, TypeOK, PassOK, StateOK, XboxOK,
      FriendSyncResult, vars, schedule, pass, state, xbox
<1>16. ASSUME ExpiryEnds
      PROVE  FullInv'
  BY <1>16, ConstantsAssumption, AfterAddsIs
  DEF ExpiryEnds, Removing, FullInv, TypeOK, PassOK, StateOK, XboxOK,
      FriendSyncResult, vars, schedule, pass, state, xbox
<1>17. ASSUME Record
      PROVE  FullInv'
  <2> USE DEF FullInv, TypeOK, PassOK, StateOK, XboxOK, FriendSyncResult, vars,
      schedule, pass, state, xbox
  <2>1. unanswered' = unanswered /\ result'.fullPlayers = {}
    BY <1>17 DEF Record, NoResult
  <2> DEFINE counted == {q \in Players : fresh'[q] > 0}
  <2>2. counted \subseteq unanswered
    <3>1. CASE result.accepted
      BY <1>17, <3>1 DEF Record, RecordState, Fresh
    <3>2. CASE ~result.accepted
      BY <1>17, <3>2 DEF Record, RecordState, Fresh
    <3> QED
      BY <3>1, <3>2
  <2>3. full' => Cardinality(counted) >= FullListPlayers
    BY <1>17 DEF Record, RecordState
  <2>4. full' => Cardinality(unanswered) >= FullListPlayers
    <3> HIDE DEF counted
    <3>1. Cardinality(counted) <= Cardinality(unanswered)
      BY <2>2, ConstantsAssumption, FS_Subset
    <3>2. Cardinality(counted) \in Nat /\ Cardinality(unanswered) \in Nat
      BY <2>2, ConstantsAssumption, FS_Subset, FS_CardinalityType
    <3> QED
      BY <2>3, <3>1, <3>2, ConstantsAssumption
  <2> QED
    BY <2>1, <2>2, <2>4
<1>18. ASSUME NEW p \in Players, PlayerActs(p)
      PROVE  FullInv'
  BY <1>18, ConstantsAssumption, AfterAddsIs
  DEF PlayerActs, FullInv, TypeOK, PassOK, StateOK, XboxOK, FriendSyncResult, vars,
      schedule, pass, state, xbox
<1>19. ASSUME Signal
      PROVE  FullInv'
  BY <1>19, ConstantsAssumption, AfterAddsIs
  DEF Signal, FullInv, TypeOK, PassOK, StateOK, XboxOK, FriendSyncResult, vars,
      schedule, pass, state, xbox
<1>20. ASSUME Tick
      PROVE  FullInv'
  BY <1>20, ConstantsAssumption, AfterAddsIs
  DEF Tick, Earlier, FullInv, TypeOK, PassOK, StateOK, XboxOK, FriendSyncResult, vars,
      schedule, pass, state, xbox
<1>21. ASSUME UNCHANGED vars
      PROVE  FullInv'
  BY <1>21, ConstantsAssumption, AfterAddsIs
  DEF FullInv, TypeOK, PassOK, StateOK, XboxOK, FriendSyncResult, vars, schedule,
      pass, state, xbox
<1>22. ASSUME Bulk PROVE FullInv'
  BY <1>5, <1>22 DEF Bulk
<1>23. ASSUME NEW p \in Players, AddFriend(p) PROVE FullInv'
  BY <1>6, <1>7, <1>8, <1>9, <1>10, <1>11, <1>23 DEF AddFriend
<1> QED
  BY <1>1, <1>2, <1>3, <1>4, <1>12, <1>13, <1>14, <1>15, <1>16, <1>17, <1>18, <1>19,
     <1>20, <1>21, <1>22, <1>23
  DEF Next, Work

-----------------------------------------------------------------------------
(* The theorems.                                                            *)

(* The inductive invariant holds initially. *)
LEMMA Initially == Init => IInv
<1> SUFFICES ASSUME Init PROVE IInv
  OBVIOUS
<1>1. TypeOK
  BY InitTypes
<1>2. FreshResult /\ ReadInv /\ AddInv /\ RemoveInv /\ HoldInv
  BY ConstantsAssumption DEF Init, FreshResult, NoResult, ReadInv, InPass, AddInv,
      Adding,
     RemoveInv, Backoff, HoldInv, HoldFor, Greatest
<1>3. TimerInv
  BY DEF Init, TimerInv, NextWake, Least
<1>4. FullInv
  BY DEF Init, FullInv, NoResult
<1> QED
  BY <1>1, <1>2, <1>3, <1>4 DEF IInv

(* Every step keeps the inductive invariant. *)
LEMMA Inductive == IInv /\ [Next]_vars => IInv'
BY TypesPreserved, FreshResultPreserved, ReadInvPreserved, AddInvPreserved,
   RemoveInvPreserved, HoldInvPreserved, TimerInvPreserved, FullInvPreserved DEF IInv

(* The inductive invariant holds in every reachable state. *)
LEMMA Always == Spec => []IInv
BY Initially, Inductive, PTL DEF Spec

\* Every variable keeps its type, and a scan never removes more friends than
\* it found, for any number of players and any delays.
THEOREM TypeCorrect == Spec => []TypeOK
<1>1. IInv => TypeOK
  BY DEF IInv
<1> QED
  BY <1>1, Always, PTL

\* Run, record and the passes together respect every delay Xbox asks for, per
\* operation: reads, adds and the removals of expiry.
THEOREM DelaysRespected == Spec => []DelaysAreRespected
<1>1. IInv => DelaysAreRespected
  BY DEF IInv, ReadInv, InPass, AddInv, Adding, RemoveInv, DelaysAreRespected, Removing
<1> QED
  BY <1>1, Always, PTL

\* No player is asked for while a refusal or a delay of theirs holds them,
\* though holds are taken at the start of a pass and recorded at its end.
THEOREM HoldsKept == Spec => []HoldsAreKept
<1>1. IInv => HoldsAreKept
  BY DEF IInv, TypeOK, PassOK, HoldInv, HoldsAreKept
<1> QED
  BY <1>1, Always, PTL

\* Whatever wakes Run, the timer it sets is due no later than what is next.
THEOREM NothingIsLate == Spec => []TimerIsTimely
<1>1. IInv => TimerIsTimely
  BY DEF IInv, TypeOK, RunOK, TimerInv, TimerIsTimely, NextWake, Least, Greatest
<1> QED
  BY <1>1, Always, PTL

\* When the timer fires, a pass may begin: Run does not spin.
THEOREM NoSpinning == Spec => []NoIdleWake
<1>1. IInv => NoIdleWake
  BY DEF IInv, TypeOK, RunOK, TimerInv, NoIdleWake, NextWake, Least, ExpiryDue
<1> QED
  BY <1>1, Always, PTL

\* A full list is reported on enough unanswered refusals only, whatever the
\* number of players and of refusals it takes.
THEOREM FullFounded == Spec => []FullIsFounded
<1>1. IInv => FullIsFounded
  BY DEF IInv, FreshResult, NoResult, FullInv, FullIsFounded
<1> QED
  BY <1>1, Always, PTL

\* No refusal is forgotten while it holds a player, and none makes the list full
\* that an accept has answered.
THEOREM RefusalsHold == Spec => []RefusalsAreRemembered
<1>1. Spec => [](HoldsAreKept /\ FullIsFounded)
  BY HoldsKept, FullFounded, PTL
<1>2. HoldsAreKept /\ FullIsFounded => RefusalsAreRemembered
  BY DEF RefusalsAreRemembered
<1> QED
  BY <1>1, <1>2, PTL

\* The timer is neither late nor early, whatever woke Run before.
THEOREM TimerExact == Spec => []TimerIsExact
<1>1. Spec => [](TimerIsTimely /\ NoIdleWake)
  BY NothingIsLate, NoSpinning, PTL
<1>2. TimerIsTimely /\ NoIdleWake => TimerIsExact
  BY DEF TimerIsExact
<1> QED
  BY <1>1, <1>2, PTL

==============================================================================
