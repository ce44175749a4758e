------------------------ MODULE SessionLifecycleProofs ------------------------
(***************************************************************************)
(* Proofs about SessionLifecycle for any number of sessions and signaling  *)
(* connections, any limits, and both kinds of configuration; and, in the   *)
(* last part, about the activity check whose issues the loop acts on.      *)
(***************************************************************************)
EXTENDS SessionLifecycle, TLAPS

-----------------------------------------------------------------------------
(* The inductive invariant, in layers.                                      *)

\* Where the loop can be, given what the fields say.  A running Broadcaster has a
\* current session wherever the loop may rotate it; a recovery that gives up has
\* released everything, unless it was cancelled.
Dark == announcer = NoSession /\ retired = {} /\ relay = NoSignaling /\ signaling = NoSignaling

LoopInv ==
  /\ recovering <=> pc \in {"attempt", "backoff", "rebuilt", "givenup"}
  /\ started /\ pc \in {"select", "ticked", "woken", "act", "rebuilt"} => announcer # NoSession
  /\ started /\ pc = "off" => cancelled
  /\ pc = "backoff" => attempt + 1 < Attempts
  /\ pc = "givenup" => cancelled \/ Dark
  /\ ~started => Dark
  /\ failure => cancelled /\ pc = "off" /\ Dark

\* What new sessions advertise is what the relay listens on, and it is there as
\* long as a session needs it; an announcer keeps its connection while unpublished.
RelayInv ==
  /\ relay = signaling
  /\ relay # NoSignaling => sessionConnection = relay
  /\ \A s \in Current \cup retired : relay # NoSignaling /\ session[s].conn = relay

\* No hiding goroutine was ever handed the current session.
HiderInv == \A s \in Current : s \notin hiders /\ ~session[s].hidden

\* What every kind of step below has to keep, given TypeOK and LoopInv.
ServiceInv == NoLeakedSession /\ RelayInv /\ HiderInv /\ NoLeakedSignaling

IInv == TypeOK /\ LoopInv /\ ServiceInv

-----------------------------------------------------------------------------
(* Facts about the operators that build the next session function.          *)

(* A session just published for a signaling connection is a session state. *)
LEMMA AdvertisingType ==
  ASSUME NEW g \in Signalings \cup {NoSignaling}
  PROVE  Advertising(g) \in SessionState
BY ConstantsAssumption DEF Advertising, Document, SessionState

(* A session that is gone is a session state. *)
LEMMA AbsentType == Absent \in SessionState
BY ConstantsAssumption DEF Absent, Document, SessionState

(* Sessions without those of a set: the others are as they were. *)
LEMMA WithoutType ==
  ASSUME session \in [Sessions -> SessionState], NEW S
  PROVE  /\ Without(S) \in [Sessions -> SessionState]
         /\ \A s \in Sessions : Without(S)[s] = IF s \in S THEN Absent ELSE session[s]
BY AbsentType DEF Without

\* Changing fields of one session within their ranges keeps the type.
LEMMA FlagType ==
  ASSUME NEW f \in [Sessions -> SessionState], NEW s \in Sessions
  PROVE  /\ [f EXCEPT ![s].aged = TRUE] \in [Sessions -> SessionState]
         /\ [f EXCEPT ![s].hidden = TRUE] \in [Sessions -> SessionState]
         /\ [f EXCEPT ![s].state = "lost"] \in [Sessions -> SessionState]
BY DEF SessionState

(* Sessions stay sessions when one's member count changes. *)
LEMMA MembersType ==
  ASSUME NEW f \in [Sessions -> SessionState], NEW s \in Sessions, NEW members \in 1..MemberCap
  PROVE  [f EXCEPT ![s].members = members] \in [Sessions -> SessionState]
BY DEF SessionState

(* Sessions stay sessions when one is published again. *)
LEMMA RepublishType ==
  ASSUME NEW f \in [Sessions -> SessionState], NEW s \in Sessions, NEW state \in {"none", "open"}
  PROVE  [f EXCEPT ![s].state = state, ![s].members = 1] \in [Sessions -> SessionState]
<1>1. 1 \in 1..MemberCap
  BY ConstantsAssumption
<1> QED
  BY <1>1 DEF SessionState

-----------------------------------------------------------------------------
(* Type correctness, together with where the loop can be.                   *)

(* The sessions that are tracked are sessions. *)
LEMMA TrackedType == TypeOK => Tracked \subseteq Sessions
BY DEF TypeOK, ServiceOK, Tracked, Current

(* Publishing keeps the service's types. *)
LEMMA PublishType ==
  ASSUME TypeOK, NEW kept \in SUBSET Tracked, NEW s \in Fresh(kept), NEW g \in signalingFor(kept),
         publishOn(kept, s, g)
  PROVE  ServiceOK' /\ s \in Sessions /\ g \in Signalings \cup {NoSignaling}
<1>1. s \in Sessions /\ kept \subseteq Sessions
  BY TrackedType DEF Fresh
<1>2. g \in Signalings
  BY ConstantsAssumption DEF signalingFor, canRecreateSignaling
<1>3. Without(Tracked \ kept) \in [Sessions -> SessionState]
  BY WithoutType DEF TypeOK, ServiceOK
<1>4. session' \in [Sessions -> SessionState]
  BY <1>1, <1>2, <1>3, AdvertisingType DEF publishOn
<1>5. link' \in [Signalings -> {"open", "lost", "closed"}]
  BY <1>2 DEF publishOn, Connected, Disconnected, TypeOK, ServiceOK
<1> QED
  BY <1>1, <1>2, <1>4, <1>5 DEF publishOn, ServiceOK

(* Releasing the sessions keeps the service's types, and leaves the service
   dark. *)
LEMMA ReleaseType ==
  ASSUME TypeOK, NEW failed \in SUBSET Tracked, NEW sig,
         NEW advertised \in Signalings \cup {NoSignaling},
         releaseSessions(failed, sig, advertised)
  PROVE  ServiceOK' /\ Dark'
<1>1. session' \in [Sessions -> SessionState]
  BY WithoutType DEF TypeOK, ServiceOK, releaseSessions
<1>2. link' \in [Signalings -> {"open", "lost", "closed"}]
  BY DEF releaseSessions, Disconnected, TypeOK, ServiceOK
<1> QED
  BY <1>1, <1>2, TrackedType DEF releaseSessions, ServiceOK, Dark

(* Update keeps the types of what it changes. *)
LEMMA UpdateType ==
  ASSUME TypeOK, UpdateSucceeds \/ UpdateFails
  PROVE  /\ stale' \subseteq Sessions
         /\ session' \in [Sessions -> SessionState]
         /\ probed' \in Sessions \cup {NoSession}
<1>1. CASE UpdateInPlace
  <2>1. PICK failed \in SUBSET stale : stale' = failed /\ session' = Without(stale \ failed)
    BY <1>1 DEF UpdateInPlace
  <2> QED
    BY <1>1, <2>1, WithoutType DEF UpdateInPlace, TypeOK, ServiceOK, LoopOK
<1>2. CASE UpdateRepublishes
  <2>1. PICK failed \in SUBSET stale :
          /\ stale' = failed
          /\ session' = [Without(stale \ failed) EXCEPT ![announcer].state = "open",
                                                        ![announcer].members = 1]
    BY <1>2 DEF UpdateRepublishes
  <2>2. announcer \in Sessions /\ probed' \in Sessions \cup {NoSession} /\ stale' \subseteq Sessions
    BY <1>2, <2>1 DEF UpdateRepublishes, Serving, Outdated, TypeOK, ServiceOK, LoopOK
  <2>3. Without(stale \ failed) \in [Sessions -> SessionState]
    BY WithoutType DEF TypeOK, ServiceOK
  <2> QED
    BY <2>1, <2>2, <2>3, RepublishType
<1>3. CASE UpdateUnpublishes
  <2>1. announcer \in Sessions
    BY <1>3 DEF UpdateUnpublishes, Serving, TypeOK, ServiceOK
  <2> QED
    BY <1>3, <2>1, RepublishType DEF UpdateUnpublishes, Outdated, TypeOK, ServiceOK, LoopOK
<1>4. CASE UpdateDoesNothing
  BY <1>4 DEF UpdateDoesNothing, TypeOK, ServiceOK, LoopOK
<1> QED
  BY <1>1, <1>2, <1>3, <1>4 DEF UpdateSucceeds, UpdateFails

\* Who leaves the sessions and the signaling alone keeps their types and Dark.
LEMMA ServiceSame ==
  ASSUME ServiceOK, UNCHANGED <<sessionVars, signalVars>>
  PROVE  ServiceOK' /\ announcer' = announcer /\ (Dark' <=> Dark)
BY DEF sessionVars, signalVars, ServiceOK, Dark

(* What leaves the service undisturbed keeps the types and the loop's
   control. *)
LEMMA UndisturbedSame ==
  ASSUME ControlOK, ServiceOK, Undisturbed
  PROVE  /\ ControlOK' /\ ServiceOK' /\ announcer' = announcer /\ (Dark' <=> Dark)
         /\ UNCHANGED controlVars
<1>1. UNCHANGED <<sessionVars, signalVars>> /\ UNCHANGED controlVars /\ UNCHANGED workerVars
  BY DEF Undisturbed
<1>2. ControlOK'
  BY <1>1 DEF ControlOK, controlVars, workerVars
<1> QED
  BY <1>1, <1>2, ServiceSame

(* The types and the loop's invariant hold initially. *)
LEMMA TypingInit == Init => TypeOK /\ LoopInv
<1> SUFFICES ASSUME Init PROVE TypeOK /\ LoopInv
  OBVIOUS
<1>1. ControlOK /\ LoopInv
  BY DEF Init, ControlOK, LoopInv, Dark
<1>2. ServiceOK
  BY AbsentType DEF Init, ServiceOK
<1>3. LoopOK
  BY ConstantsAssumption DEF Init, LoopOK
<1> QED
  BY <1>1, <1>2, <1>3 DEF TypeOK

(* Every step keeps the types and the loop's invariant. *)
LEMMA TypingNext == TypeOK /\ LoopInv /\ [Next]_vars => TypeOK' /\ LoopInv'
<1> SUFFICES ASSUME TypeOK, LoopInv, [Next]_vars PROVE TypeOK' /\ LoopInv'
  OBVIOUS
<1> USE ConstantsAssumption
<1>0. ControlOK /\ ServiceOK /\ LoopOK /\ session \in [Sessions -> SessionState]
  BY DEF TypeOK, ServiceOK
<1>1. CASE Start
  <2>1. PICK s \in Fresh(stale), g \in signalingFor(stale) : publishOn(stale, s, g)
    BY <1>1 DEF Start
  <2>2. ServiceOK' /\ announcer' = s /\ s \in Sessions
    BY <2>1, PublishType DEF Tracked, publishOn
  <2>3. LoopOK' /\ ControlOK'
    BY <1>0, <1>1 DEF Start, workerVars, LoopOK, ControlOK
  <2>4. LoopInv'
    BY <1>1, <2>2 DEF Start, StartCall, LoopInv
  <2> QED
    BY <2>2, <2>3, <2>4 DEF TypeOK
<1>2. CASE StartFails
  <2>1. ServiceOK' /\ Dark'
    BY <1>2, ReleaseType DEF StartFails, Closable
  <2>2. LoopOK' /\ ControlOK'
    BY <1>0, <1>2 DEF StartFails, loopVars, workerVars, LoopOK, ControlOK
  <2>3. LoopInv'
    BY <1>2, <2>1 DEF StartFails, StartCall, loopVars, LoopInv
  <2> QED
    BY <2>1, <2>2, <2>3 DEF TypeOK
<1>3. CASE Close
  <2>1. ServiceOK' /\ Dark'
    BY <1>3, ReleaseType DEF Close, Closable
  <2>2. LoopOK' /\ ControlOK'
    BY <1>0, <1>3 DEF Close, loopVars, workerVars, LoopOK, ControlOK
  <2>3. LoopInv'
    BY <1>3, <2>1 DEF Close, loopVars, LoopInv
  <2> QED
    BY <2>1, <2>2, <2>3 DEF TypeOK
<1>4. CASE Update
  <2>1. /\ stale' \subseteq Sessions /\ session' \in [Sessions -> SessionState]
        /\ probed' \in Sessions \cup {NoSession}
    BY <1>4, UpdateType DEF Update, UpdateFails
  <2>2. ServiceOK' /\ ControlOK' /\ LoopOK'
    BY <1>0, <1>4, <2>1
    DEF Update, controlVars, signalVars, workerVars, ServiceOK, ControlOK, LoopOK
  <2>3. LoopInv'
    BY <1>4 DEF Update, controlVars, signalVars, LoopInv, Dark
  <2> QED
    BY <2>2, <2>3 DEF TypeOK
<1>5. ASSUME \/ LoopStop \/ LoopSignalingDone \/ LoopActivity \/ LoopCheck
             \/ RotateFails \/ ReportActivity \/ RecoverSkips \/ RetryCancelled
      PROVE  TypeOK' /\ LoopInv'
  <2>1. Undisturbed
    <3>1. CASE LoopStop \/ LoopSignalingDone \/ LoopActivity \/ LoopCheck
      BY <3>1 DEF LoopStop, LoopSignalingDone, LoopActivity, LoopCheck, Undisturbed
    <3>2. CASE RotateFails \/ ReportActivity \/ RecoverSkips \/ RetryCancelled
      BY <3>2 DEF RotateFails, ReportActivity, RecoverSkips, RetryCancelled, Undisturbed
    <3> QED
      BY <1>5, <3>1, <3>2
  <2>2. /\ ControlOK' /\ ServiceOK' /\ announcer' = announcer /\ (Dark' <=> Dark)
        /\ UNCHANGED <<started, recovering, failure, cancelled>>
    BY <1>0, <2>1, UndisturbedSame DEF controlVars
  <2>3. CASE LoopStop \/ LoopSignalingDone
    BY <1>0, <2>2, <2>3 DEF LoopStop, LoopSignalingDone, Goto, Advance, Stop, LoopOK, LoopInv,
         TypeOK
  <2>4. CASE LoopActivity \/ LoopCheck
    BY <1>0, <2>2, <2>4 DEF LoopActivity, LoopCheck, sessionHealthIssue, Serving, Goto, Advance,
                            ServiceOK, LoopOK, LoopInv, TypeOK
  <2>5. CASE RotateFails \/ ReportActivity
    BY <1>0, <2>2, <2>5 DEF RotateFails, ReportActivity, Goto, Stop, LoopOK, LoopInv, TypeOK
  <2>6. CASE RecoverSkips \/ RetryCancelled
    BY <1>0, <2>2, <2>6 DEF RecoverSkips, RecoverCase, RetryCancelled, Goto, Advance, Stop,
         Continue,
                            LoopOK, LoopInv, TypeOK
  <2> QED
    BY <1>5, <2>3, <2>4, <2>5, <2>6
<1>6. CASE LoopWoken \/ RecoverBegins \/ BackoffEnds \/ RecoverEnds \/ RecoverGivesUp \/ Cancel
  <2>1. UNCHANGED <<sessionVars, signalVars>>
    BY <1>6 DEF LoopWoken, RecoverBegins, BackoffEnds, RecoverEnds, RecoverGivesUp, Cancel
  <2>2. ServiceOK' /\ announcer' = announcer /\ (Dark' <=> Dark)
    BY <1>0, <2>1, ServiceSame
  <2>3. CASE LoopWoken
    BY <1>0, <2>2, <2>3 DEF LoopWoken, controlVars, Goto, Advance, ControlOK, LoopOK, LoopInv,
         TypeOK
  <2>4. CASE RecoverBegins
    BY <1>0, <2>2, <2>4 DEF RecoverBegins, RecoverCase, workerVars, ControlOK, LoopOK, LoopInv,
         TypeOK
  <2>5. CASE BackoffEnds
    BY <1>0, <2>2, <2>5 DEF BackoffEnds, controlVars, workerVars, ControlOK, LoopOK, LoopInv, TypeOK
  <2>6. CASE RecoverEnds
    <3>1. LoopOK'
      BY <1>0, <2>6 DEF RecoverEnds, Goto, Continue, LoopOK
    <3>2. ControlOK'
      BY <1>0, <2>6 DEF RecoverEnds, workerVars, ControlOK
    <3>3. LoopInv'
      BY <2>2, <2>6 DEF RecoverEnds, Goto, Continue, LoopInv
    <3> QED
      BY <2>2, <3>1, <3>2, <3>3 DEF TypeOK
  <2>7. CASE RecoverGivesUp
    <3>1. LoopOK'
      BY <1>0, <2>7 DEF RecoverGivesUp, Goto, Stop, LoopOK
    <3>2. ControlOK'
      BY <1>0, <2>7 DEF RecoverGivesUp, workerVars, ControlOK
    <3>3. LoopInv'
      BY <2>2, <2>7 DEF RecoverGivesUp, Goto, Stop, LoopInv
    <3> QED
      BY <2>2, <3>1, <3>2, <3>3 DEF TypeOK
  <2>8. CASE Cancel
    BY <1>0, <2>2, <2>8 DEF Cancel, loopVars, workerVars, ControlOK, LoopOK, LoopInv, TypeOK
  <2> QED
    BY <1>6, <2>3, <2>4, <2>5, <2>6, <2>7, <2>8
<1>7. CASE LoopTick
  <2>1. PICK failed \in SUBSET Drained :
          retired' = retired \ (Drained \ failed) /\ session' = Without(Drained \ failed)
    BY <1>7 DEF LoopTick, closeDrainedSessions
  <2>2. session' \in [Sessions -> SessionState] /\ retired' \subseteq retired
    BY <1>0, <2>1, WithoutType
  <2>3. ServiceOK' /\ ControlOK' /\ LoopOK'
    BY <1>0, <1>7, <2>2 DEF LoopTick, Advance, Goto, controlVars, signalVars, workerVars,
                            ServiceOK, ControlOK, LoopOK
  <2>4. LoopInv'
    BY <1>7, <2>2 DEF LoopTick, Advance, Goto, controlVars, signalVars, LoopInv, Dark
  <2> QED
    BY <2>3, <2>4 DEF TypeOK
<1>8. CASE Rotate
  <2>1. PICK s \in Fresh(Tracked) :
          announcer' = s /\ session' = [session EXCEPT ![s] = Advertising(sessionConnection)]
    BY <1>8 DEF Rotate
  <2>2. s \in Sessions /\ announcer \in Sessions
    BY <1>0, <1>8, <2>1 DEF Rotate, Fresh, ServiceOK, LoopInv
  <2>3. session' \in [Sessions -> SessionState]
    BY <1>0, <2>1, <2>2, AdvertisingType DEF ServiceOK
  <2>4. ServiceOK' /\ ControlOK' /\ LoopOK'
    BY <1>0, <1>8, <2>1, <2>2, <2>3 DEF Rotate, Continue, Goto, controlVars, signalVars, ServiceOK,
                                        ControlOK, LoopOK
  <2>5. LoopInv'
    BY <1>8, <2>1, <2>2 DEF Rotate, Continue, Goto, controlVars, LoopInv, ConstantsAssumption
  <2> QED
    BY <2>4, <2>5 DEF TypeOK
<1>9. CASE Refresh \/ RefreshFails
  <2>1. /\ stale' \subseteq Sessions /\ session' \in [Sessions -> SessionState]
        /\ probed' \in Sessions \cup {NoSession}
    BY <1>9, UpdateType DEF Refresh, RefreshFails
  <2>2. UNCHANGED <<controlVars, announcer, retired, signalVars, attempt, workerVars>> /\ RefreshCase
    BY <1>9 DEF Refresh, RefreshFails
  <2>3. ServiceOK' /\ ControlOK'
    BY <1>0, <2>1, <2>2 DEF controlVars, signalVars, workerVars, ServiceOK, ControlOK
  <2>4. /\ issue' \in {"none", "broken"} /\ failures' \in 0..FailureLimit - 1
        /\ pc' \in {"select", "act"} \/ (pc' = "off" /\ cancelled)
    BY <1>0, <1>9 DEF Refresh, RefreshFails, Goto, LoopOK
  <2>5. LoopOK'
    BY <1>0, <2>1, <2>2, <2>4 DEF LoopOK
  <2>6. LoopInv'
    BY <2>2, <2>4 DEF RefreshCase, controlVars, signalVars, LoopInv, Dark
  <2> QED
    BY <2>3, <2>5, <2>6 DEF TypeOK
<1>10. CASE Recreate
  <2>1. PICK failed \in SUBSET Closable(Tracked) :
          \E s \in Fresh(failed), g \in signalingFor(failed) : publishOn(failed, s, g)
    BY <1>10 DEF Recreate
  <2>2. PICK s \in Fresh(failed), g \in signalingFor(failed) : publishOn(failed, s, g)
    BY <2>1
  <2>3. ServiceOK' /\ announcer' = s /\ s \in Sessions
    BY <2>2, PublishType DEF Closable, publishOn
  <2>4. LoopOK' /\ ControlOK'
    BY <1>0, <1>10 DEF Recreate, Advance, Goto, controlVars, workerVars, LoopOK, ControlOK
  <2>5. LoopInv'
    BY <1>10, <2>3 DEF Recreate, Advance, Goto, controlVars, LoopInv
  <2> QED
    BY <2>3, <2>4, <2>5 DEF TypeOK
<1>11. CASE RecreateFails
  <2>1. ServiceOK' /\ Dark'
    BY <1>11, ReleaseType DEF RecreateFails, Closable, signalingFor, canRecreateSignaling
  <2>2. LoopOK' /\ ControlOK'
    BY <1>0, <1>11 DEF RecreateFails, Advance, Goto, controlVars, workerVars, LoopOK, ControlOK
  <2>3. LoopInv'
    BY <1>0, <1>11, <2>1 DEF RecreateFails, Advance, Goto, controlVars, LoopOK, LoopInv
  <2> QED
    BY <2>1, <2>2, <2>3 DEF TypeOK
<1>12. ASSUME NEW s \in Sessions, Hide(s) \/ HideFails(s)
       PROVE  TypeOK' /\ LoopInv'
  <2>1. session' = session \/ session' = [session EXCEPT ![s].hidden = TRUE]
    BY <1>12 DEF Hide, HideFails
  <2>2. [session EXCEPT ![s].hidden = TRUE] \in [Sessions -> SessionState]
    BY <1>0, FlagType
  <2>3. session' \in [Sessions -> SessionState]
    BY <1>0, <2>1, <2>2, Zenon
  <2>4. HiderDone(s)
    BY <1>12 DEF Hide, HideFails
  <2>5. TypeOK'
    BY <1>0, <2>3, <2>4 DEF HiderDone, controlVars, signalVars, loopVars, TypeOK, ControlOK,
                            ServiceOK, LoopOK
  <2> QED
    BY <2>4, <2>5 DEF HiderDone, controlVars, signalVars, loopVars, LoopInv, Dark
<1>13. ASSUME NEW g \in Signalings, DropSignaling(g)
       PROVE  TypeOK' /\ LoopInv'
  <2>1. TypeOK'
    BY <1>0, <1>13 DEF DropSignaling, controlVars, sessionVars, loopVars, workerVars, TypeOK,
                       ControlOK, ServiceOK, LoopOK
  <2> QED
    BY <1>13, <2>1 DEF DropSignaling, controlVars, sessionVars, loopVars, LoopInv, Dark
<1>14. ASSUME NEW s \in Sessions, LoseSession(s) \/ GracePasses(s)
       PROVE  TypeOK' /\ LoopInv'
  <2>1. \/ session' = [session EXCEPT ![s].state = "lost"]
        \/ session' = [session EXCEPT ![s].aged = TRUE]
    BY <1>14 DEF LoseSession, GracePasses
  <2>2. /\ [session EXCEPT ![s].state = "lost"] \in [Sessions -> SessionState]
        /\ [session EXCEPT ![s].aged = TRUE] \in [Sessions -> SessionState]
    BY <1>0, FlagType
  <2>3. session' \in [Sessions -> SessionState]
    BY <2>1, <2>2, Zenon
  <2>4. UNCHANGED <<controlVars, announcer, retired, stale, signalVars, loopVars, workerVars>>
    BY <1>14 DEF LoseSession, GracePasses
  <2>5. TypeOK'
    BY <1>0, <2>3, <2>4 DEF controlVars, signalVars, loopVars, workerVars, TypeOK, ControlOK,
                            ServiceOK, LoopOK
  <2> QED
    BY <2>4, <2>5 DEF controlVars, signalVars, loopVars, LoopInv, Dark
<1>15. ASSUME NEW s \in Sessions, ChangeMembers(s)
       PROVE  TypeOK' /\ LoopInv'
  <2>1. PICK count \in 1..MemberCap :
          /\ session' = [session EXCEPT ![s].members = count]
          /\ healthCheck' = TRUE \/ healthCheck' = healthCheck
    BY <1>15 DEF ChangeMembers
  <2>2. session' \in [Sessions -> SessionState]
    BY <1>0, <2>1, MembersType
  <2>3. healthCheck' \in BOOLEAN
    BY <1>0, <2>1 DEF ControlOK
  <2>4. UNCHANGED <<controlVars, announcer, retired, stale, signalVars, loopVars, hiders>>
    BY <1>15 DEF ChangeMembers
  <2>5. TypeOK'
    BY <1>0, <2>2, <2>3, <2>4 DEF controlVars, signalVars, loopVars, TypeOK, ControlOK, ServiceOK,
                                  LoopOK
  <2> QED
    BY <2>4, <2>5 DEF controlVars, signalVars, loopVars, LoopInv, Dark
<1>16. CASE UNCHANGED vars
  <2>1. Undisturbed /\ UNCHANGED <<pc, issue, probed, attempt, failures>>
    BY <1>16 DEF vars, Undisturbed, loopVars
  <2> QED
    BY <1>0, <2>1, UndisturbedSame DEF TypeOK, LoopOK, LoopInv, controlVars
<1> QED
  BY <1>1, <1>2, <1>3, <1>4, <1>5, <1>6, <1>7, <1>8, <1>9, <1>10, <1>11, <1>12, <1>13, <1>14,
     <1>15, <1>16 DEF Next, Calls, SessionLoop, Tickers, Work, Environment

\* The variables keep their types, and the loop is only where its fields allow it
\* to be, for every configuration.
THEOREM TypeCorrect == Spec => []TypeOK
<1>1. Spec => [](TypeOK /\ LoopInv)
  BY TypingInit, TypingNext, PTL DEF Spec
<1> QED
  BY <1>1, PTL

-----------------------------------------------------------------------------
(* What a step can do to the sessions and the signaling.                    *)

Publishing ==
  \E kept \in SUBSET Tracked :
    \E s \in Fresh(kept), g \in signalingFor(kept) : publishOn(kept, s, g)

Releasing ==
  \E failed \in SUBSET Tracked, sig \in {signaling, ConfSignaling} :
    \E advertised \in Signalings \cup {NoSignaling} :
      /\ releaseSessions(failed, sig, advertised)
      /\ canRecreateSignaling => sig = signaling

Refreshing == (UpdateSucceeds \/ UpdateFails) /\ UNCHANGED <<announcer, retired, signalVars>>

Draining == closeDrainedSessions /\ UNCHANGED <<announcer, stale, signalVars>>

Hiding == \E s \in hiders : /\ session' = [session EXCEPT ![s].hidden = TRUE]
                            /\ Published(s)
                            /\ UNCHANGED <<announcer, retired, stale, signalVars>>

\* Xbox changes the state, the members or the age of a published session.
Altering ==
  /\ \E s \in Sessions :
       /\ Published(s)
       /\ \/ session' = [session EXCEPT ![s].state = "lost"]
          \/ \E count \in 1..MemberCap : session' = [session EXCEPT ![s].members = count]
          \/ session' = [session EXCEPT ![s].aged = TRUE]
  /\ UNCHANGED <<announcer, retired, stale, signalVars>>

Dropping ==
  /\ UNCHANGED <<sessionVars, signaling, sessionConnection, relay>>
  /\ \E g \in Signalings : link[g] = "open" /\ link' = [link EXCEPT ![g] = "lost"]

Quiet == UNCHANGED <<sessionVars, signalVars>>

(* The kinds a step is of, by what it does to the sessions. *)
LEMMA StepKinds ==
  ASSUME TypeOK, LoopInv, [Next]_vars
  PROVE  \/ Rotate
         \/ /\ hiders' \subseteq hiders
            /\ \/ Publishing /\ (recovering \/ ~started)
               \/ Releasing /\ (recovering \/ ~started')
               \/ Refreshing \/ Draining \/ Hiding \/ Altering \/ Dropping \/ Quiet
<1>1. CASE Start
  BY <1>1 DEF Start, StartCall, Publishing, Tracked, workerVars
<1>2. CASE StartFails
  <2>1. signaling = NoSignaling
    BY <1>2 DEF StartFails, StartCall, LoopInv, Dark
  <2> QED
    BY <1>2, <2>1 DEF StartFails, StartCall, Releasing, Closable, canRecreateSignaling, workerVars
<1>3. CASE Close
  BY <1>3 DEF Close, Releasing, Closable, workerVars
<1>4. CASE Update
  BY <1>4 DEF Update, Refreshing, UpdateFails, workerVars
<1>5. CASE LoopStop \/ LoopSignalingDone \/ LoopActivity \/ LoopCheck
  BY <1>5 DEF LoopStop, LoopSignalingDone, LoopActivity, LoopCheck, Undisturbed, Quiet, workerVars
<1>6. CASE LoopWoken
  BY <1>6 DEF LoopWoken, Quiet
<1>7. CASE LoopTick
  BY <1>7 DEF LoopTick, Draining, workerVars
<1>8. CASE Rotate
  BY <1>8
<1>9. CASE RotateFails \/ ReportActivity \/ RecoverSkips \/ RetryCancelled
  BY <1>9 DEF RotateFails, ReportActivity, RecoverSkips, RetryCancelled, Undisturbed, Quiet,
              workerVars
<1>10. CASE Refresh \/ RefreshFails
  BY <1>10 DEF Refresh, RefreshFails, Refreshing, workerVars
<1>11. CASE RecoverBegins \/ BackoffEnds \/ RecoverEnds \/ RecoverGivesUp \/ Cancel
  BY <1>11 DEF RecoverBegins, BackoffEnds, RecoverEnds, RecoverGivesUp, Cancel, Quiet, workerVars
<1>12. CASE Recreate
  BY <1>12 DEF Recreate, Publishing, Closable, LoopInv, workerVars
<1>13. CASE RecreateFails
  BY <1>13, ConstantsAssumption
  DEF RecreateFails, Releasing, Closable, signalingFor, canRecreateSignaling, LoopInv, workerVars
<1>14. ASSUME NEW s \in Sessions, Hide(s) \/ HideFails(s)
       PROVE  hiders' \subseteq hiders /\ (Hiding \/ Quiet)
  BY <1>14 DEF Hide, HideFails, HiderDone, Hiding, Quiet, sessionVars
<1>15. ASSUME NEW g \in Signalings, DropSignaling(g)
       PROVE  hiders' \subseteq hiders /\ Dropping
  BY <1>15 DEF DropSignaling, Dropping, workerVars
<1>16. ASSUME NEW s \in Sessions, LoseSession(s) \/ ChangeMembers(s) \/ GracePasses(s)
       PROVE  hiders' \subseteq hiders /\ Altering
  <2>1. CASE LoseSession(s)
    BY <2>1 DEF LoseSession, Altering, Published, workerVars
  <2>2. CASE ChangeMembers(s)
    BY <2>2 DEF ChangeMembers, Altering, Published
  <2>3. CASE GracePasses(s)
    BY <2>3 DEF GracePasses, Altering, workerVars
  <2> QED
    BY <1>16, <2>1, <2>2, <2>3
<1>17. CASE UNCHANGED vars
  BY <1>17 DEF vars, Quiet, workerVars
<1> QED
  BY <1>1, <1>2, <1>3, <1>4, <1>5, <1>6, <1>7, <1>8, <1>9, <1>10, <1>11, <1>12, <1>13, <1>14,
     <1>15, <1>16, <1>17 DEF Next, Calls, SessionLoop, Tickers, Work, Environment

-----------------------------------------------------------------------------
(* Every kind of step keeps ServiceInv.                                     *)

(* Publishing keeps the service's invariant. *)
LEMMA PublishingKeeps ==
  ASSUME TypeOK, ServiceInv, Publishing, hiders' \subseteq hiders
  PROVE  ServiceInv'
<1>1. PICK kept \in SUBSET Tracked :
        \E s \in Fresh(kept), g \in signalingFor(kept) : publishOn(kept, s, g)
  BY DEF Publishing
<1>2. PICK s \in Fresh(kept), g \in signalingFor(kept) : publishOn(kept, s, g)
  BY <1>1
<1>3. g \in Signalings /\ g # NoSignaling
  BY ConstantsAssumption DEF signalingFor, canRecreateSignaling
<1>4. s \in Sessions /\ s \notin kept /\ s \notin hiders /\ s # NoSession
  BY ConstantsAssumption DEF Fresh
<1>5. \A x \in Sessions :
        session'[x] = IF x = s THEN Advertising(g)
                      ELSE IF x \in Tracked \ kept THEN Absent ELSE session[x]
  BY <1>2, <1>4 DEF publishOn, Without
<1>6. announcer' = s /\ retired' = {} /\ stale' = kept /\ Current' = {s}
  BY <1>2, <1>4 DEF publishOn, Current
<1>7. NoLeakedSession'
  <2>1. ASSUME NEW x \in Sessions, Published(x)' PROVE x \in Tracked'
    BY <1>5, <1>6, <2>1
    DEF Published, Absent, Document, Tracked, ServiceInv, NoLeakedSession
  <2> QED
    BY <1>4, <1>6, <2>1 DEF NoLeakedSession
<1>8. RelayInv'
  <2>1. signaling' = g /\ sessionConnection' = g /\ relay' = g
    BY <1>2 DEF publishOn
  <2>2. Current' \cup retired' = {s} /\ session'[s].conn = g
    BY <1>4, <1>5, <1>6 DEF Advertising, Document
  <2> QED
    BY <1>3, <2>1, <2>2 DEF RelayInv
<1>9. HiderInv'
  BY <1>4, <1>5, <1>6 DEF HiderInv, Advertising, Document
<1>10. NoLeakedSignaling'
  <2>1. SUFFICES ASSUME canRecreateSignaling, NEW h \in Signalings, link'[h] # "closed"
                 PROVE  h = signaling'
    BY DEF NoLeakedSignaling, canRecreateSignaling
  <2>2. signaling' = g /\ link' = [Disconnected(signaling) EXCEPT ![g] = "open"]
    BY <1>2, <2>1 DEF publishOn, Connected
  <2> QED
    BY <2>1, <2>2 DEF Disconnected, ServiceInv, NoLeakedSignaling
<1> QED
  BY <1>7, <1>8, <1>9, <1>10 DEF ServiceInv

(* Releasing keeps the service's invariant. *)
LEMMA ReleasingKeeps ==
  ASSUME TypeOK, ServiceInv, Releasing
  PROVE  ServiceInv'
<1>1. PICK failed \in SUBSET Tracked, sig \in {signaling, ConfSignaling} :
        \E advertised \in Signalings \cup {NoSignaling} :
          /\ releaseSessions(failed, sig, advertised)
          /\ canRecreateSignaling => sig = signaling
  BY DEF Releasing
<1>2. PICK advertised \in Signalings \cup {NoSignaling} : releaseSessions(failed, sig, advertised)
  BY <1>1
<1>3. \A x \in Sessions : session'[x] = IF x \in Tracked \ failed THEN Absent ELSE session[x]
  BY <1>2 DEF releaseSessions, Without
<1>4. announcer' = NoSession /\ retired' = {} /\ stale' = failed /\ Current' = {}
  BY <1>2 DEF releaseSessions, Current
<1>5. NoLeakedSession'
  BY <1>3, <1>4, TrackedType, ConstantsAssumption
  DEF NoLeakedSession, ServiceInv, Published, Absent, Document, Tracked
<1>6. RelayInv' /\ HiderInv'
  BY <1>2, <1>4 DEF releaseSessions, RelayInv, HiderInv
<1>7. NoLeakedSignaling'
  BY <1>1, <1>2 DEF releaseSessions, Disconnected, ServiceInv, NoLeakedSignaling,
                    canRecreateSignaling
<1> QED
  BY <1>5, <1>6, <1>7 DEF ServiceInv

\* A step that only touches records, never what announces which session or the
\* signaling, keeps ServiceInv if it publishes and unpublishes tracked sessions only.
LEMMA RecordsKeep ==
  ASSUME TypeOK, ServiceInv,
         UNCHANGED <<announcer, retired, stale, signalVars>>, hiders' \subseteq hiders,
         \A x \in Sessions :
           /\ session'[x].conn = session[x].conn
           /\ session'[x].state # session[x].state => session'[x].state = "none" \/ x \in Tracked
           /\ session'[x].hidden # session[x].hidden => x \in hiders
  PROVE  ServiceInv'
<1>1. Current' = Current /\ Tracked' = Tracked /\ Current \subseteq Sessions
  BY DEF Current, Tracked, TypeOK, ServiceOK
<1>2. NoLeakedSession'
  BY <1>1 DEF ServiceInv, NoLeakedSession, Published
<1>3. RelayInv'
  BY <1>1 DEF ServiceInv, RelayInv, signalVars, TypeOK, ServiceOK
<1>4. HiderInv'
  BY <1>1 DEF ServiceInv, HiderInv
<1>5. NoLeakedSignaling'
  BY DEF ServiceInv, NoLeakedSignaling, signalVars, canRecreateSignaling
<1> QED
  BY <1>2, <1>3, <1>4, <1>5 DEF ServiceInv

\* Closing sessions of one of the two lists of old ones keeps the current session,
\* and with it ServiceInv.
LEMMA ClosingKeeps ==
  ASSUME TypeOK, ServiceInv, UNCHANGED <<announcer, signalVars>>, hiders' \subseteq hiders,
         NEW closed \in SUBSET (retired \cup stale),
         retired' = retired \ closed, stale' = stale \ closed,
         \A x \in Sessions \ closed :
           /\ session'[x].conn = session[x].conn
           /\ session'[x].hidden = session[x].hidden
           /\ session'[x].state # session[x].state => x = announcer,
         \A x \in closed : session'[x].state = "none"
  PROVE  ServiceInv'
<1>1. Current' = Current /\ Current \subseteq Sessions /\ retired \subseteq Sessions
  BY DEF Current, TypeOK, ServiceOK
<1>2. Current \cap closed = {}
  BY DEF ServiceInv, NoLeakedSession, Current
<1>3. NoLeakedSession'
  <2>1. ASSUME NEW x \in Sessions, Published(x)' PROVE x \in Tracked'
    <3>1. x \notin closed
      BY <2>1 DEF Published
    <3>2. Published(x) \/ x = announcer
      BY <2>1, <3>1 DEF Published
    <3>3. x \in Current \cup retired \cup stale
      BY <3>2, ConstantsAssumption DEF ServiceInv, NoLeakedSession, Tracked, Current
    <3> QED
      BY <1>1, <3>1, <3>3 DEF Tracked
  <2> QED
    BY <2>1 DEF ServiceInv, NoLeakedSession
<1>4. RelayInv'
  BY <1>1, <1>2 DEF ServiceInv, RelayInv, signalVars
<1>5. HiderInv'
  BY <1>1, <1>2 DEF ServiceInv, HiderInv
<1>6. NoLeakedSignaling'
  BY DEF ServiceInv, NoLeakedSignaling, signalVars, canRecreateSignaling
<1> QED
  BY <1>3, <1>4, <1>5, <1>6 DEF ServiceInv

(* A session that is published again keeps its connection; the others are
   as they were. *)
LEMMA RepublishEffect ==
  ASSUME NEW f \in [Sessions -> SessionState], NEW s \in Sessions, NEW state \in {"none", "open"}
  PROVE  \A x \in Sessions :
           LET g == [f EXCEPT ![s].state = state, ![s].members = 1]
           IN  /\ g[x].conn = f[x].conn /\ g[x].hidden = f[x].hidden
               /\ x # s => g[x] = f[x]
BY DEF SessionState

(* Refreshing the announced session keeps the service's invariant. *)
LEMMA RefreshingKeeps ==
  ASSUME TypeOK, ServiceInv, Refreshing, hiders' \subseteq hiders
  PROVE  ServiceInv'
<1>0. session \in [Sessions -> SessionState] /\ UNCHANGED <<announcer, retired, signalVars>>
  BY DEF TypeOK, ServiceOK, Refreshing
<1>1. CASE UpdateInPlace \/ UpdateRepublishes
  <2>1. PICK failed \in SUBSET stale :
          /\ stale' = failed
          /\ \/ session' = Without(stale \ failed)
             \/ /\ announcer \in Sessions
                /\ session' = [Without(stale \ failed) EXCEPT ![announcer].state = "open",
                                                              ![announcer].members = 1]
    BY <1>1 DEF UpdateInPlace, UpdateRepublishes, Serving, TypeOK, ServiceOK
  <2>2. announcer \notin stale /\ retired \cap stale = {}
    BY DEF ServiceInv, NoLeakedSession
  <2>3. Without(stale \ failed) = [x \in Sessions |-> IF x \in stale \ failed THEN Absent ELSE session[x]]
    BY DEF Without
  <2>4. \A x \in Sessions \ (stale \ failed) :
          /\ session'[x].conn = session[x].conn
          /\ session'[x].hidden = session[x].hidden
          /\ session'[x].state # session[x].state => x = announcer
    <3>1. CASE session' = Without(stale \ failed)
      BY <2>3, <3>1
    <3>2. CASE /\ announcer \in Sessions
               /\ session' = [Without(stale \ failed) EXCEPT ![announcer].state = "open",
                                                             ![announcer].members = 1]
      <4>1. Without(stale \ failed) \in [Sessions -> SessionState]
        BY <1>0, WithoutType
      <4>2. \A x \in Sessions :
              /\ session'[x].conn = Without(stale \ failed)[x].conn
              /\ session'[x].hidden = Without(stale \ failed)[x].hidden
              /\ x # announcer => session'[x] = Without(stale \ failed)[x]
        BY <3>2, <4>1, RepublishEffect, Zenon
      <4> QED
        BY <2>3, <4>2
    <3> QED
      BY <2>1, <3>1, <3>2
  <2>5. \A x \in stale \ failed : session'[x].state = "none"
    <3>1. \A x \in stale \ failed : x \in Sessions /\ x # announcer /\ Without(stale \ failed)[x] = Absent
      BY <2>2, <2>3 DEF TypeOK, ServiceOK
    <3>2. \A x \in Sessions : x # announcer => session'[x] = Without(stale \ failed)[x]
      <4>1. Without(stale \ failed) \in [Sessions -> SessionState]
        BY <1>0, WithoutType
      <4>2. CASE session' = Without(stale \ failed)
        BY <4>2
      <4>3. CASE /\ announcer \in Sessions
                 /\ session' = [Without(stale \ failed) EXCEPT ![announcer].state = "open",
                                                               ![announcer].members = 1]
        BY <4>1, <4>3, RepublishEffect, Zenon
      <4> QED
        BY <2>1, <4>2, <4>3
    <3> QED
      BY <3>1, <3>2 DEF Absent, Document
  <2>6. retired' = retired \ (stale \ failed) /\ stale' = stale \ (stale \ failed)
    BY <1>0, <2>1, <2>2
  <2> QED
    BY <1>0, <2>4, <2>5, <2>6, ClosingKeeps
<1>2. CASE UpdateUnpublishes
  <2>1. announcer \in Sessions
    BY <1>2 DEF UpdateUnpublishes, Serving, TypeOK, ServiceOK
  <2>2. \A x \in Sessions :
          /\ session'[x].conn = session[x].conn
          /\ session'[x].hidden = session[x].hidden
          /\ session'[x].state # session[x].state => session'[x].state = "none"
    BY <1>0, <1>2, <2>1 DEF UpdateUnpublishes, SessionState
  <2> QED
    BY <1>0, <1>2, <2>2, RecordsKeep DEF UpdateUnpublishes
<1>3. CASE UpdateDoesNothing
  BY <1>0, <1>3, RecordsKeep DEF UpdateDoesNothing
<1> QED
  BY <1>1, <1>2, <1>3 DEF Refreshing, UpdateSucceeds, UpdateFails

(* Closing a drained session keeps the service's invariant. *)
LEMMA DrainingKeeps ==
  ASSUME TypeOK, ServiceInv, Draining, hiders' \subseteq hiders
  PROVE  ServiceInv'
<1>1. PICK failed \in SUBSET Drained :
        retired' = retired \ (Drained \ failed) /\ session' = Without(Drained \ failed)
  BY DEF Draining, closeDrainedSessions
<1>2. Drained \ failed \in SUBSET (retired \cup stale) /\ Drained \subseteq retired
  BY DEF Drained
<1>3. \A x \in Sessions : session'[x] = IF x \in Drained \ failed THEN Absent ELSE session[x]
  BY <1>1 DEF Without
<1>4. UNCHANGED <<announcer, signalVars>> /\ stale' = stale \ (Drained \ failed)
  BY <1>2 DEF Draining, ServiceInv, NoLeakedSession
<1>5. \A x \in Drained \ failed : session'[x].state = "none"
  BY <1>2, <1>3 DEF Absent, Document, TypeOK, ServiceOK
<1> QED
  BY <1>1, <1>2, <1>3, <1>4, <1>5, ClosingKeeps

(* Hiding a rotated session keeps the service's invariant. *)
LEMMA HidingKeeps ==
  ASSUME TypeOK, ServiceInv, Hiding, hiders' \subseteq hiders
  PROVE  ServiceInv'
<1>1. PICK s \in hiders : /\ session' = [session EXCEPT ![s].hidden = TRUE]
                          /\ UNCHANGED <<announcer, retired, stale, signalVars>>
  BY DEF Hiding
<1>2. session \in [Sessions -> SessionState] /\ s \in Sessions
  BY <1>1 DEF TypeOK, ServiceOK, ControlOK
<1>3. \A x \in Sessions :
        /\ session'[x].conn = session[x].conn
        /\ session'[x].state = session[x].state
        /\ session'[x].hidden # session[x].hidden => x \in hiders
  BY <1>1, <1>2 DEF SessionState
<1> QED
  BY <1>1, <1>3, RecordsKeep

(* A change the directory makes to a session keeps the service's invariant. *)
LEMMA AlteringKeeps ==
  ASSUME TypeOK, ServiceInv, Altering, hiders' \subseteq hiders
  PROVE  ServiceInv'
<1>1. PICK s \in Sessions :
        /\ Published(s)
        /\ \/ session' = [session EXCEPT ![s].state = "lost"]
           \/ \E count \in 1..MemberCap : session' = [session EXCEPT ![s].members = count]
           \/ session' = [session EXCEPT ![s].aged = TRUE]
  BY DEF Altering
<1>2. session \in [Sessions -> SessionState] /\ s \in Tracked
  BY <1>1 DEF TypeOK, ServiceOK, ServiceInv, NoLeakedSession
<1>3. \A x \in Sessions :
        /\ session'[x].conn = session[x].conn
        /\ session'[x].state # session[x].state => x \in Tracked
        /\ session'[x].hidden = session[x].hidden
  BY <1>1, <1>2 DEF SessionState
<1> QED
  BY <1>3, RecordsKeep DEF Altering

(* A connection that is lost keeps the service's invariant. *)
LEMMA DroppingKeeps ==
  ASSUME TypeOK, ServiceInv, Dropping, hiders' \subseteq hiders
  PROVE  ServiceInv'
<1>1. /\ UNCHANGED <<announcer, retired, stale, session, signaling, sessionConnection, relay>>
      /\ Current' = Current /\ Tracked' = Tracked
  BY DEF Dropping, sessionVars, Current, Tracked
<1>2. NoLeakedSignaling'
  BY <1>1 DEF Dropping, ServiceInv, NoLeakedSignaling, canRecreateSignaling, TypeOK, ServiceOK
<1> QED
  BY <1>1, <1>2 DEF ServiceInv, NoLeakedSession, Published, RelayInv, HiderInv

(* A step of the bookkeeping alone keeps the service's invariant. *)
LEMMA QuietKeeps ==
  ASSUME TypeOK, ServiceInv, Quiet, hiders' \subseteq hiders
  PROVE  ServiceInv'
BY RecordsKeep DEF Quiet, sessionVars

(* A rotation keeps the service's invariant. *)
LEMMA RotateKeeps ==
  ASSUME TypeOK, LoopInv, ServiceInv, Rotate
  PROVE  ServiceInv'
<1>1. PICK s \in Fresh(Tracked) :
        announcer' = s /\ session' = [session EXCEPT ![s] = Advertising(sessionConnection)]
  BY DEF Rotate
<1>2. /\ s \in Sessions /\ s \notin Tracked /\ s \notin hiders
      /\ announcer # NoSession /\ s # NoSession
  BY <1>1, ConstantsAssumption DEF Fresh, Rotate, LoopInv
<1>3. \A x \in Sessions :
        session'[x] = IF x = s THEN Advertising(sessionConnection) ELSE session[x]
  BY <1>1 DEF TypeOK, ServiceOK
<1>4. /\ Current' = {s} /\ Current = {announcer} /\ retired' = retired \cup {announcer}
      /\ stale' = stale /\ Tracked' = Tracked \cup {s}
      /\ UNCHANGED <<signaling, sessionConnection, relay, link>>
  BY <1>1, <1>2 DEF Rotate, Current, Tracked, signalVars
<1>5. NoLeakedSession'
  <2>1. \A x \in Sessions : Published(x)' => x \in Tracked'
    BY <1>3, <1>4 DEF ServiceInv, NoLeakedSession, Published
  <2>2. s \notin retired /\ s \notin stale /\ s # announcer
    BY <1>2, <1>4 DEF Tracked
  <2>3. announcer \notin stale /\ retired \cap stale = {}
    BY DEF ServiceInv, NoLeakedSession
  <2> QED
    BY <1>1, <1>4, <2>1, <2>2, <2>3 DEF NoLeakedSession
<1>6. RelayInv'
  <2>1. relay # NoSignaling /\ sessionConnection = relay
    BY <1>4 DEF ServiceInv, RelayInv
  <2> QED
    BY <1>2, <1>3, <1>4, <2>1
    DEF ServiceInv, RelayInv, Advertising, Document, TypeOK, ServiceOK
<1>7. HiderInv'
  <2>1. hiders' \subseteq hiders \cup {announcer} /\ s # announcer
    BY <1>2, <1>4 DEF Rotate, Tracked
  <2> QED
    BY <1>2, <1>3, <1>4, <2>1 DEF HiderInv, Advertising, Document
<1>8. NoLeakedSignaling'
  BY <1>4 DEF ServiceInv, NoLeakedSignaling, canRecreateSignaling
<1> QED
  BY <1>5, <1>6, <1>7, <1>8 DEF ServiceInv

(* The service's invariant holds initially. *)
LEMMA ServiceInit == Init => ServiceInv
BY ConstantsAssumption DEF Init, ServiceInv, NoLeakedSession, Published, Absent, Document,
     Current, RelayInv, HiderInv,
       NoLeakedSignaling, canRecreateSignaling

(* Every step keeps the service's invariant. *)
LEMMA ServiceNext == TypeOK /\ LoopInv /\ ServiceInv /\ [Next]_vars => ServiceInv'
BY StepKinds, RotateKeeps, PublishingKeeps, ReleasingKeeps, RefreshingKeeps, DrainingKeeps,
   HidingKeeps, AlteringKeeps, DroppingKeeps, QuietKeeps

-----------------------------------------------------------------------------
(* The safety properties follow from the inductive invariant.               *)

(* The inductive invariant holds in every reachable state. *)
LEMMA Invariance == Spec => []IInv
<1>1. Init => IInv
  BY TypingInit, ServiceInit DEF IInv
<1>2. IInv /\ [Next]_vars => IInv'
  BY TypingNext, ServiceNext DEF IInv
<1> QED
  BY <1>1, <1>2, PTL DEF Spec

\* No session that is still listed is ever forgotten, however rotations, recoveries,
\* failed closes and restarts interleave.
THEOREM SessionsAreRemembered == Spec => []NoLeakedSession
<1>1. IInv => NoLeakedSession
  BY DEF IInv, ServiceInv
<1> QED
  BY <1>1, Invariance, PTL

\* Whichever session a player picks, the relay listens where it points.
THEOREM SessionsAreRelayed == Spec => []AdvertisedIsRelayed
<1>1. IInv => AdvertisedIsRelayed
  BY DEF IInv, ServiceInv, RelayInv, AdvertisedIsRelayed
<1> QED
  BY <1>1, Invariance, PTL

\* A dialed connection is closed when it is replaced or its session was not published.
THEOREM SignalingIsClosed == Spec => []NoLeakedSignaling
<1>1. IInv => NoLeakedSignaling
  BY DEF IInv, ServiceInv
<1> QED
  BY <1>1, Invariance, PTL

\* Close leaves nothing up, wherever the loop was.
THEOREM StopReleases == Spec => []StoppedIsReleased
<1>1. IInv => StoppedIsReleased
  BY DEF IInv, LoopInv, Dark, StoppedIsReleased, Current
<1> QED
  BY <1>1, Invariance, PTL

\* A running Broadcaster serves, unless it is recovering.
THEOREM RunningServes == Spec => []ServesUnlessRecovering
<1>1. IInv => ServesUnlessRecovering
  <2> SUFFICES ASSUME IInv, started, ~cancelled, ~recovering
               PROVE  announcer # NoSession /\ relay # NoSignaling
    BY DEF ServesUnlessRecovering
  <2>1. announcer # NoSession
    BY DEF IInv, TypeOK, LoopOK, LoopInv
  <2> QED
    BY <2>1 DEF IInv, ServiceInv, RelayInv, Current
<1> QED
  BY <1>1, Invariance, PTL

\* A failure Wait reports leaves nothing up.
THEOREM FailureReleases == Spec => []FailureIsFinal
<1>1. IInv => FailureIsFinal
  BY DEF IInv, LoopInv, Dark, FailureIsFinal, Current
<1> QED
  BY <1>1, Invariance, PTL

\* Hiding never reaches a current session.
THEOREM HidingSparesCurrent == Spec => []CurrentIsVisible
<1>1. IInv => CurrentIsVisible
  BY DEF IInv, ServiceInv, HiderInv, CurrentIsVisible
<1> QED
  BY <1>1, Invariance, PTL

-----------------------------------------------------------------------------
(* What a step may never do.                                                *)

\* Who may set the Broadcaster's fields.
LEMMA ControlSteps ==
  ASSUME [Next]_vars
  PROVE  /\ failure' = failure \/ failure' = FALSE \/ RecoverGivesUp
         /\ recovering' = recovering \/ recovering' = FALSE \/ RecoverBegins
         /\ started' = started \/ started' = FALSE \/ Start
<1>1. CASE Calls
  BY <1>1 DEF Calls, Start, StartFails, Close, Update, controlVars
<1>2. CASE SessionLoop
  BY <1>2 DEF SessionLoop, Tickers, Work, Undisturbed, controlVars, LoopStop, LoopSignalingDone,
       LoopActivity,
              LoopTick, LoopWoken, LoopCheck, Rotate, RotateFails, ReportActivity, Refresh,
              RefreshFails, RecoverBegins, RecoverSkips, Recreate, RecreateFails, RetryCancelled,
              BackoffEnds, RecoverEnds, RecoverGivesUp
<1>3. CASE Environment \/ \E s \in Sessions : Hide(s) \/ HideFails(s)
  BY <1>3 DEF Environment, Cancel, DropSignaling, LoseSession, ChangeMembers, GracePasses, Hide,
              HideFails, HiderDone, controlVars
<1>4. CASE UNCHANGED vars
  BY <1>4 DEF vars, controlVars
<1> QED
  BY <1>1, <1>2, <1>3, <1>4 DEF Next

\* A shutdown that overtakes a recovery is not reported as its failure.
THEOREM CancellationIsClean == Spec => CancellationIsNoFailure
<1>1. TypeOK /\ [Next]_vars => [cancelled /\ failure' => failure]_vars
  BY ControlSteps DEF RecoverGivesUp, TypeOK, ControlOK
<1> QED
  BY <1>1, TypeCorrect, PTL DEF Spec, CancellationIsNoFailure

(* A refresh leaves every session but the announced and the stale ones
   alone. *)
LEMMA RefreshEffect ==
  ASSUME TypeOK, Refreshing, NEW s \in Sessions, s # announcer, s \notin stale
  PROVE  session'[s] = session[s]
<1>1. \A failed : Without(stale \ failed)[s] = session[s]
  BY DEF Without
<1>2. \A failed : Without(stale \ failed) \in [Sessions -> SessionState]
  BY WithoutType DEF TypeOK, ServiceOK
<1>3. CASE UpdateInPlace
  BY <1>1, <1>3 DEF UpdateInPlace
<1>4. CASE UpdateRepublishes
  <2>1. PICK failed \in SUBSET stale :
          session' = [Without(stale \ failed) EXCEPT ![announcer].state = "open",
                                                    ![announcer].members = 1]
    BY <1>4 DEF UpdateRepublishes
  <2>2. announcer \in Sessions
    BY <1>4 DEF UpdateRepublishes, Serving, TypeOK, ServiceOK
  <2> QED
    <3>1. Without(stale \ failed) \in [Sessions -> SessionState]
      BY <1>2
    <3>2. \A x \in Sessions : x # announcer => session'[x] = Without(stale \ failed)[x]
      BY <2>1, <2>2, <3>1
    <3> QED
      BY <1>1, <3>2
<1>5. CASE UpdateUnpublishes
  BY <1>5, RepublishEffect DEF UpdateUnpublishes, Serving, TypeOK, ServiceOK
<1>6. CASE UpdateDoesNothing
  BY <1>6 DEF UpdateDoesNothing
<1> QED
  BY <1>3, <1>4, <1>5, <1>6 DEF Refreshing, UpdateSucceeds, UpdateFails

\* Outside recovery and shutdown a rotated-out session is closed only once it drained.
THEOREM RetiredSessionsAreKept == Spec => RetiredKeptForPlayers
<1>1. ASSUME IInv, [Next]_vars, NEW s \in retired,
             session[s].state = "open", session'[s].state = "none"
      PROVE  \/ recovering \/ ~started'
             \/ session[s].aged /\ session[s].members = 1
  <2>1. /\ s \in Sessions /\ session \in [Sessions -> SessionState] /\ TypeOK
        /\ s # announcer /\ s \notin stale /\ (~started => recovering)
    BY <1>1 DEF IInv, TypeOK, ServiceOK, ServiceInv, NoLeakedSession, LoopInv, Dark
  <2>2. CASE Publishing /\ (recovering \/ ~started)
    BY <2>1, <2>2
  <2>3. CASE Releasing /\ (recovering \/ ~started')
    BY <2>1, <2>3
  <2>4. CASE Refreshing
    BY <1>1, <2>1, <2>4, RefreshEffect
  <2>5. CASE Draining
    <3>1. s \in Drained
      BY <1>1, <2>1, <2>5 DEF Draining, closeDrainedSessions, Without
    <3> QED
      BY <1>1, <2>1, <3>1, ConstantsAssumption DEF Drained, SessionState
  <2>6. CASE Hiding
    BY <1>1, <2>1, <2>6 DEF Hiding, SessionState
  <2>9. CASE Altering
    <3>1. PICK x \in Sessions :
            \/ session' = [session EXCEPT ![x].state = "lost"]
            \/ \E count \in 1..MemberCap : session' = [session EXCEPT ![x].members = count]
            \/ session' = [session EXCEPT ![x].aged = TRUE]
      BY <2>9 DEF Altering
    <3> QED
      BY <1>1, <2>1, <3>1 DEF SessionState
  <2>7. CASE Dropping \/ Quiet
    BY <1>1, <2>7 DEF Dropping, Quiet, sessionVars
  <2>8. CASE Rotate
    BY <1>1, <2>1, <2>8 DEF Rotate, Fresh, Tracked
  <2> QED
    BY <1>1, <2>2, <2>3, <2>4, <2>5, <2>6, <2>7, <2>8, <2>9, StepKinds DEF IInv
<1>2. IInv /\ [Next]_vars =>
        [\A s \in retired :
           session[s].state = "open" /\ session'[s].state = "none"
             => \/ recovering \/ ~started'
                \/ session[s].aged /\ session[s].members = 1]_vars
  BY <1>1
<1> QED
  BY <1>2, Invariance, PTL DEF Spec, RetiredKeptForPlayers

\* A recovery is not disturbed by anyone but Close and Xbox itself.
THEOREM RecoveryIsAlone == Spec => RecoveryIsExclusive
<1>1. ASSUME IInv, [Next]_vars, recovering, recovering', pc' = pc, started', NEW s \in Sessions
      PROVE  Published(s)' = Published(s)
  <2>1. /\ session \in [Sessions -> SessionState]
        /\ pc \in {"attempt", "backoff", "rebuilt", "givenup"}
    BY <1>1 DEF IInv, TypeOK, ServiceOK, LoopInv
  <2>2. CASE Calls
    BY <1>1, <2>1, <2>2 DEF Calls, Start, StartFails, StartCall, Close, Update, UpdateSucceeds,
                            UpdateInPlace, UpdateRepublishes, UpdateUnpublishes, Serving
  <2>3. CASE SessionLoop
    BY <1>1, <2>1, <2>3 DEF SessionLoop, Tickers, Work, LoopStop, LoopSignalingDone,
         LoopActivity, LoopTick,
       LoopWoken, LoopCheck, Rotate, RotateFails, ReportActivity, RefreshCase, Refresh,
       RefreshFails, RecoverCase, RecoverBegins, RecoverSkips, Recreate, RecreateFails,
       RetryCancelled, BackoffEnds, RecoverEnds, RecoverGivesUp, Advance, Goto
  <2>4. CASE \E x \in Sessions : Hide(x) \/ HideFails(x)
    BY <2>1, <2>4 DEF Hide, HideFails, Published, SessionState
  <2>5. CASE Environment
    BY <2>1, <2>5 DEF Environment, Cancel, DropSignaling, LoseSession, ChangeMembers, GracePasses,
                      sessionVars, Published, SessionState
  <2>6. CASE UNCHANGED vars
    BY <2>6 DEF vars, sessionVars, Published
  <2> QED
    BY <1>1, <2>2, <2>3, <2>4, <2>5, <2>6 DEF Next
<1>2. IInv /\ [Next]_vars =>
        [recovering /\ recovering' /\ pc' = pc /\ started'
           => \A s \in Sessions : Published(s)' = Published(s)]_vars
  BY <1>1
<1> QED
  BY <1>2, Invariance, PTL DEF Spec, RecoveryIsExclusive

\* With a configured connection recovery never runs, so a session is never missing.
StaticInv ==
  ~canRecreateSignaling => ~recovering /\ ~failure /\ (started => announcer # NoSession)

(* Without a way to recreate signaling, no step of a started broadcaster
   replaces it. *)
LEMMA StaticNext ==
  ASSUME TypeOK, LoopInv, StaticInv, [Next]_vars
  PROVE  /\ StaticInv'
         /\ ~canRecreateSignaling /\ started /\ started' => signaling' = signaling
<1> SUFFICES ASSUME ~canRecreateSignaling
             PROVE  /\ ~recovering' /\ ~failure' /\ (started' => announcer' # NoSession)
                    /\ started /\ started' => signaling' = signaling
  BY DEF StaticInv, canRecreateSignaling
<1>1. /\ ~recovering /\ ~failure /\ (started => announcer # NoSession)
      /\ pc \notin {"attempt", "backoff", "rebuilt", "givenup"}
  BY DEF StaticInv, LoopInv
<1>2. ~recovering'
  BY <1>1, ControlSteps DEF RecoverBegins, RecoverCase
<1>3. ~failure'
  BY <1>1, ControlSteps DEF RecoverGivesUp
<1>4. CASE Start
  <2>1. PICK s \in Fresh(stale), g \in signalingFor(stale) : publishOn(stale, s, g)
    BY <1>4 DEF Start
  <2> QED
    BY <1>2, <1>3, <1>4, <2>1, ConstantsAssumption DEF Start, StartCall, Fresh, publishOn
<1>5. CASE ~started'
  BY <1>2, <1>3, <1>5
<1>6. CASE started /\ started'
  <2>1. CASE Rotate
    <3>1. announcer' \in Sessions /\ signaling' = signaling
      BY <2>1 DEF Rotate, Fresh, signalVars
    <3> QED
      BY <1>2, <1>3, <3>1, ConstantsAssumption
  <2>2. ASSUME Refreshing \/ Draining \/ Hiding \/ Altering
        PROVE  announcer' = announcer /\ signaling' = signaling
    BY <2>2 DEF Refreshing, Draining, Hiding, Altering, signalVars
  <2>3. ASSUME Dropping \/ Quiet
        PROVE  announcer' = announcer /\ signaling' = signaling
    BY <2>3 DEF Dropping, Quiet, sessionVars, signalVars
  <2>4. CASE Refreshing \/ Draining \/ Hiding \/ Altering \/ Dropping \/ Quiet
    BY <1>1, <1>2, <1>3, <1>6, <2>2, <2>3, <2>4
  <2>5. Rotate \/ Refreshing \/ Draining \/ Hiding \/ Altering \/ Dropping \/ Quiet
    BY <1>1, <1>6, StepKinds
  <2> QED
    BY <1>2, <1>3, <2>1, <2>4, <2>5
<1> QED
  BY <1>4, <1>5, <1>6, ControlSteps

\* A configured connection is neither replaced nor given up for a recovery.
THEOREM StaticConnectionIsKept == Spec => StaticIsKept
<1>1. Init => StaticInv
  BY DEF Init, StaticInv
<1>2. IInv /\ StaticInv /\ [Next]_vars => StaticInv'
  BY StaticNext DEF IInv
<1>3. IInv /\ StaticInv /\ StaticInv' /\ [Next]_vars =>
        [~canRecreateSignaling /\ started /\ started'
           => signaling' = signaling /\ ~recovering' /\ ~failure' /\ announcer' # NoSession]_vars
  BY StaticNext DEF IInv, StaticInv, canRecreateSignaling
<1> QED
  BY <1>1, <1>2, <1>3, Invariance, PTL DEF Spec, StaticIsKept

-----------------------------------------------------------------------------
(* The Broadcaster implements BroadcastService.                             *)

(* Every step is a step of BroadcastService, or a stutter of it. *)
LEMMA ServiceStep ==
  ASSUME IInv, [Next]_vars
  PROVE  [Service!Next]_<<phase, announcer>>
<1> USE DEF phase
<1>1. /\ started \in BOOLEAN /\ recovering \in BOOLEAN /\ failure \in BOOLEAN
      /\ cancelled \in BOOLEAN /\ announcer \in Sessions \cup {NoSession}
      /\ LoopInv
  BY DEF IInv, TypeOK, ControlOK, ServiceOK
<1>2. ASSUME UNCHANGED <<controlVars, announcer>>
      PROVE  UNCHANGED <<phase, announcer>>
  BY <1>2 DEF controlVars
<1>3. CASE Start
  <2>1. PICK s \in Fresh(stale), g \in signalingFor(stale) : publishOn(stale, s, g)
    BY <1>3 DEF Start
  <2>2. announcer' \in Sessions
    BY <2>1 DEF publishOn, Fresh
  <2>3. ~started /\ ~recovering'
    BY <1>1, <1>3 DEF Start, StartCall, LoopInv
  <2>4. Service!Start
    BY <1>3, <2>2, <2>3 DEF Start, Service!Start
  <2> QED
    BY <2>4 DEF Service!Next
<1>4. CASE StartFails
  <2>1. ~started /\ ~started' /\ announcer' = NoSession /\ announcer = NoSession
    BY <1>1, <1>4 DEF StartFails, StartCall, releaseSessions, LoopInv, Dark
  <2> QED
    BY <2>1
<1>5. CASE Close
  <2>1. started /\ ~started' /\ announcer' = NoSession
    BY <1>5 DEF Close, releaseSessions
  <2>2. Service!Close
    BY <2>1 DEF Service!Close
  <2> QED
    BY <2>2 DEF Service!Next
<1>6. CASE Rotate
  <2>1. /\ started /\ ~recovering /\ UNCHANGED controlVars /\ announcer' \in Sessions
    BY <1>6 DEF Rotate, Fresh
  <2>2. ~failure
    BY <1>1, <1>6 DEF Rotate, LoopInv
  <2>3. Service!Rotate \/ Service!WindDown
    BY <1>1, <2>1, <2>2 DEF controlVars, Service!Rotate, Service!WindDown
  <2> QED
    BY <2>3 DEF Service!Next
<1>7. CASE RecoverBegins
  <2>1. /\ ~recovering /\ ~cancelled /\ ~failure
        /\ UNCHANGED <<started, failure, cancelled, announcer>> /\ recovering'
    BY <1>1, <1>7 DEF RecoverBegins, RecoverCase, LoopInv, sessionVars
  <2>2. started => Service!Repair
    BY <2>1 DEF Service!Repair
  <2> QED
    BY <2>1, <2>2 DEF Service!Next
<1>8. CASE Recreate \/ RecreateFails
  <2>1. /\ started /\ recovering /\ ~cancelled /\ ~failure /\ UNCHANGED controlVars
    BY <1>1, <1>8 DEF Recreate, RecreateFails, LoopInv
  <2>2. announcer' \in Sessions \cup {NoSession}
    BY <1>8 DEF Recreate, RecreateFails, publishOn, releaseSessions, Fresh
  <2>3. Service!Attempt
    BY <2>1, <2>2 DEF controlVars, Service!Attempt
  <2> QED
    BY <2>3 DEF Service!Next
<1>9. CASE RecoverEnds
  <2>1. /\ recovering /\ ~recovering' /\ ~failure /\ (started => announcer \in Sessions)
        /\ UNCHANGED <<started, failure, cancelled, announcer>>
    BY <1>1, <1>9 DEF RecoverEnds, LoopInv, sessionVars
  <2>2. started /\ ~cancelled => Service!Repaired
    BY <2>1 DEF Service!Repaired
  <2> QED
    BY <2>1, <2>2 DEF Service!Next
<1>10. CASE RecoverGivesUp
  <2>1. /\ recovering /\ ~failure /\ cancelled' /\ (~cancelled => failure' /\ announcer = NoSession)
        /\ (cancelled => ~failure') /\ UNCHANGED <<started, announcer>>
    BY <1>1, <1>10 DEF RecoverGivesUp, LoopInv, Dark, sessionVars
  <2>2. started /\ ~cancelled => Service!Fail
    BY <2>1 DEF Service!Fail
  <2> QED
    BY <2>1, <2>2 DEF Service!Next
<1>11. CASE Cancel
  <2>1. /\ started /\ ~cancelled /\ cancelled' /\ ~failure
        /\ UNCHANGED <<started, recovering, failure, announcer>>
    BY <1>1, <1>11 DEF Cancel, LoopInv, sessionVars
  <2>2. Service!Stop
    BY <2>1 DEF Service!Stop
  <2> QED
    BY <2>2 DEF Service!Next
<1>12. CASE Update
  BY <1>2, <1>12 DEF Update
<1>13. CASE LoopStop \/ LoopSignalingDone \/ LoopActivity \/ LoopCheck \/ LoopWoken \/ LoopTick
  BY <1>2, <1>13 DEF LoopStop, LoopSignalingDone, LoopActivity, LoopCheck, LoopWoken, LoopTick,
                     Undisturbed, sessionVars
<1>14. CASE RotateFails \/ ReportActivity \/ RecoverSkips \/ RetryCancelled \/ BackoffEnds
  BY <1>2, <1>14 DEF RotateFails, ReportActivity, RecoverSkips, RetryCancelled, BackoffEnds,
                     Undisturbed, sessionVars
<1>15. CASE Refresh \/ RefreshFails
  BY <1>2, <1>15 DEF Refresh, RefreshFails
<1>16. CASE \E s \in Sessions : Hide(s) \/ HideFails(s)
  BY <1>2, <1>16 DEF Hide, HideFails, HiderDone
<1>17. CASE \/ \E g \in Signalings : DropSignaling(g)
            \/ \E s \in Sessions : LoseSession(s) \/ ChangeMembers(s) \/ GracePasses(s)
  BY <1>2, <1>17 DEF DropSignaling, LoseSession, ChangeMembers, GracePasses, sessionVars
<1>18. CASE UNCHANGED vars
  BY <1>2, <1>18 DEF vars, sessionVars
<1> QED
  BY <1>3, <1>4, <1>5, <1>6, <1>7, <1>8, <1>9, <1>10, <1>11, <1>12, <1>13, <1>14, <1>15, <1>16,
     <1>17, <1>18 DEF Next, Calls, SessionLoop, Tickers, Work, Environment

\* Every behavior of the Broadcaster, seen through phase and announcer, is one of
\* the service its supervisor relies on.
THEOREM ServiceIsImplemented == Spec => ImplementsService
<1>1. Init => Service!Init
  BY DEF Init, Service!Init, phase
<1>2. IInv /\ [Next]_vars => [Service!Next]_<<phase, announcer>>
  BY ServiceStep
<1> QED
  BY <1>1, <1>2, Invariance, PTL DEF Spec, ImplementsService, Service!Spec

\* No session and no connection is ever forgotten while it is open at Xbox.
THEOREM NothingLeaks == Spec => []NothingIsLeaked
<1>1. Spec => [](NoLeakedSession /\ NoLeakedSignaling)
  BY SessionsAreRemembered, SignalingIsClosed, PTL
<1>2. NoLeakedSession /\ NoLeakedSignaling => NothingIsLeaked
  BY DEF NothingIsLeaked
<1> QED
  BY <1>1, <1>2, PTL

\* Whatever is advertised is relayed, and outside a recovery a session is.
THEOREM AdvertisedServes == Spec => []AdvertisedIsServed
<1>1. Spec => [](AdvertisedIsRelayed /\ ServesUnlessRecovering)
  BY SessionsAreRelayed, RunningServes, PTL
<1>2. AdvertisedIsRelayed /\ ServesUnlessRecovering => AdvertisedIsServed
  BY DEF AdvertisedIsServed
<1> QED
  BY <1>1, <1>2, PTL

\* A stop, and the failure of a recovery, leave nothing up and are never undone.
THEOREM EndsAreFinal == Spec => []EndIsFinal
<1>1. Spec => [](StoppedIsReleased /\ FailureIsFinal)
  BY StopReleases, FailureReleases, PTL
<1>2. StoppedIsReleased /\ FailureIsFinal => EndIsFinal
  BY DEF EndIsFinal
<1> QED
  BY <1>1, <1>2, PTL

-----------------------------------------------------------------------------
(* The activity check.  SessionLifecycle has it as an issue that may come up    *)
(* whenever the loop selects; ActivityHealth is the check itself, with its      *)
(* counts and times.  What it promises does not depend on the sessions, so that *)
(* it is proved of an instance with variables of its own.                       *)
CONSTANTS Publications, NoPublication, Grace, Cooldown, Limit, Freshness, Tolerance

VARIABLES
  published, ticked, observed, checkIn, recoverIn, misses, step, asked, answer, current,
  checkIssue, advertised, checked, attempted, settled, recovered, streak, found

Activity == INSTANCE ActivityHealth WITH issue <- checkIssue

checkVars ==
  <<published, ticked, observed, checkIn, recoverIn, misses, step, asked, answer, current,
    checkIssue, advertised, checked, attempted, settled, recovered, streak, found>>

\* The bookkeeping about a publication that is still the current one: its misses have
\* happened, and it had its grace period, or will have had it when checkIn is over.
ObservedInv ==
  /\ observed = published /\ published # NoPublication =>
       /\ misses < Limit /\ (step # "concluding" => misses <= streak)
       /\ settled + checkIn >= Grace
  /\ recovered + recoverIn >= Cooldown

\* What an issue says of its publication, as long as that is the current one.
IssueInv ==
  /\ checkIssue # NoPublication => step = "idle" /\ recoverIn = Cooldown
  /\ checkIssue # NoPublication /\ checkIssue = published => streak = Limit

\* What a check knows.
CheckInv ==
  /\ step # "idle" => asked = observed /\ asked # NoPublication /\ misses < Limit
  /\ step = "concluding" /\ asked = published =>
       current /\ (answer = "missing" => Activity!MissesAfter <= streak)
  /\ step = "concluding" /\ current /\ answer = "found" => found = 0

\* Where the gauge comes from.
GaugeInv == advertised /\ checked <= Tolerance => found <= checked

CheckIInv == Activity!TypeOK /\ ObservedInv /\ IssueInv /\ CheckInv /\ GaugeInv

\* The steps of a check and of its surroundings, one by one.
LEMMA CheckSteps ==
  ASSUME [Activity!Next]_checkVars
  PROVE
    \/ Activity!Tick
    \/ \E p \in Publications : Activity!Republish(p)
    \/ \E p \in Publications : Activity!Recovered(p)
    \/ Activity!BeginCheck
    \/ \E a \in Activity!Answers : Activity!Answered(a)
    \/ Activity!Conclude
    \/ Activity!Recover
    \/ Activity!DropIssue
    \/ Activity!RecoverOther
    \/ UNCHANGED checkVars
  BY DEF Activity!Next, Activity!Check, Activity!vars, checkVars

\* What is recorded about a check: nothing, an attempt, or an answer, which shows the
\* session only if the directory found it.
LEMMA RecordedIs ==
  ASSUME Activity!RecordHealth
  PROVE  \/ UNCHANGED Activity!gauge
         \/ attempted' = 0 /\ UNCHANGED <<advertised, checked>>
         \/ /\ attempted' = 0 /\ checked' = 0 /\ current
            /\ advertised' \in BOOLEAN /\ (advertised' => answer = "found")
<1>1. CASE ~current
  BY <1>1 DEF Activity!RecordHealth
<1>2. CASE current
  <2> DEFINE answered == answer = "found" \/ (answer = "missing" /\ ~Activity!Settling)
             isFound == answer = "found"
  <2>1. Activity!Checked(answered, isFound)
    BY <1>2 DEF Activity!RecordHealth
  <2>2. isFound \in BOOLEAN /\ (isFound => answer = "found")
    OBVIOUS
  <2> HIDE DEF answered, isFound
  <2>3. CASE answered
    <3>1. advertised' = isFound /\ checked' = 0 /\ attempted' = 0
      BY <2>1, <2>3 DEF Activity!Checked
    <3> QED
      BY <3>1, <2>2, <1>2, Zenon
  <2>4. CASE ~answered
    BY <2>1, <2>4 DEF Activity!Checked
  <2> QED
    BY <2>3, <2>4
<1> QED
  BY <1>1, <1>2

\* Steps of a check keep the types: counts and times stay within their bounds.
LEMMA CheckTypeStep ==
  Activity!ActivityConstants /\ CheckIInv /\ [Activity!Next]_checkVars => Activity!TypeOK'
<1> SUFFICES ASSUME Activity!ActivityConstants, CheckIInv, [Activity!Next]_checkVars
             PROVE  Activity!TypeOK'
  OBVIOUS
<1> USE DEF Activity!state, Activity!check, Activity!gauge, Activity!past,
            Activity!Publish, Activity!Fresh
<1>i. /\ Activity!TypeOK /\ ObservedInv /\ CheckInv
      /\ NoPublication \notin Publications /\ Grace \in Nat /\ Cooldown \in Nat
      /\ Freshness \in Nat /\ Tolerance \in Nat /\ Limit \in Nat \ {0}
  BY DEF CheckIInv, Activity!ActivityConstants
<1>1. ASSUME Activity!Tick PROVE Activity!TypeOK'
  BY <1>i, <1>1 DEF Activity!Tick, Activity!TypeOK, Activity!Older, Activity!Nearer
<1>2. ASSUME NEW p \in Publications, Activity!Republish(p) PROVE Activity!TypeOK'
  BY <1>i, <1>2 DEF Activity!Republish, Activity!TypeOK
<1>3. ASSUME NEW p \in Publications, Activity!Recovered(p) PROVE Activity!TypeOK'
  BY <1>i, <1>3 DEF Activity!Recovered, Activity!TypeOK
<1>4. ASSUME Activity!BeginCheck PROVE Activity!TypeOK'
  <2>1. CASE published = NoPublication
    BY <1>i, <1>4, <2>1 DEF Activity!BeginCheck, Activity!TypeOK
  <2>2. CASE published # NoPublication /\ observed # published
    <3>1. /\ ticked' = FALSE /\ step' = "asking" /\ asked' = published /\ observed' = published
          /\ misses' = 0 /\ checkIn' = Grace
          /\ UNCHANGED <<published, recoverIn, answer, current, checkIssue, Activity!gauge,
                         Activity!past>>
      BY <1>4, <2>2 DEF Activity!BeginCheck
    <3>2. checkIn' \in 0 .. Grace /\ misses' \in 0 .. Limit
      BY <1>i, <3>1
    <3>3. recoverIn' \in 0 .. Cooldown /\ answer' \in Activity!Answers /\ current' \in BOOLEAN
      BY <1>i, <3>1 DEF Activity!TypeOK
    <3> QED
      BY <1>i, <3>1, <3>2, <3>3 DEF Activity!TypeOK
  <2>3. CASE published # NoPublication /\ observed = published
    BY <1>i, <1>4, <2>3 DEF Activity!BeginCheck, Activity!TypeOK
  <2> QED
    BY <2>1, <2>2, <2>3
<1>5. ASSUME NEW a \in Activity!Answers, Activity!Answered(a) PROVE Activity!TypeOK'
  BY <1>i, <1>5 DEF Activity!Answered, Activity!TypeOK, Activity!Streak,
       Activity!StillCurrent, Activity!Answers
<1>6. ASSUME Activity!Conclude PROVE Activity!TypeOK'
  <2>1. /\ advertised' \in BOOLEAN /\ checked' \in 0 .. Tolerance + 1
        /\ attempted' \in 0 .. Freshness + 1
    <3>1. Activity!RecordHealth
      BY <1>6 DEF Activity!Conclude
    <3> QED
      BY <1>i, <3>1, RecordedIs DEF Activity!TypeOK
  <2>2. misses' \in 0 .. Limit /\ recoverIn' \in 0 .. Cooldown
    <3>1. Activity!MissesAfter \in 0 .. Limit
      BY <1>i, <1>6 DEF Activity!Conclude, CheckInv, Activity!MissesAfter, Activity!TypeOK
    <3> QED
      BY <1>i, <1>6, <3>1 DEF Activity!Conclude, Activity!TypeOK
  <2>3. checkIssue' \in Publications \cup {NoPublication}
    BY <1>i, <1>6 DEF Activity!Conclude, Activity!TypeOK
  <2>4. /\ step' = "idle" /\ asked' = NoPublication /\ answer' = "error" /\ current' = FALSE
        /\ UNCHANGED <<published, ticked, observed, checkIn, Activity!past>>
    BY <1>6 DEF Activity!Conclude
  <2> QED
    BY <1>i, <2>1, <2>2, <2>3, <2>4 DEF Activity!TypeOK, Activity!Answers
<1>7. ASSUME Activity!Recover PROVE Activity!TypeOK'
  BY <1>i, <1>7 DEF Activity!Recover, Activity!TypeOK
<1>8. ASSUME Activity!DropIssue PROVE Activity!TypeOK'
  BY <1>i, <1>8 DEF Activity!DropIssue, Activity!TypeOK
<1>9. ASSUME Activity!RecoverOther PROVE Activity!TypeOK'
  BY <1>i, <1>9 DEF Activity!RecoverOther, Activity!TypeOK
<1>10. CASE UNCHANGED checkVars
  BY <1>i, <1>10 DEF checkVars, Activity!state, Activity!check, Activity!gauge,
       Activity!past, Activity!TypeOK
<1> QED
  BY CheckSteps, <1>1, <1>2, <1>3, <1>4, <1>5, <1>6, <1>7, <1>8, <1>9, <1>10

\* The bookkeeping stays about the publication it was begun for.
LEMMA ObservedStep ==
  Activity!ActivityConstants /\ CheckIInv /\ [Activity!Next]_checkVars => ObservedInv'
<1> SUFFICES ASSUME Activity!ActivityConstants, CheckIInv, [Activity!Next]_checkVars
             PROVE  ObservedInv'
  OBVIOUS
<1> USE DEF Activity!state, Activity!check, Activity!gauge, Activity!past,
            Activity!Publish, Activity!Fresh
<1>i. /\ Activity!TypeOK /\ ObservedInv /\ IssueInv /\ CheckInv
      /\ NoPublication \notin Publications /\ Grace \in Nat /\ Cooldown \in Nat
      /\ Limit \in Nat \ {0}
  BY DEF CheckIInv, Activity!ActivityConstants
<1>1. ASSUME Activity!Tick PROVE ObservedInv'
  BY <1>i, <1>1 DEF Activity!Tick, ObservedInv, Activity!Older, Activity!Nearer,
       Activity!TypeOK
<1>2. ASSUME NEW p \in Publications, Activity!Republish(p) PROVE ObservedInv'
  BY <1>i, <1>2 DEF Activity!Republish, ObservedInv
<1>3. ASSUME NEW p \in Publications, Activity!Recovered(p) PROVE ObservedInv'
  BY <1>i, <1>3 DEF Activity!Recovered, ObservedInv
<1>4. ASSUME Activity!BeginCheck PROVE ObservedInv'
  BY <1>i, <1>4 DEF Activity!BeginCheck, ObservedInv, Activity!TypeOK
<1>5. ASSUME NEW a \in Activity!Answers, Activity!Answered(a) PROVE ObservedInv'
  BY <1>i, <1>5 DEF Activity!Answered, ObservedInv, Activity!TypeOK
<1>6. ASSUME Activity!Conclude PROVE ObservedInv'
  BY <1>i, <1>6 DEF Activity!Conclude, ObservedInv, Activity!RecordHealth,
       Activity!Checked, Activity!MissesAfter, CheckInv, Activity!TypeOK
<1>7. ASSUME Activity!Recover PROVE ObservedInv'
  BY <1>i, <1>7 DEF Activity!Recover, ObservedInv, IssueInv, Activity!TypeOK
<1>8. ASSUME Activity!DropIssue PROVE ObservedInv'
  BY <1>i, <1>8 DEF Activity!DropIssue, ObservedInv
<1>9. ASSUME Activity!RecoverOther PROVE ObservedInv'
  BY <1>i, <1>9 DEF Activity!RecoverOther, ObservedInv, Activity!TypeOK
<1>10. CASE UNCHANGED checkVars
  BY <1>i, <1>10 DEF checkVars, Activity!state, Activity!check, Activity!gauge,
       Activity!past, ObservedInv
<1> QED
  BY CheckSteps, <1>1, <1>2, <1>3, <1>4, <1>5, <1>6, <1>7, <1>8, <1>9, <1>10

\* An issue is raised by the last of enough misses, and nothing else changes it.
LEMMA IssueStep ==
  Activity!ActivityConstants /\ CheckIInv /\ [Activity!Next]_checkVars => IssueInv'
<1> SUFFICES ASSUME Activity!ActivityConstants, CheckIInv, [Activity!Next]_checkVars
             PROVE  IssueInv'
  OBVIOUS
<1> USE DEF Activity!state, Activity!check, Activity!gauge, Activity!past,
            Activity!Publish, Activity!Fresh
<1>i. /\ Activity!TypeOK /\ ObservedInv /\ IssueInv /\ CheckInv
      /\ NoPublication \notin Publications /\ Grace \in Nat /\ Cooldown \in Nat
      /\ Limit \in Nat \ {0}
  BY DEF CheckIInv, Activity!ActivityConstants
<1>1. ASSUME Activity!Tick PROVE IssueInv'
  BY <1>i, <1>1 DEF Activity!Tick, IssueInv
<1>2. ASSUME NEW p \in Publications, Activity!Republish(p) PROVE IssueInv'
  BY <1>i, <1>2 DEF Activity!Republish, IssueInv
<1>3. ASSUME NEW p \in Publications, Activity!Recovered(p) PROVE IssueInv'
  BY <1>i, <1>3 DEF Activity!Recovered, IssueInv
<1>4. ASSUME Activity!BeginCheck PROVE IssueInv'
  BY <1>i, <1>4 DEF Activity!BeginCheck, IssueInv, Activity!TypeOK
<1>5. ASSUME NEW a \in Activity!Answers, Activity!Answered(a) PROVE IssueInv'
  BY <1>i, <1>5 DEF Activity!Answered, IssueInv, Activity!TypeOK
<1>6. ASSUME Activity!Conclude PROVE IssueInv'
  BY <1>i, <1>6 DEF Activity!Conclude, IssueInv, Activity!RecordHealth, Activity!Checked,
       Activity!MissesAfter, CheckInv, Activity!TypeOK
<1>7. ASSUME Activity!Recover PROVE IssueInv'
  BY <1>i, <1>7 DEF Activity!Recover, IssueInv
<1>8. ASSUME Activity!DropIssue PROVE IssueInv'
  BY <1>i, <1>8 DEF Activity!DropIssue, IssueInv
<1>9. ASSUME Activity!RecoverOther PROVE IssueInv'
  BY <1>i, <1>9 DEF Activity!RecoverOther, IssueInv
<1>10. CASE UNCHANGED checkVars
  BY <1>i, <1>10 DEF checkVars, Activity!state, Activity!check, Activity!gauge,
       Activity!past, IssueInv
<1> QED
  BY CheckSteps, <1>1, <1>2, <1>3, <1>4, <1>5, <1>6, <1>7, <1>8, <1>9, <1>10

\* What a check knows stays true until it concludes.
LEMMA CheckStep ==
  Activity!ActivityConstants /\ CheckIInv /\ [Activity!Next]_checkVars => CheckInv'
<1> SUFFICES ASSUME Activity!ActivityConstants, CheckIInv, [Activity!Next]_checkVars
             PROVE  CheckInv'
  OBVIOUS
<1> USE DEF Activity!state, Activity!check, Activity!gauge, Activity!past,
            Activity!Publish, Activity!Fresh
<1>i. /\ Activity!TypeOK /\ ObservedInv /\ IssueInv /\ CheckInv
      /\ NoPublication \notin Publications /\ Grace \in Nat /\ Cooldown \in Nat
      /\ Limit \in Nat \ {0}
  BY DEF CheckIInv, Activity!ActivityConstants
<1>1. ASSUME Activity!Tick PROVE CheckInv'
  BY <1>i, <1>1 DEF Activity!Tick, CheckInv
<1>2. ASSUME NEW p \in Publications, Activity!Republish(p) PROVE CheckInv'
  BY <1>i, <1>2 DEF Activity!Republish, CheckInv, Activity!MissesAfter, Activity!Settling
<1>3. ASSUME NEW p \in Publications, Activity!Recovered(p) PROVE CheckInv'
  BY <1>i, <1>3 DEF Activity!Recovered, CheckInv, Activity!MissesAfter, Activity!Settling
<1>4. ASSUME Activity!BeginCheck PROVE CheckInv'
  BY <1>i, <1>4 DEF Activity!BeginCheck, CheckInv, ObservedInv, Activity!TypeOK
<1>5. ASSUME NEW a \in Activity!Answers, Activity!Answered(a) PROVE CheckInv'
  <2>1. /\ step = "asking" /\ step' = "concluding" /\ answer' = a
        /\ current' = (asked = published)
        /\ UNCHANGED <<published, checkIn, recoverIn, misses, observed, asked, settled,
                       recovered>>
    BY <1>5 DEF Activity!Answered, Activity!StillCurrent
  <2>2. asked = observed /\ asked # NoPublication /\ misses < Limit
    BY <1>i, <2>1 DEF CheckInv
  <2>3. CASE asked # published
    BY <2>1, <2>2, <2>3 DEF CheckInv
  <2>4. CASE asked = published
    <3>1. streak' = Activity!Streak(a) /\ (a = "found" => found' = 0)
      BY <1>5, <2>4 DEF Activity!Answered
    <3>2. a = "missing" => Activity!MissesAfter' <= streak'
      <4> SUFFICES ASSUME a = "missing" PROVE Activity!MissesAfter' <= streak'
        OBVIOUS
      <4>1. misses <= streak /\ settled + checkIn >= Grace /\ recovered + recoverIn >= Cooldown
        BY <1>i, <2>1, <2>2, <2>4 DEF ObservedInv
      <4>2. Activity!MissesAfter' = IF checkIn > 0 \/ recoverIn > 0 THEN misses ELSE misses + 1
        BY <2>1 DEF Activity!MissesAfter, Activity!Settling
      <4> QED
        BY <1>i, <2>2, <3>1, <4>1, <4>2 DEF Activity!TypeOK, Activity!Streak
    <3> QED
      BY <2>1, <2>2, <2>4, <3>1, <3>2 DEF CheckInv
  <2> QED
    BY <2>3, <2>4
<1>6. ASSUME Activity!Conclude PROVE CheckInv'
  BY <1>i, <1>6 DEF Activity!Conclude, CheckInv
<1>7. ASSUME Activity!Recover PROVE CheckInv'
  BY <1>i, <1>7 DEF Activity!Recover, CheckInv, Activity!MissesAfter, Activity!Settling
<1>8. ASSUME Activity!DropIssue PROVE CheckInv'
  BY <1>i, <1>8 DEF Activity!DropIssue, CheckInv, Activity!MissesAfter, Activity!Settling
<1>9. ASSUME Activity!RecoverOther PROVE CheckInv'
  BY <1>i, <1>9 DEF Activity!RecoverOther, CheckInv, Activity!MissesAfter, Activity!Settling
<1>10. CASE UNCHANGED checkVars
  BY <1>i, <1>10 DEF checkVars, Activity!state, Activity!check, Activity!gauge,
       Activity!past, CheckInv, Activity!MissesAfter, Activity!Settling
<1> QED
  BY CheckSteps, <1>1, <1>2, <1>3, <1>4, <1>5, <1>6, <1>7, <1>8, <1>9, <1>10

\* The gauge goes up by an answer of now, and ages with it.
LEMMA GaugeStep ==
  Activity!ActivityConstants /\ CheckIInv /\ [Activity!Next]_checkVars => GaugeInv'
<1> SUFFICES ASSUME Activity!ActivityConstants, CheckIInv, [Activity!Next]_checkVars
             PROVE  GaugeInv'
  OBVIOUS
<1> USE DEF Activity!state, Activity!check, Activity!gauge, Activity!past,
            Activity!Publish, Activity!Fresh
<1>i. /\ Activity!TypeOK /\ GaugeInv /\ CheckInv /\ Tolerance \in Nat
  BY DEF CheckIInv, Activity!ActivityConstants
<1>1. ASSUME Activity!Tick PROVE GaugeInv'
  BY <1>i, <1>1 DEF Activity!Tick, GaugeInv, Activity!Older, Activity!TypeOK
<1>2. ASSUME NEW p \in Publications, Activity!Republish(p) PROVE GaugeInv'
  BY <1>i, <1>2 DEF Activity!Republish, GaugeInv
<1>3. ASSUME NEW p \in Publications, Activity!Recovered(p) PROVE GaugeInv'
  BY <1>i, <1>3 DEF Activity!Recovered, GaugeInv
<1>4. ASSUME Activity!BeginCheck PROVE GaugeInv'
  BY <1>i, <1>4 DEF Activity!BeginCheck, GaugeInv
<1>5. ASSUME NEW a \in Activity!Answers, Activity!Answered(a) PROVE GaugeInv'
  BY <1>i, <1>5 DEF Activity!Answered, GaugeInv, Activity!TypeOK
<1>6. ASSUME Activity!Conclude PROVE GaugeInv'
  <2>1. Activity!RecordHealth /\ step = "concluding" /\ UNCHANGED found
    BY <1>6 DEF Activity!Conclude
  <2>2. current /\ answer = "found" => found = 0
    BY <1>i, <2>1 DEF CheckInv
  <2>3. CASE UNCHANGED <<advertised, checked>>
    BY <1>i, <2>1, <2>3 DEF GaugeInv
  <2>4. CASE checked' = 0 /\ current /\ (advertised' => answer = "found")
    BY <2>1, <2>2, <2>4 DEF GaugeInv
  <2> QED
    BY <2>1, <2>3, <2>4, RecordedIs
<1>7. ASSUME Activity!Recover PROVE GaugeInv'
  BY <1>i, <1>7 DEF Activity!Recover, GaugeInv
<1>8. ASSUME Activity!DropIssue PROVE GaugeInv'
  BY <1>i, <1>8 DEF Activity!DropIssue, GaugeInv
<1>9. ASSUME Activity!RecoverOther PROVE GaugeInv'
  BY <1>i, <1>9 DEF Activity!RecoverOther, GaugeInv
<1>10. CASE UNCHANGED checkVars
  BY <1>i, <1>10 DEF checkVars, Activity!state, Activity!check, Activity!gauge,
       Activity!past, GaugeInv
<1> QED
  BY CheckSteps, <1>1, <1>2, <1>3, <1>4, <1>5, <1>6, <1>7, <1>8, <1>9, <1>10

-----------------------------------------------------------------------------
\* The parts hold at first, and every step keeps them.
THEOREM CheckInductive == Activity!ActivityConstants => (Activity!Spec => []CheckIInv)
<1> SUFFICES ASSUME Activity!ActivityConstants PROVE Activity!Spec => []CheckIInv
  OBVIOUS
<1>1. Activity!Init => CheckIInv
  <2> SUFFICES ASSUME Activity!Init PROVE CheckIInv
    OBVIOUS
  <2>1. Activity!TypeOK
    <3>1. ticked \in BOOLEAN /\ current \in BOOLEAN /\ advertised \in BOOLEAN
      BY DEF Activity!Init
    <3>2. /\ checkIn \in 0 .. Grace /\ recoverIn \in 0 .. Cooldown /\ misses \in 0 .. Limit
          /\ checked \in 0 .. Tolerance + 1 /\ attempted \in 0 .. Freshness + 1
          /\ settled \in 0 .. Grace /\ recovered \in 0 .. Cooldown
          /\ streak \in 0 .. Limit /\ found \in 0 .. Tolerance + 1
      BY DEF Activity!Init, Activity!ActivityConstants
    <3> QED
      BY <3>1, <3>2 DEF Activity!Init, Activity!TypeOK, Activity!Answers
  <2>2. ObservedInv /\ IssueInv /\ GaugeInv
    BY DEF Activity!Init, ObservedInv, IssueInv, GaugeInv, Activity!ActivityConstants
  <2>3. CheckInv
    BY DEF Activity!Init, CheckInv
  <2> QED
    BY <2>1, <2>2, <2>3 DEF CheckIInv
<1>2. CheckIInv /\ [Activity!Next]_checkVars => CheckIInv'
  BY CheckTypeStep, ObservedStep, IssueStep, CheckStep, GaugeStep DEF CheckIInv
<1> QED
  BY <1>1, <1>2, PTL DEF Activity!Spec, Activity!vars, checkVars

\* For any publications, times and limits, a session is only replaced after Limit
\* confirmed misses of itself in a row, each past its grace period and the cooldown,
\* and the gauge rests on an answer no older than the tolerance
\* (session_activity.go:120, health.go:39).
THEOREM ChecksConclude ==
  Activity!ActivityConstants => (Activity!Spec => Activity!ChecksAreSound)
<1> SUFFICES ASSUME Activity!ActivityConstants
             PROVE  Activity!Spec => Activity!ChecksAreSound
  OBVIOUS
<1>1. CheckIInv => (Activity!Recover => streak = Limit)
  BY DEF CheckIInv, IssueInv, Activity!Recover
<1>2. CheckIInv => Activity!AdvertisedIsRecent
  BY DEF CheckIInv, GaugeInv, Activity!TypeOK, Activity!AdvertisedIsRecent,
       Activity!AdvertisedAt, Activity!ActivityConstants
<1> QED
  BY <1>1, <1>2, CheckInductive, PTL DEF Activity!ChecksAreSound,
       Activity!RecoveriesAreDeserved,
     Activity!vars, checkVars
=============================================================================
