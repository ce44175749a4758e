-------------------------- MODULE SessionLifecycle --------------------------
(***************************************************************************)
(* The Broadcaster of broadcaster.go and session_recovery.go: Start,       *)
(* Update and Close called from outside, the session loop that refreshes,  *)
(* rotates and re-creates the Xbox session, and one goroutine per retired  *)
(* session that hides it.                                                  *)
(*                                                                         *)
(* Everything between b.mu.Lock and b.mu.Unlock is one action; the loop    *)
(* has a program counter for the points where it holds no lock, and there  *)
(* every other actor may run.  Xbox, the signaling connection and the      *)
(* clock are the environment: requests fail, connections drop, players     *)
(* come and go, a grace period ends, all at any time.                      *)
(***************************************************************************)
EXTENDS Naturals

CONSTANTS
  Sessions,         \* announcers; one is used again once nothing refers to it
  Signalings,       \* signaling connections; likewise
  NoSession,        \* a nil announcer
  NoSignaling,      \* a nil signaling connection
  ConfSignaling,    \* conf.Signaling: a member of Signalings, or NoSignaling
  HideOldSessions,  \* conf.HideOldSessions
  RotateMembers,    \* sessionRotateMembers: the member count that asks for rotation
  MemberCap,        \* sessionMemberCap: the members Xbox admits
  Attempts,         \* sessionRecoveryAttempts
  FailureLimit      \* sessionUpdateFailureLimit

ASSUME ConstantsAssumption ==
  /\ NoSession \notin Sessions
  /\ NoSignaling \notin Signalings
  /\ ConfSignaling \in Signalings \cup {NoSignaling}
  /\ HideOldSessions \in BOOLEAN
  /\ RotateMembers \in Nat /\ MemberCap \in Nat
  /\ 1 < RotateMembers /\ RotateMembers <= MemberCap
  /\ Attempts \in Nat \ {0}
  /\ FailureLimit \in Nat \ {0}

VARIABLES
  started, recovering, failure,  \* the Broadcaster's fields of these names
  cancelled,    \* b.ctx is done
  announcer,    \* b.announcer
  retired,      \* b.retiredSessions
  stale,        \* b.staleAnnouncers: sessions whose close failed
  signaling,    \* b.signaling
  sessionConnection, \* b.sessionConnection: the connection new sessions advertise
  relay,        \* the connection b.relay listens on, NoSignaling if b.relay is nil
  healthCheck,  \* the one-place channel b.healthCheck holds a request
  hiders,       \* retired sessions whose hiding goroutine still runs
  pc,           \* where the session loop is, "off" when it does not run
  issue,        \* the loop's sessionHealthIssue
  probed,       \* issue.activity, NoSession once its publication was replaced
  attempt,      \* n of retryWithBackoff
  failures,     \* consecutiveFailures
  session,      \* the sessions as Xbox has them
  link          \* the signaling connections as their context shows them

controlVars == <<started, recovering, failure, cancelled>>
sessionVars == <<announcer, retired, stale, session>>
signalVars  == <<signaling, sessionConnection, relay, link>>
loopVars    == <<pc, issue, probed, attempt, failures>>
workerVars  == <<healthCheck, hiders>>
vars == <<controlVars, sessionVars, signalVars, loopVars, workerVars>>

\* A step of the loop that concerns nobody else.
Undisturbed == UNCHANGED <<controlVars, sessionVars, signalVars, workerVars>>

canRecreateSignaling == ConfSignaling = NoSignaling

-----------------------------------------------------------------------------
(* The sessions at Xbox.  "none": the announcer has published nothing or    *)
(* its session is closed; "lost": the session's MPSD context has ended.     *)
(* conn is the signaling connection the session advertises to players.      *)

SessionState ==
  [state: {"none", "open", "lost"}, conn: Signalings \cup {NoSignaling},
   members: 1..MemberCap, aged: BOOLEAN, hidden: BOOLEAN]

Document(state, g) == [state |-> state, conn |-> g, members |-> 1,
                       aged |-> FALSE, hidden |-> FALSE]

Advertising(g) == Document("open", g)

Absent == Document("none", NoSignaling)

Published(s) == session[s].state # "none"

Current == {announcer} \ {NoSession}

\* Every session the Broadcaster still remembers.
Tracked == Current \cup retired \cup stale

\* Closing an announcer that has published nothing cannot fail.
Closable(S) == {s \in S : Published(s)}

Without(S) == [s \in Sessions |-> IF s \in S THEN Absent ELSE session[s]]

\* The announcers newAnnouncer may return when kept are still remembered.
Fresh(kept) == Sessions \ (kept \cup hiders)

Disconnected(g) == [h \in Signalings |-> IF h = g THEN "closed" ELSE link[h]]

\* What signalingFor may return: conf.Signaling, whatever its state, or a new one.
signalingFor(kept) ==
  IF canRecreateSignaling
  THEN {g \in Signalings \ {signaling} : \A s \in kept : session[s].conn # g}
  ELSE {ConfSignaling}

Connected(g) == IF canRecreateSignaling
                THEN [Disconnected(signaling) EXCEPT ![g] = "open"]
                ELSE link

Init ==
  /\ started = FALSE /\ recovering = FALSE /\ failure = FALSE /\ cancelled = FALSE
  /\ announcer = NoSession /\ retired = {} /\ stale = {}
  /\ session = [s \in Sessions |-> Absent]
  /\ signaling = NoSignaling /\ sessionConnection = NoSignaling /\ relay = NoSignaling
  /\ link = [g \in Signalings |-> IF g = ConfSignaling THEN "open" ELSE "closed"]
  /\ healthCheck = FALSE /\ hiders = {}
  /\ pc = "off" /\ issue = "none" /\ probed = NoSession
  /\ attempt = 0 /\ failures = 0

-----------------------------------------------------------------------------
(* Publishing and releasing.  failed are the sessions whose Close failed.   *)

\* Mutant: the connection new sessions advertise is not brought up to date.
publishOnOldConnection(kept, s, g) ==
  /\ announcer' = s /\ retired' = {} /\ stale' = kept
  /\ session' = [Without(Tracked \ kept) EXCEPT ![s] = Advertising(g)]
  /\ signaling' = g /\ relay' = g /\ UNCHANGED sessionConnection
  /\ link' = Connected(g)

\* publishOn after everything but the sessions in kept is gone.
publishOn(kept, s, g) ==
  /\ announcer' = s
  /\ retired' = {}
  /\ stale' = kept
  /\ session' = [Without(Tracked \ kept) EXCEPT ![s] = Advertising(g)]
  /\ signaling' = g /\ sessionConnection' = g /\ relay' = g
  /\ link' = Connected(g)

\* Mutant: a session whose close failed is forgotten.
releaseSessionsForgetting(failed, sig, advertised) ==
  /\ announcer' = NoSession /\ retired' = {} /\ stale' = {}
  /\ session' = Without(Tracked \ failed)
  /\ signaling' = NoSignaling /\ sessionConnection' = advertised /\ relay' = NoSignaling
  /\ link' = Disconnected(sig)

\* advertised is what is left in b.sessionConnection.
releaseSessions(failed, sig, advertised) ==
  /\ announcer' = NoSession
  /\ retired' = {}
  /\ stale' = failed
  /\ session' = Without(Tracked \ failed)
  /\ signaling' = NoSignaling /\ sessionConnection' = advertised /\ relay' = NoSignaling
  /\ link' = Disconnected(sig)

-----------------------------------------------------------------------------
(* Calls from outside.                                                      *)

\* Start is called again only after Close has returned: no goroutine is left.
StartCall == ~started /\ pc = "off" /\ hiders = {}

Start ==
  /\ StartCall
  /\ \E s \in Fresh(stale), g \in signalingFor(stale) : publishOn(stale, s, g)
  /\ started' = TRUE /\ cancelled' = FALSE /\ failure' = FALSE
  /\ pc' = "select"
  /\ UNCHANGED <<recovering, issue, probed, attempt, failures, workerVars>>

\* Whatever step of Start fails, what it had built is released.
StartFails ==
  /\ StartCall
  /\ \E failed \in SUBSET Closable(Tracked) : releaseSessions(failed, ConfSignaling, NoSignaling)
  /\ cancelled' = TRUE /\ failure' = FALSE
  /\ UNCHANGED <<started, recovering, loopVars, workerVars>>

Close ==
  /\ started
  /\ \E failed \in SUBSET Closable(Tracked) : releaseSessions(failed, signaling, NoSignaling)
  /\ started' = FALSE /\ cancelled' = TRUE
  /\ UNCHANGED <<recovering, failure, loopVars, workerVars>>

\* The publication an activity check found missing no longer exists once its
\* session was closed and published again.
Outdated(s) == probed' = IF probed = s THEN NoSession ELSE probed

\* Mutant: Update does not look at recovering.
ServingWhileRecovering == started /\ announcer # NoSession

\* What Update and the activity check need; otherwise they return at once.
Serving == started /\ ~recovering /\ announcer # NoSession

\* Announce changed the document in place, or had nothing to change; then the
\* sessions whose close failed before are closed again.
UpdateInPlace ==
  /\ Serving /\ Published(announcer)
  /\ \E failed \in SUBSET stale :
       /\ stale' = failed
       /\ session' = Without(stale \ failed)
  /\ UNCHANGED probed

\* Announce closed the session, if there was one, and published it anew.
UpdateRepublishes ==
  /\ Serving
  /\ \E failed \in SUBSET stale :
       /\ stale' = failed
       /\ session' = [Without(stale \ failed) EXCEPT ![announcer].state = "open",
                                                     ![announcer].members = 1]
  /\ Outdated(announcer)

\* Announce closed the session and could not publish it again.
UpdateUnpublishes ==
  /\ Serving /\ Published(announcer)
  /\ session' = [session EXCEPT ![announcer].state = "none", ![announcer].members = 1]
  /\ Outdated(announcer)
  /\ UNCHANGED stale

\* Update may not run, or Announce failed before it changed anything.
UpdateDoesNothing == UNCHANGED <<session, stale, probed>>

UpdateSucceeds == UpdateInPlace \/ UpdateRepublishes
UpdateFails    == UpdateUnpublishes \/ UpdateDoesNothing

Update ==
  /\ UpdateSucceeds \/ UpdateUnpublishes
  /\ UNCHANGED <<controlVars, announcer, retired, signalVars, pc, issue, attempt, failures>>
  /\ UNCHANGED workerVars

-----------------------------------------------------------------------------
(* The session loop.  It runs one of its select cases at a time.            *)

Goto(place, found) == pc' = place /\ issue' = found

Advance(place, found) == Goto(place, found) /\ UNCHANGED <<probed, attempt, failures>>

Stop == Goto("off", "none") /\ probed' = NoSession /\ attempt' = 0 /\ failures' = 0

\* consecutiveFailures is reset before the loop selects again.
Continue == Goto("select", "none") /\ probed' = NoSession /\ failures' = 0

LoopStop ==
  /\ pc = "select" /\ cancelled
  /\ Stop
  /\ Undisturbed

LostSignaling == signaling # NoSignaling /\ link[signaling] = "lost"

LoopSignalingDone ==
  /\ pc = "select" /\ canRecreateSignaling /\ LostSignaling
  /\ Advance("act", "broken")
  /\ Undisturbed

\* The activity check that completes a run of misses; the others change nothing here.
LoopActivity ==
  /\ pc = "select" /\ Serving
  /\ Goto("act", "activity") /\ probed' = announcer
  /\ UNCHANGED <<controlVars, sessionVars, signalVars, attempt, failures, workerVars>>

\* Mutant: the grace period is not waited for.
DrainedEarly ==
  {s \in retired : Published(s) /\ (session[s].state = "lost" \/ session[s].members <= 1)}

Drained ==
  {s \in retired : Published(s) /\ session[s].aged
                   /\ (session[s].state = "lost" \/ session[s].members <= 1)}

closeDrainedSessions ==
  \E failed \in SUBSET Drained :
    /\ retired' = retired \ (Drained \ failed)
    /\ session' = Without(Drained \ failed)

LoopTick ==
  /\ pc = "select"
  /\ closeDrainedSessions
  /\ Advance("ticked", issue)
  /\ UNCHANGED <<controlVars, announcer, stale, signalVars, workerVars>>

LoopWoken ==
  /\ pc = "select" /\ healthCheck
  /\ healthCheck' = FALSE
  /\ Advance("woken", issue)
  /\ UNCHANGED <<controlVars, sessionVars, signalVars, hiders>>

sessionHealthIssue ==
  IF announcer = NoSession \/ ~Published(announcer) THEN "none"
  ELSE IF session[announcer].state = "lost" THEN "broken"
  ELSE IF session[announcer].members >= RotateMembers THEN "full"
  ELSE "none"

\* After a wake-up a healthy session is left alone; after a tick it is refreshed.
LoopCheck ==
  /\ pc \in {"ticked", "woken"}
  /\ Advance(IF pc = "woken" /\ sessionHealthIssue = "none" THEN "select" ELSE "act",
             sessionHealthIssue)
  /\ Undisturbed

\* Mutant: the hiding goroutine is handed the new session.
RotateHidingNew ==
  /\ pc = "act" /\ issue = "full"
  /\ started /\ ~recovering
  /\ \E s \in Fresh(Tracked) :
       /\ announcer' = s
       /\ session' = [session EXCEPT ![s] = Advertising(sessionConnection)]
       /\ hiders' = hiders \cup {s}
  /\ retired' = retired \cup {announcer}
  /\ Continue
  /\ UNCHANGED <<controlVars, stale, signalVars, attempt, healthCheck>>

\* retire: the old session stays up, and a goroutine hides it later.
Rotate ==
  /\ pc = "act" /\ issue = "full"
  /\ started /\ ~recovering
  /\ \E s \in Fresh(Tracked) :
       /\ announcer' = s
       /\ session' = [session EXCEPT ![s] = Advertising(sessionConnection)]
  /\ retired' = retired \cup {announcer}
  /\ hiders' = IF HideOldSessions THEN hiders \cup {announcer} ELSE hiders
  /\ Continue
  /\ UNCHANGED <<controlVars, stale, signalVars, attempt, healthCheck>>

RotateFails ==
  /\ pc = "act" /\ issue = "full"
  /\ IF cancelled THEN Stop
     ELSE issue' = "broken" /\ UNCHANGED <<pc, probed, attempt, failures>>
  /\ Undisturbed

\* A missing activity cannot be restored on a configured connection, only reported.
ReportActivity ==
  /\ pc = "act" /\ issue = "activity" /\ ~canRecreateSignaling
  /\ Goto("select", "none") /\ probed' = NoSession
  /\ UNCHANGED <<controlVars, sessionVars, signalVars, attempt, failures, workerVars>>

RefreshCase == pc = "act" /\ (issue = "none" \/ (issue = "broken" /\ ~canRecreateSignaling))

Refresh ==
  /\ RefreshCase
  /\ UpdateSucceeds
  /\ Goto("select", "none") /\ failures' = 0
  /\ UNCHANGED <<controlVars, announcer, retired, signalVars, attempt, workerVars>>

\* With a configured connection recoverSession has nothing to do at the limit.
RefreshFails ==
  /\ RefreshCase
  /\ UpdateFails
  /\ \/ cancelled /\ Goto("off", "none") /\ failures' = 0
     \/ /\ ~cancelled /\ failures + 1 < FailureLimit
        /\ Goto("select", "none") /\ failures' = failures + 1
     \/ /\ ~cancelled /\ failures + 1 >= FailureLimit
        /\ IF canRecreateSignaling THEN Goto("act", "broken") ELSE Goto("select", "none")
        /\ failures' = 0
  /\ UNCHANGED <<controlVars, announcer, retired, signalVars, attempt, workerVars>>

-----------------------------------------------------------------------------
(* recoverSession, retryWithBackoff and recreateSession.                    *)

\* Mutant: recovery does not look at how signaling was configured.
RecoverCaseAlways == pc = "act" /\ issue \in {"broken", "activity"}

RecoverCase == pc = "act" /\ issue \in {"broken", "activity"} /\ canRecreateSignaling

activityCurrent == issue = "activity" => announcer # NoSession /\ probed = announcer

RecoverBegins ==
  /\ RecoverCase /\ ~cancelled /\ activityCurrent
  /\ recovering' = TRUE
  /\ pc' = "attempt" /\ attempt' = 0
  /\ UNCHANGED <<started, failure, cancelled, issue, probed, failures>>
  /\ UNCHANGED <<sessionVars, signalVars, workerVars>>

\* A cancelled loop stops; an issue about a replaced publication is dropped.
RecoverSkips ==
  /\ RecoverCase
  /\ \/ cancelled /\ Stop
     \/ ~cancelled /\ ~activityCurrent /\ Continue /\ UNCHANGED attempt
  /\ Undisturbed

\* Mutant: an attempt does not check that the Broadcaster still runs.
RecreateUnchecked ==
  /\ pc = "attempt"
  /\ \E failed \in SUBSET Closable(Tracked) :
       \E s \in Fresh(failed), g \in signalingFor(failed) : publishOn(failed, s, g)
  /\ Advance("rebuilt", issue)
  /\ UNCHANGED <<controlVars, workerVars>>

Recreate ==
  /\ pc = "attempt" /\ ~cancelled /\ started
  /\ \E failed \in SUBSET Closable(Tracked) :
       \E s \in Fresh(failed), g \in signalingFor(failed) : publishOn(failed, s, g)
  /\ Advance("rebuilt", issue)
  /\ UNCHANGED <<controlVars, workerVars>>

\* Dialing failed, the new connection was dead or the session was not published;
\* only then sessionConnection is left behind, naming a connection already closed.
RecreateFails ==
  /\ pc = "attempt" /\ ~cancelled /\ started
  /\ \E failed \in SUBSET Closable(Tracked) :
       \E advertised \in signalingFor(failed) \cup {NoSignaling} :
         releaseSessions(failed, signaling, advertised)
  /\ Advance(IF attempt = Attempts - 1 THEN "givenup" ELSE "backoff", issue)
  /\ UNCHANGED <<controlVars, workerVars>>

RetryCancelled ==
  /\ pc \in {"attempt", "backoff"} /\ cancelled
  /\ Advance("givenup", issue)
  /\ Undisturbed

\* Mutant: attempts are not counted.
BackoffEndsUncounted ==
  /\ pc = "backoff"
  /\ Advance("attempt", issue)
  /\ Undisturbed

BackoffEnds ==
  /\ pc = "backoff"
  /\ pc' = "attempt" /\ attempt' = attempt + 1
  /\ UNCHANGED <<controlVars, sessionVars, signalVars, issue, probed, failures, workerVars>>

RecoverEnds ==
  /\ pc = "rebuilt"
  /\ recovering' = FALSE
  /\ Continue /\ attempt' = 0
  /\ UNCHANGED <<started, failure, cancelled, sessionVars, signalVars, workerVars>>

\* Mutant: the context is left running after the last attempt.
RecoverGivesUpQuietly ==
  /\ pc = "givenup"
  /\ recovering' = FALSE /\ IF cancelled THEN UNCHANGED failure ELSE failure' = TRUE
  /\ Stop
  /\ UNCHANGED <<started, cancelled, sessionVars, signalVars, workerVars>>

\* Mutant: every recovery that ends without a session counts as failed.
RecoverGivesUpAlways ==
  /\ pc = "givenup"
  /\ recovering' = FALSE /\ failure' = TRUE /\ cancelled' = TRUE
  /\ Stop
  /\ UNCHANGED <<started, sessionVars, signalVars, workerVars>>

\* Exhausted attempts stop the Broadcaster for good; a cancellation is no failure.
RecoverGivesUp ==
  /\ pc = "givenup"
  /\ recovering' = FALSE
  /\ IF cancelled THEN UNCHANGED failure ELSE failure' = TRUE
  /\ cancelled' = TRUE
  /\ Stop
  /\ UNCHANGED <<started, sessionVars, signalVars, workerVars>>

-----------------------------------------------------------------------------
(* The goroutine of a retired session: it waits out the grace period, then  *)
(* makes the session invite-only.                                           *)

HiderDone(s) ==
  /\ s \in hiders
  /\ hiders' = hiders \ {s}
  /\ UNCHANGED <<controlVars, announcer, retired, stale, signalVars, loopVars, healthCheck>>

Hide(s) ==
  /\ HiderDone(s)
  /\ Published(s) /\ session[s].aged
  /\ session' = [session EXCEPT ![s].hidden = TRUE]

\* The context ended first, or the request failed: neither is tried again.
HideFails(s) ==
  /\ HiderDone(s)
  /\ cancelled \/ ~Published(s) \/ session[s].aged
  /\ UNCHANGED session

-----------------------------------------------------------------------------
(* The environment.                                                         *)

\* The context given to Start ends.
Cancel ==
  /\ started /\ ~cancelled
  /\ cancelled' = TRUE
  /\ UNCHANGED <<started, recovering, failure, sessionVars, signalVars, loopVars, workerVars>>

DropSignaling(g) ==
  /\ link[g] = "open"
  /\ link' = [link EXCEPT ![g] = "lost"]
  /\ UNCHANGED <<controlVars, sessionVars, signaling, sessionConnection, relay>>
  /\ UNCHANGED <<loopVars, workerVars>>

LoseSession(s) ==
  /\ session[s].state = "open"
  /\ session' = [session EXCEPT ![s].state = "lost"]
  /\ UNCHANGED <<controlVars, announcer, retired, stale, signalVars, loopVars, workerVars>>

\* Mutant: membersChanged asks for a check only past the threshold.
ChangeMembersPast(s) ==
  /\ session[s].state = "open"
  /\ \E count \in 1..MemberCap :
       /\ session' = [session EXCEPT ![s].members = count]
       /\ IF count > RotateMembers THEN healthCheck' = TRUE ELSE UNCHANGED healthCheck
  /\ UNCHANGED <<controlVars, announcer, retired, stale, signalVars, loopVars, hiders>>

\* Players join or leave, and the session's handler calls membersChanged.
ChangeMembers(s) ==
  /\ session[s].state = "open"
  /\ \E count \in 1..MemberCap :
       /\ session' = [session EXCEPT ![s].members = count]
       /\ IF count >= RotateMembers THEN healthCheck' = TRUE ELSE UNCHANGED healthCheck
  /\ UNCHANGED <<controlVars, announcer, retired, stale, signalVars, loopVars, hiders>>

\* sessionRotateGrace has passed since s was retired.
GracePasses(s) ==
  /\ s \in retired \cup hiders /\ Published(s) /\ ~session[s].aged
  /\ session' = [session EXCEPT ![s].aged = TRUE]
  /\ UNCHANGED <<controlVars, announcer, retired, stale, signalVars, loopVars, workerVars>>
-----------------------------------------------------------------------------

\* The select cases that wait for a ticker.
Tickers == LoopActivity \/ LoopTick

Work ==
  \/ LoopStop \/ LoopSignalingDone \/ LoopWoken \/ LoopCheck
  \/ Rotate \/ RotateFails \/ ReportActivity \/ Refresh \/ RefreshFails
  \/ RecoverBegins \/ RecoverSkips \/ Recreate \/ RecreateFails \/ RetryCancelled
  \/ BackoffEnds \/ RecoverEnds \/ RecoverGivesUp

SessionLoop == Tickers \/ Work

Calls == Start \/ StartFails \/ Close \/ Update

Environment ==
  \/ Cancel
  \/ \E g \in Signalings : DropSignaling(g)
  \/ \E s \in Sessions : LoseSession(s) \/ ChangeMembers(s) \/ GracePasses(s)

Next ==
  \/ Calls
  \/ SessionLoop
  \/ \E s \in Sessions : Hide(s) \/ HideFails(s)
  \/ Environment

\* The loop and the goroutines keep running: their requests have deadlines and
\* their timers fire.  The select statement picks among its ready cases at
\* random, so a case that stays ready is taken in the end.  Nothing is assumed of
\* the tickers, of the environment or of the outcome of a request: a wake-up alone
\* has to be enough.
Fairness ==
  /\ WF_vars(Work)
  /\ SF_vars(LoopStop) /\ SF_vars(LoopSignalingDone) /\ SF_vars(LoopWoken)
  /\ WF_vars(\E s \in Sessions : Hide(s) \/ HideFails(s))

Spec == Init /\ [][Next]_vars

FairSpec == Spec /\ Fairness

-----------------------------------------------------------------------------
(* Properties.                                                              *)

ControlOK ==
  /\ started \in BOOLEAN /\ recovering \in BOOLEAN /\ failure \in BOOLEAN
  /\ cancelled \in BOOLEAN /\ healthCheck \in BOOLEAN
  /\ hiders \subseteq Sessions

ServiceOK ==
  /\ announcer \in Sessions \cup {NoSession}
  /\ retired \subseteq Sessions /\ stale \subseteq Sessions
  /\ session \in [Sessions -> SessionState]
  /\ signaling \in Signalings \cup {NoSignaling}
  /\ sessionConnection \in Signalings \cup {NoSignaling}
  /\ relay \in Signalings \cup {NoSignaling}
  /\ link \in [Signalings -> {"open", "lost", "closed"}]

LoopOK ==
  /\ pc \in {"off", "select", "ticked", "woken", "act", "attempt", "backoff", "rebuilt", "givenup"}
  /\ issue \in {"none", "broken", "activity", "full"}
  /\ probed \in Sessions \cup {NoSession}
  /\ attempt \in 0..Attempts - 1
  /\ failures \in 0..FailureLimit - 1

\* The variables hold values of their types; in particular retryWithBackoff never
\* makes more than sessionRecoveryAttempts attempts, and consecutiveFailures never
\* reaches the limit at which the loop recovers.
TypeOK == ControlOK /\ ServiceOK /\ LoopOK

\* Every session still listed at Xbox is one the Broadcaster remembers, in exactly
\* one of its three roles, so a later Update or Close closes it: a failed close, a
\* rotation or a recovery never forgets a session players can see.
NoLeakedSession ==
  /\ \A s \in Sessions : Published(s) => s \in Tracked
  /\ announcer \notin retired \cup stale
  /\ retired \cap stale = {}

\* A signaling connection the Broadcaster dialed is closed unless it is the one in
\* use: neither a failed Start nor a failed recovery attempt leaves one open.
NoLeakedSignaling ==
  canRecreateSignaling => \A g \in Signalings : link[g] # "closed" => g = signaling

\* What the Broadcaster opened at Xbox it still knows: no published session and no
\* dialed connection is left with nobody to close it (broadcaster.go:438).
NothingIsLeaked == NoLeakedSession /\ NoLeakedSignaling

\* The current and the rotated-out sessions advertise the very connection the relay
\* listens on, so a player who picks any of them reaches a relay; what a rotation
\* publishes does not differ from what a recovery publishes.
AdvertisedIsRelayed ==
  \A s \in Current \cup retired :
    /\ relay # NoSignaling /\ relay = signaling
    /\ Published(s) => session[s].conn = relay

\* Once Close has run, or Start has failed, nothing is up but sessions whose close
\* failed, whatever the loop was in the middle of: a recovery that waited for the
\* lock does not bring the session back.
StoppedIsReleased ==
  ~started => /\ Current \cup retired = {}
              /\ signaling = NoSignaling /\ relay = NoSignaling

\* While the Broadcaster runs it has a current session on a relayed connection,
\* except during a recovery, when Update is turned away.
ServesUnlessRecovering ==
  started /\ ~cancelled /\ ~recovering => announcer # NoSession /\ relay # NoSignaling

\* What is advertised is served and, outside a recovery, something is: a player who
\* picks any session of the Broadcaster reaches its relay (session_recovery.go:275).
AdvertisedIsServed == AdvertisedIsRelayed /\ ServesUnlessRecovering

\* The failure Wait returns is final: the context has ended and no session is
\* current or retired, nor is there a relay left, before Close is even called.
FailureIsFinal ==
  failure => cancelled /\ Current \cup retired = {} /\ relay = NoSignaling

\* Neither a stop nor a recovery's failure is undone: whoever waited for the lock
\* meanwhile brings nothing back (session_recovery.go:353).
EndIsFinal == StoppedIsReleased /\ FailureIsFinal

\* A session in use by new players is never the one a hiding goroutine made
\* invite-only, even when its announcer was retired before a recovery.
CurrentIsVisible == \A s \in Current : ~session[s].hidden

\* Shutting down while a recovery is failing is not reported as a failed recovery.
CancellationIsNoFailure == [][cancelled /\ failure' => failure]_vars

phase ==
  IF ~started THEN "stopped"
  ELSE IF failure THEN "failed"
  ELSE IF cancelled THEN "ending"
  ELSE IF recovering THEN "repairing" ELSE "serving"

Service ==
  INSTANCE BroadcastService
    WITH Sessions <- Sessions, NoSession <- NoSession, current <- announcer, phase <- phase

\* Seen by its supervisor the Broadcaster is a BroadcastService: it fails only from
\* a recovery that left nothing on offer, a recovery ends with a session or a
\* failure, and outside of it there is a session at every moment.
ImplementsService == Service!Spec

\* Outside a recovery and Close, a rotated-out session stays open until its grace
\* period is over and the bot is alone in it: players mid-join or in game keep it.
RetiredKeptForPlayers ==
  [][\A s \in retired :
       session[s].state = "open" /\ session'[s].state = "none"
         => \/ recovering \/ ~started'
            \/ session[s].aged /\ session[s].members = 1]_vars

\* While a recovery is under way only its own attempts, and Close, publish or close
\* a session: Update and the loop's other work leave the rebuild alone.
RecoveryIsExclusive ==
  [][recovering /\ recovering' /\ pc' = pc /\ started'
       => \A s \in Sessions : Published(s)' = Published(s)]_vars

\* A configured connection is all the Broadcaster has: until Close it neither
\* replaces it nor takes its sessions down for a recovery, and it never fails for
\* want of one, however often the session is found broken.
StaticIsKept ==
  [][~canRecreateSignaling /\ started /\ started'
       => signaling' = signaling /\ ~recovering' /\ ~failure' /\ announcer' # NoSession]_vars

\* With signaling the Broadcaster can dial again, a relay that is down (its
\* connection lost, or a recovery attempt failed) comes up again or the Broadcaster
\* stops for its supervisor to restart it: it never keeps advertising a dead world.
Down == started /\ ~cancelled /\ (relay = NoSignaling \/ link[relay] = "lost")
Up == relay # NoSignaling /\ link[relay] = "open"
DownIsRepaired == canRecreateSignaling => (Down ~> (Up \/ cancelled))

\* A session that has reached the rotation threshold is replaced, by rotation or by
\* recovery, unless players leave: the one-place health-check channel is enough
\* even when a request for an older session is already waiting in it.
Full(s) == announcer = s /\ session[s].state = "open" /\ session[s].members >= RotateMembers
FullIsReplaced == canRecreateSignaling => \A s \in Sessions : Full(s) ~> (~Full(s) \/ cancelled)

\* After a stop every goroutine ends, so Close returns, and RecoverEnds or gives up.
StopEndsWorkers == cancelled ~> (pc = "off" /\ hiders = {})

\* A recovery ends within its attempts, whatever fails.
RecoveryEnds == recovering ~> ~recovering

\* Nothing the Broadcaster does goes on for ever: neither a recovery nor, after a
\* stop, its goroutines, so Wait and Close return (session_recovery.go:194).
WorkEnds == StopEndsWorkers /\ RecoveryEnds
=============================================================================
