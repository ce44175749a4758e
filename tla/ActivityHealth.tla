--------------------------- MODULE ActivityHealth ---------------------------
(* The activity check of the session loop: it asks the directory for the handle
   of the published session, counts consecutive misses, asks for a recovery after
   enough of them, and feeds the gauge that says whether the session is
   advertised. No lock is held while the directory is asked, so an Update may
   republish the session at any point of a check, and again between the check and
   the recovery it asks for.

   Time is counted in checks' intervals (minutes) as ages and countdowns; a check
   ends within the minute it begins in. *)
EXTENDS Naturals

CONSTANTS
  Publications,  \* identities of publications; one is reused once forgotten
  NoPublication,
  Grace,         \* activityGracePeriod
  Cooldown,      \* activityRecoveryCooldown
  Limit,         \* activityMissingLimit
  Freshness,     \* advertisedFreshness
  Tolerance      \* answerTolerance

ActivityConstants ==
  /\ NoPublication \notin Publications
  /\ Grace \in Nat /\ Cooldown \in Nat /\ Freshness \in Nat /\ Tolerance \in Nat
  /\ Limit \in Nat \ {0}

ASSUME ActivityAssumption == ActivityConstants

VARIABLES
  published,    \* the current publication; none while recovering
  ticked,       \* whether the ticker's channel holds a tick
  observed,     \* state.publication
  checkIn,      \* time until state.checkAfter
  recoverIn,    \* time until state.recoverAfter
  misses,       \* state.misses
  step,         \* the check: idle, asking, or concluding with its answer
  asked,        \* the publication the check is about
  answer,       \* found, missing or error
  current,      \* whether that publication was still current after the answer
  issue,        \* the publication to recover, if the check asked for it
  advertised,   \* healthState.advertised
  checked,      \* the age of healthState.checkedAt
  attempted,    \* the age of healthState.attemptedAt
  settled,      \* history: the age of the publication
  recovered,    \* history: the age of the last recovery a check asked for
  streak,       \* history: its confirmed misses since it was last seen
  found         \* history: the age of the last answer that showed a publication
                \* that was current

state == <<observed, checkIn, recoverIn, misses>>
check == <<step, asked, answer, current>>
gauge == <<advertised, checked, attempted>>
past == <<settled, recovered, streak, found>>
vars == <<published, ticked, observed, checkIn, recoverIn, misses, step, asked, answer,
          current, issue, advertised, checked, attempted, settled, recovered, streak, found>>

Init ==
  /\ published \in Publications
  /\ ticked = TRUE
  /\ observed = NoPublication /\ checkIn = 0 /\ recoverIn = 0 /\ misses = 0
  /\ step = "idle" /\ asked = NoPublication /\ answer = "error" /\ current = FALSE
  /\ issue = NoPublication
  /\ advertised = FALSE /\ checked = Tolerance + 1 /\ attempted = Freshness + 1
  /\ settled = 0 /\ recovered = Cooldown /\ streak = 0 /\ found = Tolerance + 1

Older(age, most) == IF age < most THEN age + 1 ELSE age
Nearer(time) == IF time > 0 THEN time - 1 ELSE 0

Tick ==
  /\ step = "idle" /\ issue = NoPublication
  /\ ticked' = TRUE
  /\ checkIn' = Nearer(checkIn) /\ recoverIn' = Nearer(recoverIn)
  /\ checked' = Older(checked, Tolerance + 1)
  /\ attempted' = Older(attempted, Freshness + 1)
  /\ found' = Older(found, Tolerance + 1)
  /\ settled' = Older(settled, Grace)
  /\ recovered' = Older(recovered, Cooldown)
  /\ UNCHANGED <<published, observed, misses, check, issue, advertised, streak>>

Fresh(p) == p \notin {published, observed, asked, issue}

Publish(p) ==
  /\ p \in Publications /\ Fresh(p)
  /\ published' = p
  /\ settled' = 0 /\ streak' = 0

\* Update, from outside the loop, or a rotation republishes the session.
Republish(p) ==
  /\ published # NoPublication /\ Publish(p)
  /\ UNCHANGED <<ticked, state, check, issue, gauge, recovered, found>>
-----------------------------------------------------------------------------
BeginCheckAnew ==  \* Mutant: each check takes its publication for a new one.
  /\ step = "idle" /\ ticked /\ issue = NoPublication
  /\ ticked' = FALSE
  /\ IF published = NoPublication
       THEN UNCHANGED <<state, check>>
       ELSE /\ step' = "asking" /\ asked' = published
            /\ observed' = published /\ misses' = 0 /\ checkIn' = Grace
            /\ UNCHANGED <<recoverIn, answer, current>>
  /\ UNCHANGED <<published, issue, gauge, past>>

\* A check begins: the publication is looked up, and a new one is given time.
BeginCheck ==
  /\ step = "idle" /\ ticked /\ issue = NoPublication
  /\ ticked' = FALSE
  /\ IF published = NoPublication
       THEN UNCHANGED <<state, check>>
       ELSE /\ step' = "asking" /\ asked' = published
            /\ IF observed # published
                 THEN /\ observed' = published /\ misses' = 0 /\ checkIn' = Grace
                      /\ UNCHANGED recoverIn
                 ELSE UNCHANGED state
            /\ UNCHANGED <<answer, current>>
  /\ UNCHANGED <<published, issue, gauge, past>>

\* The directory answers, and the publication is looked up again.
Answers == {"found", "missing", "error"}
StillCurrent == asked = published

\* History: misses count once the session had time to appear, and after the
\* cooldown; anything else starts anew.
Streak(a) ==
  IF a # "missing" THEN 0
  ELSE IF settled < Grace \/ recovered < Cooldown \/ streak = Limit THEN streak
  ELSE streak + 1

Answered(a) ==
  /\ step = "asking"
  /\ step' = "concluding" /\ answer' = a
  /\ current' = StillCurrent
  /\ IF asked = published
       THEN /\ streak' = Streak(a)
            /\ found' = IF a = "found" THEN 0 ELSE found
       ELSE UNCHANGED <<streak, found>>
  /\ UNCHANGED <<published, ticked, state, asked, issue, gauge, settled, recovered>>

Checked(answered, isFound) ==
  /\ attempted' = 0
  /\ IF answered THEN advertised' = isFound /\ checked' = 0
                 ELSE UNCHANGED <<advertised, checked>>

Settling == checkIn > 0

RecordHealth ==
  IF current
    THEN Checked(answer = "found" \/ (answer = "missing" /\ ~Settling), answer = "found")
    ELSE UNCHANGED gauge

\* The consecutive misses after this answer.
MissesAfter ==
  IF answer # "missing" THEN 0
  ELSE IF Settling \/ recoverIn > 0 THEN misses
  ELSE misses + 1

Conclude ==
  /\ step = "concluding"
  /\ RecordHealth
  /\ IF MissesAfter >= Limit /\ current
       THEN misses' = 0 /\ recoverIn' = Cooldown /\ issue' = asked
       ELSE misses' = MissesAfter /\ UNCHANGED <<recoverIn, issue>>
  /\ step' = "idle" /\ asked' = NoPublication /\ answer' = "error" /\ current' = FALSE
  /\ UNCHANGED <<published, ticked, observed, checkIn, past>>
-----------------------------------------------------------------------------
\* recoverSession, with b.mu held: the issue must still be about the publication.
RecoverAny ==  \* Mutant: whatever is published by then is recovered.
  /\ issue # NoPublication /\ published # NoPublication
  /\ published' = NoPublication
  /\ issue' = NoPublication
  /\ recovered' = 0
  /\ UNCHANGED <<ticked, state, check, gauge, settled, streak, found>>

Recover ==
  /\ issue # NoPublication /\ issue = published
  /\ published' = NoPublication
  /\ issue' = NoPublication
  /\ recovered' = 0
  /\ UNCHANGED <<ticked, state, check, gauge, settled, streak, found>>

DropIssue ==
  /\ issue # NoPublication /\ issue # published
  /\ issue' = NoPublication
  /\ UNCHANGED <<published, ticked, state, check, gauge, past>>

\* The loop recovers for another reason: lost signaling, or failing updates.
RecoverOther ==
  /\ step = "idle" /\ issue = NoPublication /\ published # NoPublication
  /\ published' = NoPublication
  /\ UNCHANGED <<ticked, state, check, issue, gauge, past>>

\* The recovery ends with a new publication.
Recovered(p) ==
  /\ published = NoPublication
  /\ Publish(p)
  /\ UNCHANGED <<ticked, state, check, issue, gauge, recovered, found>>
-----------------------------------------------------------------------------
Check == BeginCheck \/ (\E a \in Answers : Answered(a)) \/ Conclude

Next ==
  \/ Tick
  \/ \E p \in Publications : Republish(p) \/ Recovered(p)
  \/ Check
  \/ Recover \/ DropIssue \/ RecoverOther

Spec == Init /\ [][Next]_vars

\* Time passes, the loop gets to its ticks, and queries and recoveries end.
Fairness ==
  /\ WF_vars(Tick)
  /\ WF_vars(Check)
  /\ WF_vars(Recover \/ DropIssue)
  /\ WF_vars(\E p \in Publications : Recovered(p))

FairSpec == Spec /\ Fairness
-----------------------------------------------------------------------------
TypeOK ==
  /\ published \in Publications \cup {NoPublication}
  /\ ticked \in BOOLEAN
  /\ observed \in Publications \cup {NoPublication}
  /\ checkIn \in 0 .. Grace /\ recoverIn \in 0 .. Cooldown
  /\ misses \in 0 .. Limit
  /\ step \in {"idle", "asking", "concluding"}
  /\ asked \in Publications \cup {NoPublication}
  /\ answer \in Answers /\ current \in BOOLEAN
  /\ issue \in Publications \cup {NoPublication}
  /\ advertised \in BOOLEAN
  /\ checked \in 0 .. Tolerance + 1 /\ attempted \in 0 .. Freshness + 1
  /\ settled \in 0 .. Grace /\ recovered \in 0 .. Cooldown
  /\ streak \in 0 .. Limit /\ found \in 0 .. Tolerance + 1

\* AdvertisedAt, for a reader of the metrics.
AdvertisedAt == advertised /\ attempted <= Freshness /\ checked <= Tolerance

\* A check only has a session replaced that the directory failed to show Limit
\* times in a row, each time past its grace period and the cooldown: results about
\* a session that Update has replaced meanwhile neither count nor recover.
RecoveriesAreDeserved ==
  [][Recover => streak = Limit]_vars

\* The gauge is only up while some answer not older than the tolerance has shown
\* the session that was current then, whatever the errors and republications
\* since (README.md:132).
AdvertisedIsRecent == AdvertisedAt => found <= Tolerance

\* What a check concludes is not rash (session_activity.go:120): no session is
\* replaced that was not missing, and the gauge rests on a recent answer.
ChecksAreSound == RecoveriesAreDeserved /\ []AdvertisedIsRecent

\* Nor is it late: a session that stays published is not missing for ever
\* (session_activity.go:109).
LostIsReplaced ==
  \A p \in Publications :
    (<>[](published = p)) => []<>(step = "concluding" /\ answer # "missing")
=============================================================================
