----------------------------- MODULE FriendSync ------------------------------
(****************************************************************************)
(* The friend syncer: Run combines events, polls and expiry checks into     *)
(* spaced passes; a pass reads the pending requests, accepts them in bulk,  *)
(* asks one by one for those the bulk accept refused, lists the friends and *)
(* removes the inactive ones; runSync records the delays Xbox asked for and *)
(* whether the account's own friend list looks full.                        *)
(*                                                                          *)
(* Time is counted in ticks of minUpdateInterval, the least distance of two *)
(* passes.  A time the code keeps is a countdown here: the ticks left until *)
(* it is reached, 0 once it has passed.  Nothing happens at once: ticks may *)
(* pass between any two steps.                                              *)
(****************************************************************************)
EXTENDS Naturals, FiniteSets

CONSTANTS
  Players,         \* accounts that send the bot friend requests
  Delays,          \* the Retry-After delays Xbox answers with
  Hold,            \* fullListHold and refusedBackoff, both an hour
  UpdateInterval,  \* Config.UpdateInterval: the distance of two polls
  ExpiryCheck,     \* Config.ExpiryCheck: the distance of two expiry scans
  FullListPlayers, \* fullListPlayers: refusals that make the list look full
  AutoFriend,      \* Config.AutoFriend
  ExpiryEnabled,   \* Config.ExpiryEnabled, with a history
  MaxDue           \* bound: friends one scan finds to be inactive

ASSUME ConstantsAssumption ==
  /\ IsFiniteSet(Players)
  /\ Delays \subseteq Nat \ {0} /\ Hold \in Nat \ {0}
  /\ UpdateInterval \in Nat \ {0} /\ ExpiryCheck \in Nat \ {0}
  /\ FullListPlayers \in Nat \ {0} /\ MaxDue \in Nat
  /\ AutoFriend \in BOOLEAN /\ ExpiryEnabled \in BOOLEAN

VARIABLES
  pc,            \* where Run is: at its select, in a pass, or returned
  pending,       \* a pass is wanted
  expire,        \* the next pass also expires
  timer, nextScan, nextPoll, nextExpiry,
  opts,          \* friendSyncOptions of the pass: remove and skip
  result,        \* friendSyncResult of the pass
  todo,          \* the requests the pass still has to ask for
  declining,     \* the restricted player whose request is declined
  due,           \* the inactive friends the pass still has to remove
  addRetryUntil, removeRetryUntil,
  skipFor,       \* until neither fullPlayers nor waiting holds a player
  refusedBefore, \* players refused for a full list on earlier passes
  fresh,         \* until a first refusal no longer counts
  started,       \* a pass has read the pending list
  full,          \* the account's own list looks full
  trigger,       \* the one-place channel of the social subscription
  requests,      \* at Xbox: the players with a pending request
  closed,        \* at Xbox: until reads, adds and removals are answered again
  quiet,         \* at Xbox: until a player's request may be asked for again
  unanswered     \* players refused for a full list with no accept since

schedule == <<pending, expire, timer, nextScan, nextPoll, nextExpiry>>
pass == <<opts, result, todo, declining, due>>
state == <<addRetryUntil, removeRetryUntil, skipFor, refusedBefore, fresh,
           started, full>>
xbox == <<requests, closed, quiet, unanswered>>
vars == <<pc, schedule, pass, state, trigger, xbox>>

Least(a, b) == IF a < b THEN a ELSE b
Greatest(a, b) == IF a < b THEN b ELSE a
Earlier(n) == IF n = 0 THEN 0 ELSE n - 1

NoOptions == [remove |-> FALSE, skip |-> {}]

NoResult ==
  [readRetryAfter |-> 0, addRetryAfter |-> 0, removeRetryAfter |-> 0,
   accepted |-> FALSE, fullPlayers |-> {}, waits |-> [p \in Players |-> 0],
   pendingRead |-> FALSE]

Init ==
  /\ pc = "wait"
  /\ pending = TRUE /\ expire = TRUE
  /\ timer = 0 /\ nextScan = 0 /\ nextPoll = 0 /\ nextExpiry = 0
  /\ opts = NoOptions /\ result = NoResult /\ todo = {} /\ declining = {} /\ due = 0
  /\ addRetryUntil = 0 /\ removeRetryUntil = 0
  /\ skipFor = [p \in Players |-> 0] /\ fresh = [p \in Players |-> 0]
  /\ refusedBefore = {} /\ started = FALSE /\ full = FALSE
  /\ trigger = FALSE
  /\ requests = {} /\ closed = [read |-> 0, add |-> 0, remove |-> 0]
  /\ quiet = [p \in Players |-> 0] /\ unanswered = {}

-----------------------------------------------------------------------------
(* Run: from a wake to the next one.                                        *)

ExpiryDue == ExpiryEnabled /\ nextExpiry = 0

\* Mutant: a poll that falls due before the spacing is over wakes Run.
NextWakeTooSoon(wanted, scan, poll, expiry) ==
  LET wake == IF ExpiryEnabled THEN Least(poll, expiry) ELSE poll
  IN  IF wanted THEN scan ELSE wake

\* The timer's new delay, given what the iteration leaves behind.
NextWake(wanted, scan, poll, expiry) ==
  LET wake == IF ExpiryEnabled THEN Least(poll, expiry) ELSE poll
  IN  IF wanted \/ wake < scan THEN scan ELSE wake

\* Where a pass goes on once it is through with the requests: a pass that
\* does not expire lists the friends only if friendCount needs the list.
AfterAdds(expires) ==
  IF expires /\ ExpiryEnabled THEN {"list"} ELSE {"list", "record"}

\* Mutant: a refused player is never asked for again.
SkippedForGood == {p \in Players : skipFor[p] > 0} \cup refusedBefore

Skipped == {p \in Players : skipFor[p] > 0}

\* The select took the timer or an event, and ctx has not ended.  With a
\* pass wanted and the spacing over, a pass begins, with the options of now.
Wake(event) ==
  /\ pc = "wait"
  /\ IF event THEN trigger ELSE timer = 0
  /\ trigger' = (trigger /\ ~event)
  /\ pending' = (pending \/ event \/ nextPoll = 0 \/ ExpiryDue)
  /\ expire' = (expire \/ ExpiryDue)
  /\ \/ /\ pending' /\ nextScan = 0
        /\ opts' = [remove |-> removeRetryUntil = 0, skip |-> Skipped]
        /\ pc' \in IF AutoFriend /\ addRetryUntil = 0 THEN {"read"}
                   ELSE AfterAdds(expire')
        /\ UNCHANGED timer
     \/ /\ ~(pending' /\ nextScan = 0)
        /\ timer' = NextWake(pending', nextScan, nextPoll, nextExpiry)
        /\ UNCHANGED <<pc, opts>>
  /\ UNCHANGED <<nextScan, nextPoll, nextExpiry, result, todo, declining, due, state, xbox>>

Stop ==
  /\ pc = "wait"
  /\ pc' = "off"
  /\ UNCHANGED <<schedule, pass, state, trigger, xbox>>

-----------------------------------------------------------------------------
(* acceptPending.                                                           *)

\* The pending list, without the players whose requests wait.
ReadPending ==
  /\ pc = "read"
  /\ todo' = requests \ opts.skip
  /\ \/ /\ todo' # {}
        /\ pc' = "bulk"
        /\ UNCHANGED result
     \/ /\ todo' = {}
        /\ pc' \in AfterAdds(expire)
        /\ result' = [result EXCEPT !.pendingRead = TRUE]
  /\ UNCHANGED <<schedule, opts, declining, due, state, trigger, xbox>>

\* A failed read ends the pass if Xbox asked for a delay (d > 0).
ReadPendingFails(d) ==
  /\ pc = "read"
  /\ result' = [result EXCEPT !.readRetryAfter = d]
  /\ closed' = [closed EXCEPT !.read = d]
  /\ pc' \in IF d > 0 THEN {"record"} ELSE AfterAdds(expire)
  /\ UNCHANGED <<schedule, opts, todo, declining, due, state, trigger, requests, quiet,
                 unanswered>>

\* Mutant: players Xbox gave a delay are asked for one by one all the same.
LeftOverWithHeld(accepted, held) == todo \ accepted

\* The players a bulk accept neither updated nor was told to wait for.
LeftOver(accepted, held) == todo \ (accepted \cup held)

\* The bulk accept updated the players in "accepted", was told to wait for
\* those in the domain of "waits", and went through (stop = "none"), was
\* stopped by a limit on the account, or failed otherwise.  Only when it went
\* through are the players left asked for one by one.  A failure that is no
\* answer of Xbox leaves the pending list unread.
BulkAccept(accepted, waits, stop, d) ==
  LET held == DOMAIN waits
  IN  /\ pc = "bulk"
      /\ todo' = IF stop = "none" THEN LeftOver(accepted, held) ELSE {}
      /\ pc' \in IF todo' # {} THEN {"each"} ELSE AfterAdds(expire)
      /\ \E read \in IF stop = "other" /\ held = {} THEN BOOLEAN ELSE {TRUE} :
           result' = [result EXCEPT
             !.accepted = accepted # {},
             !.addRetryAfter = IF stop = "account" THEN d ELSE 0,
             !.waits = [p \in Players |-> IF p \in held THEN waits[p] ELSE 0],
             !.pendingRead = read]
      /\ requests' = requests \ accepted
      /\ unanswered' = IF accepted # {} THEN {} ELSE unanswered
      /\ closed' = IF stop = "account" THEN [closed EXCEPT !.add = d] ELSE closed
      /\ quiet' = [p \in Players |-> IF p \in held THEN waits[p] ELSE quiet[p]]
      /\ UNCHANGED <<schedule, opts, declining, due, state, trigger>>

\* Mutant: a limit on the account does not end the pass.
AddBlockedByRefusals(r) ==
  /\ ~r.accepted
  /\ Cardinality(r.fullPlayers \ refusedBefore) >= FullListPlayers

\* A pass asks no more once adds are limited, or once so many players are
\* refused for the first time, with no accept, that the list may be full.
AddBlocked(r) ==
  \/ r.addRetryAfter > 0
  \/ /\ ~r.accepted
     /\ Cardinality(r.fullPlayers \ refusedBefore) >= FullListPlayers

\* One request is through: the next one, or on with the pass.
Asked(p) ==
  /\ todo' = IF AddBlocked(result') THEN {} ELSE todo \ {p}
  /\ pc' \in IF todo' # {} THEN {"each"} ELSE AfterAdds(expire)

Added(p) ==
  /\ pc = "each" /\ p \in todo
  /\ result' = [result EXCEPT !.accepted = TRUE]
  /\ Asked(p)
  /\ requests' = requests \ {p}
  /\ unanswered' = {}
  /\ UNCHANGED <<schedule, opts, declining, due, state, trigger, closed, quiet>>

\* Xbox restricts the player: their request is declined next.
Restricted(p) ==
  /\ pc = "each" /\ p \in todo
  /\ todo' = todo \ {p}
  /\ declining' = {p}
  /\ pc' = "decline"
  /\ UNCHANGED <<schedule, opts, result, due, state, trigger, xbox>>

\* declineRestricted.  Its outcome, a delay included, is only logged.
Decline ==
  /\ pc = "decline"
  /\ requests' \in {requests, requests \ declining}
  /\ declining' = {}
  /\ pc' \in IF todo # {} THEN {"each"} ELSE AfterAdds(expire)
  /\ UNCHANGED <<schedule, opts, result, todo, due, state, trigger, closed, quiet,
                 unanswered>>

Refused(p) ==
  /\ pc = "each" /\ p \in todo
  /\ result' = [result EXCEPT !.fullPlayers = @ \cup {p}]
  /\ Asked(p)
  /\ quiet' = [quiet EXCEPT ![p] = Hold]
  /\ unanswered' = unanswered \cup {p}
  /\ UNCHANGED <<schedule, opts, declining, due, state, trigger, requests, closed>>

Limited(p, d) ==
  /\ pc = "each" /\ p \in todo
  /\ result' = [result EXCEPT !.addRetryAfter = d]
  /\ Asked(p)
  /\ closed' = [closed EXCEPT !.add = d]
  /\ UNCHANGED <<schedule, opts, declining, due, state, trigger, requests, quiet,
                 unanswered>>

\* An answer about the player: they wait as long as Xbox says, or an hour.
Waits(p, d) ==
  /\ pc = "each" /\ p \in todo
  /\ result' = [result EXCEPT !.waits[p] = d]
  /\ Asked(p)
  /\ quiet' = [quiet EXCEPT ![p] = d]
  /\ UNCHANGED <<schedule, opts, declining, due, state, trigger, requests, closed,
                 unanswered>>

\* Any other failure: asked for again by the next pass.
AddFails(p) ==
  /\ pc = "each" /\ p \in todo
  /\ UNCHANGED result
  /\ Asked(p)
  /\ UNCHANGED <<schedule, opts, declining, due, state, trigger, xbox>>

AddFriend(p) ==
  \/ Added(p) \/ Restricted(p) \/ Refused(p) \/ AddFails(p)
  \/ \E d \in Delays : Limited(p, d)
  \/ \E d \in Delays \cup {Hold} : Waits(p, d)

-----------------------------------------------------------------------------
(* The friend list, and the removal of inactive friends.                    *)

\* Friends: the whole list.  What makes a friend inactive is not modelled
\* here; a scan finds at most MaxDue of them.
ListFriends ==
  /\ pc = "list"
  /\ \/ /\ expire /\ ExpiryEnabled
        /\ pc' = "expiring"
        /\ due' \in 0 .. MaxDue
     \/ /\ ~(expire /\ ExpiryEnabled)
        /\ pc' = "record"
        /\ UNCHANGED due
  /\ UNCHANGED <<schedule, opts, result, todo, declining, state, trigger, xbox>>

ListFriendsFails(d) ==
  /\ pc = "list"
  /\ pc' = "record"
  /\ result' = [result EXCEPT !.readRetryAfter = d]
  /\ closed' = [closed EXCEPT !.read = d]
  /\ UNCHANGED <<schedule, opts, todo, declining, due, state, trigger, requests, quiet,
                 unanswered>>

\* A removal that was limited ends the scan.
Removing ==
  /\ pc = "expiring" /\ due > 0
  /\ opts.remove /\ result.removeRetryAfter = 0

\* The RemoveFriend of expire; d is the delay of a refusal, 0 for an answer
\* without one.
RemoveFriend(d) ==
  /\ Removing
  /\ due' = due - 1
  /\ result' = [result EXCEPT !.removeRetryAfter = d]
  /\ closed' = [closed EXCEPT !.remove = d]
  /\ UNCHANGED <<pc, schedule, opts, todo, declining, state, trigger, requests, quiet,
                 unanswered>>

\* Nothing is left to remove, or removals are limited.
ExpiryEnds ==
  /\ pc = "expiring" /\ ~Removing
  /\ pc' = "record" /\ due' = 0
  /\ UNCHANGED <<schedule, opts, result, todo, declining, state, trigger, xbox>>

-----------------------------------------------------------------------------
(* The end of a pass: record, and the rest of Run's iteration.              *)

Backoff(until, after) == IF after > 0 THEN after ELSE until

\* Mutant: every refusal counts, repeats included.
FreshOnRepeat(p) ==
  IF result.accepted THEN 0
  ELSE IF started /\ p \in result.fullPlayers THEN Hold
  ELSE fresh[p]

\* An accept clears the refusals; a player's first refusal counts for an hour,
\* if an earlier pass has read the list.
Fresh(p) ==
  IF result.accepted THEN 0
  ELSE IF started /\ p \in result.fullPlayers \ refusedBefore THEN Hold
  ELSE fresh[p]

\* The pass's delays and holds, and whether the list looks full.
RecordState ==
  /\ addRetryUntil' = Backoff(addRetryUntil, result.addRetryAfter)
  /\ removeRetryUntil' = Backoff(removeRetryUntil, result.removeRetryAfter)
  /\ skipFor' = [p \in Players |->
       Greatest(skipFor[p],
                IF p \in result.fullPlayers THEN Hold ELSE result.waits[p])]
  /\ refusedBefore' = refusedBefore \cup result.fullPlayers
  /\ fresh' = [p \in Players |-> Fresh(p)]
  /\ started' = (started \/ result.pendingRead)
  /\ full' = (Cardinality({p \in Players : fresh'[p] > 0}) >= FullListPlayers)

\* Mutant: a pass that could not read counts as an expiry scan.
RescheduleForgettingExpiry ==
  /\ nextScan' = Greatest(1, result.readRetryAfter)
  /\ nextPoll' = UpdateInterval
  /\ pending' = (result.readRetryAfter > 0)
  /\ expire' = FALSE
  /\ nextExpiry' = IF expire THEN ExpiryCheck ELSE nextExpiry
  /\ timer' = NextWake(pending', nextScan', nextPoll', nextExpiry')

\* A pass that has to read again later stays wanted, with its expiry.
Reschedule ==
  /\ nextScan' = Greatest(1, result.readRetryAfter)
  /\ nextPoll' = UpdateInterval
  /\ pending' = (result.readRetryAfter > 0)
  /\ expire' = (expire /\ pending')
  /\ nextExpiry' = IF expire /\ ~pending' THEN ExpiryCheck ELSE nextExpiry
  /\ timer' = NextWake(pending', nextScan', nextPoll', nextExpiry')

Record ==
  /\ pc = "record"
  /\ pc' = "wait"
  /\ RecordState
  /\ Reschedule
  /\ opts' = NoOptions /\ result' = NoResult
  /\ UNCHANGED <<todo, declining, due, trigger, xbox>>

-----------------------------------------------------------------------------
(* Players, notifications and time.                                         *)

\* A player sends or withdraws a request.  The subscription may be lost: no
\* event need come of it.
PlayerActs(p) ==
  /\ pc # "off"
  /\ \/ /\ p \notin requests /\ requests' = requests \cup {p}
     \/ /\ p \in requests /\ requests' = requests \ {p}
  /\ trigger' \in {trigger, TRUE}
  /\ UNCHANGED <<pc, schedule, pass, state, closed, quiet, unanswered>>

\* An event about something else.  signal never blocks: with one event in the
\* channel, another is dropped.
Signal ==
  /\ pc # "off" /\ ~trigger
  /\ trigger' = TRUE
  /\ UNCHANGED <<pc, schedule, pass, state, xbox>>

Tick ==
  /\ pc # "off"
  /\ timer' = Earlier(timer) /\ nextScan' = Earlier(nextScan)
  /\ nextPoll' = Earlier(nextPoll) /\ nextExpiry' = Earlier(nextExpiry)
  /\ addRetryUntil' = Earlier(addRetryUntil)
  /\ removeRetryUntil' = Earlier(removeRetryUntil)
  /\ skipFor' = [p \in Players |-> Earlier(skipFor[p])]
  /\ fresh' = [p \in Players |-> Earlier(fresh[p])]
  /\ closed' = [r \in DOMAIN closed |-> Earlier(closed[r])]
  /\ quiet' = [p \in Players |-> Earlier(quiet[p])]
  /\ UNCHANGED <<pc, pending, expire, pass, refusedBefore, started, full, trigger,
                 requests, unanswered>>

-----------------------------------------------------------------------------

Bulk ==
  \E accepted \in SUBSET todo : \E held \in SUBSET (todo \ accepted) :
    \E waits \in [held -> Delays], stop \in {"none", "account", "other"}, d \in Delays :
      BulkAccept(accepted, waits, stop, d)

\* The steps of the syncer's goroutine.
Work ==
  \/ \E event \in BOOLEAN : Wake(event)
  \/ ReadPending \/ \E d \in Delays \cup {0} : ReadPendingFails(d)
  \/ Bulk \/ \E p \in Players : AddFriend(p)
  \/ Decline
  \/ ListFriends \/ \E d \in Delays \cup {0} : ListFriendsFails(d)
  \/ \E d \in Delays \cup {0} : RemoveFriend(d)
  \/ ExpiryEnds
  \/ Record

Next ==
  \/ Work \/ Stop
  \/ \E p \in Players : PlayerActs(p)
  \/ Signal \/ Tick

Spec == Init /\ [][Next]_vars

\* The goroutine goes on, time passes, and Xbox does not fail every read.
Fairness ==
  /\ WF_vars(Work) /\ WF_vars(Tick)
  /\ SF_vars(ReadPending)
  /\ SF_vars(ListFriends /\ expire)

FairSpec == Spec /\ Fairness

-----------------------------------------------------------------------------
(* Properties.                                                              *)


RunOK ==
  /\ pc \in {"wait", "read", "bulk", "each", "decline", "list", "expiring", "record",
             "off"}
  /\ pending \in BOOLEAN /\ expire \in BOOLEAN /\ trigger \in BOOLEAN
  /\ timer \in Nat /\ nextScan \in Nat /\ nextPoll \in Nat /\ nextExpiry \in Nat

FriendSyncResult ==
  [readRetryAfter : Nat, addRetryAfter : Nat, removeRetryAfter : Nat, accepted : BOOLEAN,
   fullPlayers : SUBSET Players, waits : [Players -> Nat], pendingRead : BOOLEAN]

PassOK ==
  /\ opts \in [remove : BOOLEAN, skip : SUBSET Players]
  /\ result \in FriendSyncResult
  /\ todo \in SUBSET Players /\ declining \in SUBSET Players /\ due \in 0 .. MaxDue

StateOK ==
  /\ addRetryUntil \in Nat /\ removeRetryUntil \in Nat
  /\ skipFor \in [Players -> Nat] /\ fresh \in [Players -> Nat]
  /\ refusedBefore \in SUBSET Players
  /\ started \in BOOLEAN /\ full \in BOOLEAN

XboxOK ==
  /\ requests \in SUBSET Players /\ unanswered \in SUBSET Players
  /\ closed \in [read : Nat, add : Nat, remove : Nat]
  /\ quiet \in [Players -> Nat]

\* Every variable keeps its type, and a scan removes no more friends than it
\* found.
TypeOK == RunOK /\ PassOK /\ StateOK /\ XboxOK

\* A delay Xbox asks for is respected, per operation (friendSyncRunState): no
\* list is read, no request asked for and no inactive friend removed before
\* the delay of the last such answer is over, whatever woke the syncer and
\* however long the passes take.
DelaysAreRespected ==
  /\ pc \in {"read", "list"} => closed.read = 0
  /\ pc \in {"bulk", "each"} => closed.add = 0
  /\ Removing => closed.remove = 0

\* A player who was refused for a full list, or with a delay or no reason, is
\* not asked for again before their hold is over: neither in bulk nor one by
\* one, in the same pass or a later one.
HoldsAreKept ==
  pc \in {"bulk", "each"} => \A p \in todo : quiet[p] = 0

\* The timer never outlives what it waits for: a pass that is wanted begins as
\* soon as the spacing allows, and polls and expiry checks on time, however
\* many events come in between.
TimerIsTimely ==
  pc = "wait" =>
    /\ pending => timer <= nextScan
    /\ timer <= Greatest(nextScan, nextPoll)
    /\ ExpiryEnabled => timer <= Greatest(nextScan, nextExpiry)

\* A wake by the timer is for a pass that may begin: Run never spins.
NoIdleWake ==
  pc = "wait" /\ timer = 0 =>
    nextScan = 0 /\ (pending \/ nextPoll = 0 \/ ExpiryDue)

\* Whatever wakes Run, and however often, the timer it sets is neither too late
\* for a pass that is due nor too early for one (friend_sync.go:546).
TimerIsExact == TimerIsTimely /\ NoIdleWake

\* The list is reported full only on the refusals of FullListPlayers players
\* with no accept since, though a pass records its accepts and refusals
\* without their order.
FullIsFounded == pc = "wait" /\ full => Cardinality(unanswered) >= FullListPlayers

\* What a pass was told of a player outlives the pass, and no more is made of it:
\* a refusal holds its player, and only enough of them, with no accept since, make
\* the list full (friend_sync.go:122).
RefusalsAreRemembered == HoldsAreKept /\ FullIsFounded

\* A false report clears, even if nobody sends the bot a request any more
\* (friendSyncRunState.fresh).
FullIsTemporary == full ~> (~full \/ pc = "off")

\* Expiry is not stalled: neither adds that are limited for ever nor events
\* that never cease keep the syncer from looking for inactive friends.
ExpiryIsNotStalled == ExpiryEnabled => []<>(pc \in {"expiring", "off"})

\* Nobody is forgotten: a request that stays pending is asked for, whatever
\* holds and delays come first.
RequestsAreAsked ==
  \A p \in Players :
    p \in requests ~> (p \notin requests \/ (pc = "bulk" /\ p \in todo) \/ pc = "off")

\* README.md: the broadcaster treats its own list as full and pauses accepting.
FullPausesAccepting == full => pc \notin {"bulk", "each"}
=============================================================================
