------------------------------ MODULE Shutdown ------------------------------
(* How the process ends: the command waits for the Broadcaster, closes it and
   then closes the Xbox client it gave it, while the session loop, the goroutines
   it spawned and the social subscription still use both.  Start and the loop dial
   under b.mu, as SignalingDial has it, so that a dial is there at every point of
   the end.  What the sessions go through meanwhile is SessionLifecycle. *)
CONSTANTS
  Loop,       \* the session loop
  Sync,       \* friend sync, whose invites take b.mu
  Others,     \* goroutines that never take b.mu: presence, hiding, uploads
  Uploads,    \* those of them that ask for the token source
  Dials,      \* dials, the first of which is Start's
  Deaf,       \* the goroutines in a call that ignores cancellation
  NoSource, ConfSource

Locking == {Loop, Sync}
Workers == Locking \cup Others

VARIABLES
  command,  \* where runBroadcasterCommand is
  result,   \* what it will return
  lock,     \* who holds b.mu
  ended,    \* b.ctx is done
  failure,  \* b.failure is set
  worker,   \* what each goroutine does, but for those of dials
  counted,  \* b.workers
  social,   \* the subscription: "held" once Xbox may call its handler
  client,   \* the Xbox client
  caller, dialer, timedOut, source, conn, stored  \* SignalingDial's

Dialing == INSTANCE SignalingDial WITH worker <- dialer, ended <- timedOut

ASSUME ShutdownAssumption ==
  /\ Loop # Sync /\ Locking \cap (Others \cup Dials) = {}
  /\ {"free", "command"} \cap Workers = {}
  /\ Uploads \subseteq Others /\ Others \cap Dials = {}
  /\ Deaf \subseteq Others \cup Dials
  /\ Dialing!DialAssumption

dialVars == <<caller, dialer, timedOut, source, conn, stored>>
processVars == <<command, result, lock, ended, failure, worker, counted, social, client>>
vars == <<processVars, dialVars>>
brokerVars == <<lock, ended, failure>>
othersVars == <<worker, counted>>

Init ==
  /\ command = "starting" /\ result = "none"
  /\ lock = "free" /\ ended = FALSE /\ failure = FALSE
  /\ worker = [w \in Workers |-> "none"] /\ counted = {}
  /\ social = "none" /\ client = "open"
  /\ Dialing!Init

Work(w, place) == worker' = [worker EXCEPT ![w] = place]
Running == command # "exited"
Alive(u) == dialer[u] \notin {"none", "done"}
Busy == {w \in Workers : worker[w] \notin {"none", "done"}} \cup {d \in Dials : Alive(d)}
Counted == counted \cup {d \in Dials : Alive(d)}

\* A goroutine is counted before it runs.
spawn(ws) ==
  /\ worker' = [w \in Workers |-> IF w \in ws THEN "running" ELSE worker[w]]
  /\ counted' = counted \cup ws

-----------------------------------------------------------------------------
(* Start.  It holds b.mu, and what it spawned by then gets no further. *)

StartReleases(d) == command = "starting" /\ Dialing!Release(d) /\ UNCHANGED processVars

StartDials(d) ==
  /\ command = "starting" /\ \A e \in Dials : caller[e] = "idle"
  /\ Dialing!Dial(d) /\ UNCHANGED processVars

Start ==
  /\ command = "starting" /\ Dialing!InUse # {}
  /\ command' = "waiting"
  /\ \E ws \in SUBSET (Others \cup {Sync}) :
       /\ spawn(ws \cup {Loop})
       /\ social' \in IF Sync \in ws THEN {"none", "asking"} ELSE {"none"}
  /\ UNCHANGED <<dialVars, brokerVars, result, client>>

\* The dial failed or timed out, or what came after it failed: the command returns
\* without a Close, and a late dial is left to end on its own.
StartFails ==
  /\ command = "starting" /\ ~Dialing!InFlight /\ Dialing!InUse = {}
  /\ command' = "leaving" /\ result' = "start" /\ ended' = TRUE
  /\ UNCHANGED <<dialVars, lock, failure, othersVars, social, client>>

\* SIGTERM or an interrupt ends the context that Start was given.
Signal ==
  /\ Running /\ ~ended
  /\ ended' = TRUE
  /\ UNCHANGED <<dialVars, command, result, lock, failure, worker, counted, social, client>>

-----------------------------------------------------------------------------
(* The goroutines. *)

\* After a lock a worker goes on, or returns where its context has ended.
Wants(w) ==
  /\ Running /\ w \in Locking /\ worker[w] = "running"
  /\ Work(w, "blocked")
  /\ UNCHANGED <<dialVars, command, result, brokerVars, counted, social, client>>

Acquire(w) ==
  /\ Running /\ worker[w] = "blocked" /\ lock = "free"
  /\ Work(w, "holding") /\ lock' = w
  /\ UNCHANGED <<dialVars, command, result, ended, failure, counted, social, client>>

Release(w) ==
  /\ Running /\ worker[w] = "holding" /\ (w = Loop => ~Dialing!InFlight)
  /\ Work(w, "running") /\ lock' = "free"
  /\ UNCHANGED <<dialVars, command, result, ended, failure, counted, social, client>>

\* Mutant: the goroutine is counted once it runs.
SpawnUncounted(v) ==
  /\ Running /\ worker[Loop] = "holding"
  /\ v \in Others /\ worker[v] \in {"none", "done"}
  /\ Work(v, "running")
  /\ UNCHANGED <<dialVars, command, result, brokerVars, counted, social, client>>

\* retire and recreateSession start a goroutine under b.mu, whether or not the
\* context has ended since they looked.
Spawn(v) ==
  /\ Running /\ worker[Loop] = "holding"
  /\ v \in Others /\ worker[v] \in {"none", "done"}
  /\ spawn({v})
  /\ UNCHANGED <<dialVars, command, result, brokerVars, social, client>>

\* recreateSession closes the connection before it dials another, and the new one
\* again where no session can be published on it.
LoopReleases(d) ==
  Running /\ worker[Loop] = "holding" /\ Dialing!Release(d) /\ UNCHANGED processVars

\* Mutant: the connection in use is not closed first.
LoopDialsAnother(d) ==
  /\ Running /\ worker[Loop] = "holding" /\ ~ended
  /\ Dialing!Dial(d) /\ UNCHANGED processVars

LoopDials(d) ==
  /\ Running /\ worker[Loop] = "holding" /\ ~ended /\ Dialing!InUse = {}
  /\ Dialing!Dial(d) /\ UNCHANGED processVars

\* What the goroutine of a dial, and one that asks for a token source, do.
Dialer(u) == Running /\ Dialing!Working(u) /\ UNCHANGED processVars
Asks(u) == Running /\ worker[u] = "running" /\ Dialing!Upload(u) /\ UNCHANGED processVars
Offer(d) == Running /\ Dialing!Offering(d) /\ UNCHANGED processVars
Receive(d) == Running /\ Dialing!Receiving(d) /\ UNCHANGED processVars
TimeOut(d) == Running /\ Dialing!End(d) /\ UNCHANGED processVars

\* Mutant: the context is not looked at again.
GiveUpAlways ==
  /\ Running /\ worker[Loop] = "holding" /\ Dialing!InUse = {} /\ ~Dialing!InFlight
  /\ failure' = TRUE /\ ended' = TRUE
  /\ UNCHANGED <<dialVars, command, result, lock, worker, counted, social, client>>

\* A recovery that spent its attempts stops the Broadcaster.
GiveUp ==
  /\ Running /\ worker[Loop] = "holding" /\ ~ended
  /\ Dialing!InUse = {} /\ ~Dialing!InFlight
  /\ failure' = TRUE /\ ended' = TRUE
  /\ UNCHANGED <<dialVars, command, result, lock, worker, counted, social, client>>

Finish(w) ==
  /\ Running /\ worker[w] = "running" /\ (w \in Locking => ended)
  /\ w \in Uploads => ~Alive(w)
  /\ Work(w, "done") /\ counted' = counted \ {w}
  /\ UNCHANGED <<dialVars, command, result, brokerVars, social, client>>

Social(from, to) == Running /\ social \in from /\ social' = to
Unsocial == UNCHANGED <<dialVars, command, result, brokerVars, othersVars, client>>

Subscribe == Social({"asking"}, "held") /\ Unsocial
\* Bounded, also after the context has ended.
SubscribeFails == Social({"asking"}, "gone") /\ Unsocial
\* A release that fails, or takes too long, is logged and counts as done.
Unsubscribe == ended /\ Social({"held"}, "gone") /\ Unsocial

-----------------------------------------------------------------------------
(* Wait, Close and the client's close, in the command's order. *)

Wait ==
  /\ command = "waiting" /\ ended /\ lock = "free"
  /\ command' = "closing" /\ result' = IF failure THEN "run" ELSE "ok"
  /\ UNCHANGED <<dialVars, brokerVars, othersVars, social, client>>

Close ==
  /\ command = "closing" /\ lock = "free"
  /\ command' = "unsubscribing" /\ lock' = "command" /\ ended' = TRUE
  /\ UNCHANGED <<dialVars, result, failure, othersVars, social, client>>

SocialReleased ==
  /\ command = "unsubscribing" /\ social \in {"none", "gone"}
  /\ command' = "releasing"
  /\ UNCHANGED <<dialVars, result, brokerVars, othersVars, social, client>>

\* Mutant: b.mu is kept until the workers have ended.
ReleaseKeepingLock ==
  /\ command = "releasing"
  /\ command' = "draining"
  /\ UNCHANGED <<dialVars, result, brokerVars, othersVars, social, client>>

ReleaseSignaling(d) == command = "releasing" /\ Dialing!Release(d) /\ UNCHANGED processVars

ReleaseSessions ==
  /\ command = "releasing" /\ Dialing!InUse = {}
  /\ command' = "draining" /\ lock' = "free"
  /\ UNCHANGED <<dialVars, result, ended, failure, othersVars, social, client>>

Drained ==
  /\ command = "draining" /\ Counted = {}
  /\ command' = "leaving"
  /\ UNCHANGED <<dialVars, result, brokerVars, othersVars, social, client>>

\* closeWorkersTimeout is longer than any call that heeds its context.
DrainTimesOut ==
  /\ command = "draining" /\ Counted \subseteq Deaf
  /\ command' = "leaving"
  /\ UNCHANGED <<dialVars, result, brokerVars, othersVars, social, client>>

CloseClient ==
  /\ command = "leaving" /\ client = "open"
  /\ client' = "closed"
  /\ UNCHANGED <<dialVars, command, result, brokerVars, othersVars, social>>

Exit ==
  /\ command = "leaving" /\ client = "closed"
  /\ command' = "exited"
  /\ UNCHANGED <<dialVars, result, brokerVars, othersVars, social, client>>

-----------------------------------------------------------------------------
Command ==
  \/ Start \/ StartFails \/ Wait \/ Close \/ SocialReleased \/ ReleaseSessions
  \/ Drained \/ DrainTimesOut \/ CloseClient \/ Exit
Subscription == Subscribe \/ SubscribeFails \/ Unsubscribe

Next ==
  \/ Command \/ Signal \/ GiveUp \/ Subscription
  \/ \E w \in Workers : Wants(w) \/ Acquire(w) \/ Release(w) \/ Spawn(w) \/ Finish(w)
  \/ \E d \in Dials :
       \/ StartDials(d) \/ StartReleases(d) \/ LoopDials(d) \/ LoopReleases(d)
       \/ Offer(d) \/ Receive(d) \/ TimeOut(d) \/ ReleaseSignaling(d)
  \/ \E u \in Uploads : Asks(u)
  \/ \E u \in Dials \cup Uploads : Dialer(u)

\* A mutex in Go is handed to the one that waits longest.  A goroutine that heeds
\* the context returns once it has ended; nothing is said of the others.
Fairness ==
  /\ SF_vars(Command) /\ WF_vars(Subscription)
  /\ \A w \in Locking : SF_vars(Acquire(w)) /\ WF_vars(Release(w))
  /\ \A w \in Workers \ Deaf : SF_vars(ended /\ Finish(w))
  /\ \A u \in (Dials \cup Uploads) \ Deaf : WF_vars(Dialer(u))
  /\ \A d \in Dials :
       /\ WF_vars(Offer(d)) /\ WF_vars(Receive(d)) /\ WF_vars(TimeOut(d))
       /\ WF_vars(StartDials(d) \/ StartReleases(d) \/ ReleaseSignaling(d))

Spec == Init /\ [][Next]_vars
FairSpec == Spec /\ Fairness
-----------------------------------------------------------------------------
TypeOK ==
  /\ command \in {"starting", "waiting", "closing", "unsubscribing", "releasing",
                  "draining", "leaving", "exited"}
  /\ result \in {"none", "start", "run", "ok"}
  /\ lock \in Locking \cup {"free", "command"}
  /\ ended \in BOOLEAN /\ failure \in BOOLEAN
  /\ worker \in [Workers -> {"none", "running", "blocked", "holding", "done"}]
  /\ counted \in SUBSET Workers
  /\ social \in {"none", "asking", "held", "gone"}
  /\ client \in {"open", "closed"}
  /\ \A w \in Workers : worker[w] = "holding" <=> lock = w
  /\ Dialing!TypeOK

\* The client is closed only when the release of the social handler is over and
\* none is being registered (social_subscription.go:19).
HandlersAreReleased == client = "closed" => social \in {"none", "gone"}

\* After a Close, whatever was spawned until then, by the loop in its last
\* recovery too, has ended when the client is closed; a call that ignores
\* cancellation is all that may go on (broadcaster.go:496, 511).
ClientOutlivesWorkers == client = "closed" /\ result # "start" => Busy \subseteq Deaf

\* The caller may close its client when the command leaves: whoever used it is gone.
ClientOutlivesUsers == HandlersAreReleased /\ ClientOutlivesWorkers

\* At most one connection is in use, and none is left to somebody who will not
\* close it: neither by a recovery that dials another nor, once Close has run or
\* Start has failed, by a dial that the end overtook (broadcaster.go:475).
NothingLeftOpen ==
  /\ \A d, e \in Dialing!InUse : d = e
  /\ command \in {"draining", "leaving", "exited"} =>
       \A d \in Dials : conn[d] = "open" => dialer[d] = "offer"

\* From its dial to its close every connection has an owner, which alone uses it
\* and closes it, whenever a timeout, a stop or a failure comes.
ConnectionsAreOwned == Dialing!NoneIsLost /\ Dialing!GotIsUsable /\ NothingLeftOpen

\* One token source is used by all, and what was logged in for is kept: whichever
\* dial, recovery or upload comes next does not log in again (broadcaster.go:226).
SourceIsKept == [][Dialing!OneSource']_vars /\ Dialing!NoSecondLogin

\* The command returns a recovery's failure exactly when one stopped it: a
\* signal that comes first hides none and none is set once Wait has read it
\* (session_recovery.go:171).
FailureIsReported == result \in {"run", "ok"} => ((result = "run") <=> failure)

\* The process exits once its context has ended, for its supervisor to start it
\* again, though a goroutine never returns and others want the lock that Close
\* holds (broadcaster.go:496).
Exits == ended ~> command = "exited"
=============================================================================
