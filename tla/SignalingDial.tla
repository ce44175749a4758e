---------------------------- MODULE SignalingDial ----------------------------
(* dialSignaling: the dial, which logs in to PlayFab first if nothing did
   before, runs in a goroutine that may outlive its caller, since a step of it
   may ignore the context.  The connection it makes is handed over on a channel
   without a buffer, or closed.  Start and the recovery dial one at a time; an
   upload of the gallery asks for the same token source meanwhile. *)
CONSTANTS
  Dials,       \* calls of dialSignaling
  Uploads,     \* calls of minecraftTokenSource
  NoSource,    \* a nil token source
  ConfSource   \* conf.MinecraftTokenSource, where one is given

\* What the theorems and the users of the module assume of the constants.
DialAssumption ==
  /\ Dials \cap Uploads = {}
  /\ NoSource \notin Dials \cup Uploads \cup {ConfSource}
  /\ ConfSource \notin Dials \cup Uploads

Users == Dials \cup Uploads
Sources == Users \cup {ConfSource}

VARIABLES
  caller,  \* where the caller of each dial is: "got" a connection or "failed"
  worker,  \* where the goroutine of each dial, or an upload, is
  ended,   \* the dial's context has ended
  source,  \* the token source each uses; one that logs in makes its own
  conn,    \* the connection the goroutine of each dial made
  stored   \* b.minecraftTokens, or conf.MinecraftTokenSource

vars == <<caller, worker, ended, source, conn, stored>>

Init ==
  /\ caller = [d \in Dials |-> "idle"]
  /\ worker = [u \in Users |-> "none"]
  /\ ended = [d \in Dials |-> FALSE]
  /\ source = [u \in Users |-> NoSource]
  /\ conn = [d \in Dials |-> "none"]
  /\ stored \in {NoSource, ConfSource}

Caller(d, place) == caller' = [caller EXCEPT ![d] = place]
Worker(u, step) == worker' = [worker EXCEPT ![u] = step]
HasSource == stored # NoSource
InFlight == \E d \in Dials : caller[d] \in {"waiting", "received"}
InUse == {d \in Dials : caller[d] = "got"}

-----------------------------------------------------------------------------
\* The token source is looked up by the caller, before the goroutine starts.
Dial(d) ==
  /\ caller[d] = "idle" /\ ~InFlight
  /\ Caller(d, "waiting")
  /\ Worker(d, IF HasSource THEN "dial" ELSE "login")
  /\ source' = [source EXCEPT ![d] = stored]
  /\ UNCHANGED <<ended, conn, stored>>

Upload(u) ==
  /\ u \in Uploads /\ worker[u] = "none"
  /\ Worker(u, IF HasSource THEN "done" ELSE "login")
  /\ source' = [source EXCEPT ![u] = stored]
  /\ UNCHANGED <<caller, ended, conn, stored>>

\* The timeout, or the end of the broadcaster's context.
End(d) ==
  /\ caller[d] \in {"waiting", "received"} /\ ~ended[d]
  /\ ended' = [ended EXCEPT ![d] = TRUE]
  /\ UNCHANGED <<caller, worker, source, conn, stored>>

-----------------------------------------------------------------------------
(* The goroutine. *)

LogIn(u) ==
  /\ worker[u] = "login"
  /\ Worker(u, "store") /\ source' = [source EXCEPT ![u] = u]
  /\ UNCHANGED <<caller, ended, conn, stored>>

LogInFails(u) ==
  /\ worker[u] = "login"
  /\ Worker(u, IF u \in Dials THEN "offer" ELSE "done")
  /\ UNCHANGED <<caller, ended, source, conn, stored>>

\* Mutant: the source is not kept before the dial has succeeded.
StoreLater(u) ==
  /\ worker[u] = "store"
  /\ Worker(u, IF u \in Dials THEN "dial" ELSE "done")
  /\ UNCHANGED <<caller, ended, source, conn, stored>>

\* storeMinecraftTokens: the first source is kept, and used by everyone.
Store(u) ==
  /\ worker[u] = "store"
  /\ stored' = IF HasSource THEN stored ELSE source[u]
  /\ source' = [source EXCEPT ![u] = stored']
  /\ Worker(u, IF u \in Dials THEN "dial" ELSE "done")
  /\ UNCHANGED <<caller, ended, conn>>

Connect(d) ==
  /\ worker[d] = "dial"
  /\ Worker(d, "offer") /\ conn' = [conn EXCEPT ![d] = "open"]
  /\ UNCHANGED <<caller, ended, source, stored>>

ConnectFails(d) ==
  /\ worker[d] = "dial"
  /\ Worker(d, "offer")
  /\ UNCHANGED <<caller, ended, source, conn, stored>>

closeSignaling(d) == conn' = [conn EXCEPT ![d] = IF @ = "open" THEN "closed" ELSE @]

\* The goroutine sends what it has, if the caller still receives.
Send(d) ==
  /\ worker[d] = "offer" /\ caller[d] = "waiting"
  /\ Worker(d, "done") /\ Caller(d, "received")
  /\ UNCHANGED <<ended, source, conn, stored>>

Withdraw(d) ==
  /\ worker[d] = "offer" /\ ended[d]
  /\ Worker(d, "done") /\ closeSignaling(d)
  /\ UNCHANGED <<caller, ended, source, stored>>

-----------------------------------------------------------------------------
(* The caller.  Its context ends when it returns. *)

GiveUp(d) ==
  /\ caller[d] = "waiting" /\ ended[d]
  /\ Caller(d, "failed")
  /\ UNCHANGED <<worker, ended, source, conn, stored>>

ReceivedLate(d) ==
  /\ caller[d] = "received" /\ ended[d]
  /\ Caller(d, "failed") /\ closeSignaling(d)
  /\ UNCHANGED <<worker, ended, source, stored>>

ReturnDialed(d) ==
  /\ caller[d] = "received" /\ ~ended[d]
  /\ Caller(d, IF conn[d] = "open" THEN "got" ELSE "failed")
  /\ ended' = [ended EXCEPT ![d] = TRUE]
  /\ UNCHANGED <<worker, source, conn, stored>>

\* Whoever asked for the connection closes it: Close, or an attempt that failed
\* after the dial.
Release(d) ==
  /\ caller[d] = "got"
  /\ Caller(d, "released") /\ closeSignaling(d)
  /\ UNCHANGED <<worker, ended, source, stored>>

-----------------------------------------------------------------------------
Working(u) ==
  LogIn(u) \/ LogInFails(u) \/ Store(u) \/ (u \in Dials /\ (Connect(u) \/ ConnectFails(u)))
Offering(d) == Send(d) \/ Withdraw(d)
Receiving(d) == GiveUp(d) \/ ReceivedLate(d) \/ ReturnDialed(d)

Next ==
  \/ \E d \in Dials :
       \/ Dial(d) \/ End(d) \/ Connect(d) \/ ConnectFails(d) \/ Send(d) \/ Withdraw(d)
       \/ GiveUp(d) \/ ReceivedLate(d) \/ ReturnDialed(d) \/ Release(d)
  \/ \E u \in Users : Upload(u) \/ LogIn(u) \/ LogInFails(u) \/ Store(u)

Spec == Init /\ [][Next]_vars
-----------------------------------------------------------------------------
TypeOK ==
  /\ caller \in [Dials -> {"idle", "waiting", "received", "got", "failed", "released"}]
  /\ worker \in [Users -> {"none", "login", "store", "dial", "offer", "done"}]
  /\ \A u \in Uploads : worker[u] \notin {"dial", "offer"}
  /\ ended \in [Dials -> BOOLEAN]
  /\ source \in [Users -> Sources \cup {NoSource}]
  /\ conn \in [Dials -> {"none", "open", "closed"}]
  /\ stored \in Sources \cup {NoSource}

\* An open connection is in the hands of the goroutine that made it, of the
\* caller that received it, or was returned: whenever the timeout comes, none is
\* left open with nobody to close it (broadcaster.go:322).
NoneIsLost ==
  \A d \in Dials : conn[d] = "open" => worker[d] = "offer" \/ caller[d] \in {"received", "got"}

\* A connection that is returned is open, and its goroutine has let go of it.
GotIsUsable == \A d \in Dials : caller[d] = "got" => conn[d] = "open" /\ worker[d] = "done"

\* Whoever gets past the login uses the source that is kept, even when several
\* logged in at once (broadcaster.go:226), as an abandoned goroutine may.
OneSource ==
  \A u \in Users : source[u] # NoSource => source[u] = stored \/ worker[u] = "store"

\* A login whose source was obtained is not repeated by a later dial, also when
\* the dial after it failed or was abandoned (broadcaster.go:309).
NoSecondLogin ==
  [][\A d, u \in Users :
       worker[d] = "none" /\ worker'[d] = "login"
       => source[u] = NoSource \/ worker[u] = "store"]_vars
=============================================================================
