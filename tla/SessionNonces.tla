--------------------------- MODULE SessionNonces ---------------------------
(* The announcer of one session: the document it publishes in the Xbox session
   directory, holding the status and one nonce for every player in the session,
   and the three writers of that document: Announce, hide, and the handler the
   directory calls when the session's members change.

   The announcer's mutex serialises the writers, so each is one action; the
   exception is a publication, during which players may join before the handler
   is registered. A handler reads the member list before it takes the mutex. A
   request to the directory succeeds, fails, or (if Ambiguous) is applied though
   its answer is lost. *)
EXTENDS Naturals, FiniteSets

CONSTANTS
  Players,    \* XUIDs other than the account's own
  Sessions,   \* identities of published sessions; one is reused once forgotten
  Nonces,     \* nonces, a value being reused once nothing holds it
  Calls,      \* calls of the handler that can be in flight at once
  Statuses,   \* statuses given to Announce, all of them joinable
  Hidden,     \* Hidden[st]: st made invite-only
  Restriction,\* Restriction[st]: the read and join restrictions st asks for
  NoSession, NoNonce, NoStatus,
  Ambiguous   \* whether a request whose answer is lost may have been applied

AllStatuses == Statuses \cup {Hidden[st] : st \in Statuses}

ASSUME NoncesAssumption ==
  /\ NoSession \notin Sessions
  /\ NoNonce \notin Nonces
  /\ NoStatus \notin AllStatuses
  /\ \A st \in AllStatuses : Hidden[st] \in AllStatuses
  /\ Ambiguous \in BOOLEAN

NonceMaps == [Players -> Nonces \cup {NoNonce}]
Documents == [status : AllStatuses \cup {NoStatus}, nonces : NonceMaps]
NoNonces == [p \in Players |-> NoNonce]
NoDocument == [status |-> NoStatus, nonces |-> NoNonces]

VARIABLES
  session,      \* a.Session
  custom,       \* a.custom, the document last known to be published
  restriction,  \* a.readRestriction and a.joinRestriction: the status they came from
  nonces,       \* a.nonces
  lastStatus,   \* a.lastStatus
  handled,      \* a.handledSession
  publishing,   \* the session published by an Announce that has not returned
  document,     \* the directory: the document of each session
  members,      \* the directory: the players in each session
  due,          \* the sessions with a member change not yet delivered
  call,         \* the handler calls: the session and the list read, if any
  asked,        \* history: the status last asked for, by Announce or hide
  visited       \* history: the players that were in each session

announcer == <<session, custom, restriction, nonces, lastStatus, handled, publishing>>
directory == <<document, members, due, visited>>
vars == <<session, custom, restriction, nonces, lastStatus, handled, publishing,
          document, members, due, call, asked, visited>>

Idle == [session |-> NoSession, list |-> {}]
Locked == publishing # NoSession

Init ==
  /\ session = NoSession /\ custom = NoDocument /\ restriction = NoStatus
  /\ nonces = NoNonces /\ lastStatus = NoStatus /\ handled = NoSession
  /\ publishing = NoSession
  /\ document = [s \in Sessions |-> NoDocument]
  /\ members = [s \in Sessions |-> {}]
  /\ due = {}
  /\ call = [c \in Calls |-> Idle]
  /\ asked = NoStatus
  /\ visited = [s \in Sessions |-> {}]
-----------------------------------------------------------------------------
\* The outcomes of Session.SetCustomProperties: whether the document changed and
\* whether the announcer was told so.
Outcomes ==
  {[applied |-> TRUE, ok |-> TRUE], [applied |-> FALSE, ok |-> FALSE]}
    \cup IF Ambiguous THEN {[applied |-> TRUE, ok |-> FALSE]} ELSE {}

\* Mutant: remembers the document whatever becomes of the request.
RememberAlways(doc, outcome) ==
  /\ document' = IF outcome.applied THEN [document EXCEPT ![session] = doc] ELSE document
  /\ custom' = doc

SetCustomProperties(doc, outcome) ==
  /\ document' = IF outcome.applied THEN [document EXCEPT ![session] = doc] ELSE document
  /\ custom' = IF outcome.ok THEN doc ELSE custom

SameRestrictions(st) ==
  restriction # NoStatus /\ Restriction[st] = Restriction[restriction]

\* Announce with nothing to send: at most the handler is registered.
AnnounceUnchanged(st) ==
  /\ ~Locked /\ session # NoSession
  /\ SameRestrictions(st) /\ custom = [status |-> st, nonces |-> nonces]
  /\ lastStatus' = st /\ asked' = st
  /\ handled' = session
  /\ UNCHANGED <<session, custom, restriction, nonces, publishing, directory, call>>

\* Announce of another document under the same restrictions.
AnnounceChange(st, outcome) ==
  /\ ~Locked /\ session # NoSession
  /\ SameRestrictions(st) /\ custom # [status |-> st, nonces |-> nonces]
  /\ lastStatus' = st /\ asked' = st
  /\ SetCustomProperties([status |-> st, nonces |-> nonces], outcome)
  /\ IF outcome.ok THEN restriction' = st /\ handled' = session
                   ELSE UNCHANGED <<restriction, handled>>
  /\ UNCHANGED <<session, nonces, publishing, members, due, call, visited>>

\* A session that is neither published nor known to a handler call.
Fresh(s) == s # session /\ s # publishing /\ \A c \in Calls : call[c].session # s

Republishes(st) == session = NoSession \/ ~SameRestrictions(st)

\* resetForRepublishLocked, after the stale session was closed.
ResetForRepublish ==
  /\ nonces' = NoNonces /\ custom' = NoDocument
  /\ restriction' = NoStatus /\ handled' = NoSession

\* Announce without a session, or under other restrictions: the stale session is
\* closed (its document and members go with it) and a new one is published.
AnnouncePublish(st, s) ==
  /\ ~Locked /\ Republishes(st) /\ Fresh(s)
  /\ lastStatus' = st /\ asked' = st
  /\ IF session = NoSession THEN UNCHANGED <<nonces, custom, restriction, handled>>
                            ELSE ResetForRepublish
  /\ session' = s /\ publishing' = s
  /\ document' = [t \in Sessions |->
       IF t = s THEN [status |-> st, nonces |-> nonces'] ELSE NoDocument]
  /\ members' = [t \in Sessions |-> {}]
  /\ visited' = [t \in Sessions |-> {}]
  /\ due' = {}
  /\ UNCHANGED call

\* The rest of that Announce: the document is remembered, the handler registered.
AnnouncePublished ==
  /\ Locked
  /\ custom' = [status |-> lastStatus, nonces |-> nonces]
  /\ restriction' = lastStatus
  /\ handled' = session
  /\ publishing' = NoSession
  /\ UNCHANGED <<session, nonces, lastStatus, directory, call, asked>>

\* The stale session could not be closed.
AnnounceCloseFails(st) ==
  /\ ~Locked /\ session # NoSession /\ Republishes(st)
  /\ lastStatus' = st /\ asked' = st
  /\ UNCHANGED <<session, custom, restriction, nonces, handled, publishing, directory, call>>

\* The publication fails, the stale session being closed already.
AnnouncePublishFails(st) ==
  /\ ~Locked /\ Republishes(st)
  /\ lastStatus' = st /\ asked' = st
  /\ IF session = NoSession THEN UNCHANGED <<nonces, custom, restriction, handled>>
                            ELSE ResetForRepublish
  /\ session' = NoSession
  /\ document' = [t \in Sessions |-> NoDocument]
  /\ members' = [t \in Sessions |-> {}]
  /\ visited' = [t \in Sessions |-> {}]
  /\ due' = {}
  /\ UNCHANGED <<publishing, call>>

\* Mutant of hide: the status is changed in the request only.
HideOnce(outcome) ==
  /\ ~Locked /\ session # NoSession
  /\ asked' = Hidden[asked]
  /\ SetCustomProperties([status |-> Hidden[lastStatus], nonces |-> nonces], outcome)
  /\ UNCHANGED <<session, restriction, nonces, lastStatus, handled, publishing,
                 members, due, call, visited>>
\* hide: the session becomes invite-only and keeps its restrictions.
Hide(outcome) ==
  /\ ~Locked /\ session # NoSession
  /\ lastStatus' = Hidden[lastStatus] /\ asked' = Hidden[asked]
  /\ SetCustomProperties([status |-> lastStatus', nonces |-> nonces], outcome)
  /\ UNCHANGED <<session, restriction, nonces, handled, publishing, members, due, call, visited>>
-----------------------------------------------------------------------------
\* A player joins or leaves the published session.
Join(p) ==
  /\ session # NoSession /\ p \notin members[session]
  /\ members' = [members EXCEPT ![session] = @ \cup {p}]
  /\ visited' = [visited EXCEPT ![session] = @ \cup {p}]
  /\ due' = due \cup {session}
  /\ UNCHANGED <<announcer, document, call, asked>>

Leave(p) ==
  /\ session # NoSession /\ p \in members[session]
  /\ members' = [members EXCEPT ![session] = @ \ {p}]
  /\ due' = due \cup {session}
  /\ UNCHANGED <<announcer, document, call, asked, visited>>

\* The change reaches HandleSessionChange, which reads the member list first.
Deliver(c) ==
  /\ session \in due /\ handled = session /\ call[c] = Idle
  /\ due' = due \ {session}
  /\ call' = [call EXCEPT ![c] = [session |-> session, list |-> members[session]]]
  /\ UNCHANGED <<announcer, document, members, asked, visited>>

\* The change is delivered while no handler is registered.
Miss ==
  /\ session \in due /\ handled # session
  /\ due' = due \ {session}
  /\ UNCHANGED <<announcer, document, members, call, asked, visited>>

\* syncSessionNonces: nonces of absent players go, new players get a fresh one.
InUse(p) == {nonces[p], custom.nonces[p]} \cup {document[s].nonces[p] : s \in Sessions}

\* Mutant: every player gets a new nonce.
SyncAllAnew(list, new) == [p \in Players |-> IF p \in list THEN new[p] ELSE NoNonce]

SyncSessionNonces(list, new) ==
  [p \in Players |-> IF p \notin list THEN NoNonce
                     ELSE IF nonces[p] # NoNonce THEN nonces[p]
                     ELSE new[p]]

\* updateNonces gets the mutex too late: the session was replaced.
UpdateStale(c) ==
  /\ ~Locked /\ call[c] # Idle /\ call[c].session # session
  /\ call' = [call EXCEPT ![c] = Idle]
  /\ UNCHANGED <<announcer, directory, asked>>

\* updateNonces with the list the call has read.
UpdateUnchanged(c) ==
  /\ ~Locked /\ call[c] # Idle /\ call[c].session = session
  /\ \A p \in Players : p \in call[c].list <=> nonces[p] # NoNonce
  /\ call' = [call EXCEPT ![c] = Idle]
  /\ UNCHANGED <<announcer, directory, asked>>

\* Mutant: without the comparison of sessions under the mutex.
UpdateAnySession(c, outcome) ==
  /\ ~Locked /\ call[c] # Idle /\ session # NoSession
  /\ \E new \in [Players -> Nonces] :
       /\ \A p \in Players : new[p] \notin InUse(p)
       /\ nonces' = SyncSessionNonces(call[c].list, new)
  /\ SetCustomProperties([status |-> lastStatus, nonces |-> nonces'], outcome)
  /\ call' = [call EXCEPT ![c] = Idle]
  /\ UNCHANGED <<session, restriction, lastStatus, handled, publishing,
                 members, due, asked, visited>>

UpdateNonces(c, outcome) ==
  /\ ~Locked /\ call[c] # Idle /\ call[c].session = session
  /\ ~ \A p \in Players : p \in call[c].list <=> nonces[p] # NoNonce
  /\ \E new \in [Players -> Nonces] :
       /\ \A p \in Players : new[p] \notin InUse(p)
       /\ nonces' = SyncSessionNonces(call[c].list, new)
  /\ SetCustomProperties([status |-> lastStatus, nonces |-> nonces'], outcome)
  /\ call' = [call EXCEPT ![c] = Idle]
  /\ UNCHANGED <<session, restriction, lastStatus, handled, publishing,
                 members, due, asked, visited>>
-----------------------------------------------------------------------------
Announce(st) ==
  \/ AnnounceUnchanged(st)
  \/ \E outcome \in Outcomes : AnnounceChange(st, outcome)
  \/ \E s \in Sessions : AnnouncePublish(st, s)
  \/ AnnounceCloseFails(st)
  \/ AnnouncePublishFails(st)

Update(c) ==
  \/ UpdateStale(c)
  \/ UpdateUnchanged(c)
  \/ \E outcome \in Outcomes : UpdateNonces(c, outcome)

Next ==
  \/ \E st \in Statuses : Announce(st)
  \/ AnnouncePublished
  \/ \E outcome \in Outcomes : Hide(outcome)
  \/ \E p \in Players : Join(p) \/ Leave(p)
  \/ \E c \in Calls : Deliver(c) \/ Update(c)
  \/ Miss

Spec == Init /\ [][Next]_vars

\* An Announce that the directory answered.
AnnounceSucceeds ==
  \E st \in Statuses :
    \/ AnnounceUnchanged(st)
    \/ AnnounceChange(st, [applied |-> TRUE, ok |-> TRUE])
    \/ \E s \in Sessions : AnnouncePublish(st, s)

\* The status loop keeps announcing and the directory does not refuse for ever;
\* publications end, changes are delivered and handlers run.
Fairness ==
  /\ SF_vars(AnnounceSucceeds)
  /\ WF_vars(AnnouncePublished)
  /\ \A c \in Calls : WF_vars(Deliver(c)) /\ SF_vars(Update(c))
  /\ WF_vars(Miss)

FairSpec == Spec /\ Fairness
-----------------------------------------------------------------------------
TypeOK ==
  /\ session \in Sessions \cup {NoSession}
  /\ custom \in Documents
  /\ restriction \in Statuses \cup {NoStatus}
  /\ nonces \in NonceMaps
  /\ lastStatus \in AllStatuses \cup {NoStatus}
  /\ handled \in Sessions \cup {NoSession}
  /\ publishing \in Sessions \cup {NoSession}
  /\ document \in [Sessions -> Documents]
  /\ members \in [Sessions -> SUBSET Players]
  /\ due \in SUBSET Sessions
  /\ call \in [Calls -> [session : Sessions \cup {NoSession}, list : SUBSET Players]]
  /\ asked \in AllStatuses \cup {NoStatus}
  /\ visited \in [Sessions -> SUBSET Players]

\* A session's document never holds a nonce of a player that was not in that very
\* session: neither the map left by a replaced session (announcer.go:264) nor a
\* handler call that read the replaced session's list (announcer.go:312) leaks one.
NoncesOfVisitors ==
  \A s \in Sessions : \A p \in Players :
    document[s].nonces[p] # NoNonce => p \in visited[s]

\* While every answer arrives, what the announcer takes to be published is the
\* session's document, so an Announce it skips (announcer.go:224) was not needed.
\* Under Ambiguous it is not: an unconfirmed change can be skipped back.
CustomIsPublished ==
  session # NoSession /\ ~Locked /\ ~Ambiguous => document[session] = custom

\* What the directory shows of a session is its own, and known to its announcer.
DocumentIsTrue == NoncesOfVisitors /\ CustomIsPublished

\* Whoever writes the document, a member change after hide or after a failed
\* Announce included, its status is the one last asked for.
WritesAskedStatus ==
  [][\A s \in Sessions :
       document'[s] # document[s] /\ document'[s] # NoDocument
         => document'[s].status = asked']_vars

\* A player's published nonce stays as it is for as long as no list without the
\* player was read: clients hold on to the nonce they were given.
NonceIsStable ==
  [][\A p \in Players : \A s \in Sessions :
       /\ document[s].nonces[p] # NoNonce
       /\ nonces[p] = document[s].nonces[p]
       /\ \A c \in Calls : call[c].session = s => p \in call[c].list
       => document'[s] = NoDocument \/ document'[s].nonces[p] = document[s].nonces[p]]_vars

\* The handler is registered and the change of members is on its way to it.
Noticed(p) ==
  /\ session # NoSession /\ handled = session
  /\ p \in members[session]
  /\ session \in due

\* A player whose join was noticed gets a nonce in the published document, unless
\* the player leaves or the session is replaced first, also when the request of
\* the member change fails: the next Announce carries the map.
NoticedGetsNonce ==
  \A p \in Players : \A s \in Sessions :
    (s = session /\ Noticed(p)) ~>
      (session # s \/ p \notin members[s] \/ document[s].nonces[p] # NoNonce)
=============================================================================
