------------------------- MODULE SessionNoncesProofs -------------------------
(* What SessionNonces' run checks of the documents, for any players, sessions,
   nonces, statuses and handler calls, and whether or not a request whose answer
   is lost may have been applied.

   Every step is of one of four kinds: it writes the document of the session, it
   replaces the session, it confirms a publication, or it leaves the document and
   the map alone. What the kinds need is that the map holds nonces of players of
   the current session only, and so does the list of every handler call that may
   still be used. *)
EXTENDS SessionNonces, TLAPS

\* The status, and where the announcer is.
SessionInv ==
  /\ lastStatus = asked
  /\ session # NoSession => lastStatus \in AllStatuses
  /\ Locked => publishing = session /\ lastStatus \in Statuses
  /\ \A s \in Sessions : s # session => document[s] = NoDocument

\* What becomes a nonce is of a player that was in the session.
VisitInv ==
  /\ \A p \in Players : nonces[p] # NoNonce => session # NoSession /\ p \in visited[session]
  /\ \A s \in Sessions : members[s] \subseteq visited[s]
  /\ \A c \in Calls :
       session # NoSession /\ call[c].session = session => call[c].list \subseteq visited[session]
  /\ \A c \in Calls : call[c].session = NoSession => call[c] = Idle

\* What is published, and what is remembered of it.
DocumentInv ==
  /\ Locked => document[session] = [status |-> lastStatus, nonces |-> nonces]
  /\ CustomIsPublished

IInv == TypeOK /\ SessionInv /\ VisitInv /\ DocumentInv /\ NoncesOfVisitors

-----------------------------------------------------------------------------
\* The kinds of steps.
Stays == UNCHANGED <<session, publishing>>

CallsEndOrStay == \A c \in Calls : call'[c] = call[c] \/ call'[c] = Idle

KeepsListed ==
  \A p \in Players :
    nonces[p] # NoNonce /\ (\A c \in Calls : call[c].session = session => p \in call[c].list)
      => nonces'[p] = nonces[p]

Writes ==
  /\ ~Locked /\ session # NoSession /\ Stays
  /\ UNCHANGED <<members, visited>>
  /\ \E outcome \in Outcomes :
       SetCustomProperties([status |-> lastStatus', nonces |-> nonces'], outcome)
  /\ lastStatus' = asked' /\ lastStatus' \in AllStatuses
  /\ \A p \in Players : nonces'[p] # NoNonce => p \in visited[session]
  /\ CallsEndOrStay
  /\ KeepsListed

Replaces ==
  /\ ~Locked
  /\ session' # session \/ session' = NoSession
  /\ \A c \in Calls : session' # NoSession => call[c].session # session'
  /\ publishing' = session'
  /\ nonces' = NoNonces
  /\ document' = [t \in Sessions |->
       IF t = session' THEN [status |-> lastStatus', nonces |-> nonces'] ELSE NoDocument]
  /\ members' = [t \in Sessions |-> {}] /\ visited' = [t \in Sessions |-> {}]
  /\ lastStatus' = asked' /\ lastStatus' \in Statuses
  /\ UNCHANGED call

Confirms ==
  /\ Locked
  /\ custom' = [status |-> lastStatus, nonces |-> nonces]
  /\ publishing' = NoSession
  /\ UNCHANGED <<session, nonces, lastStatus, directory, call, asked>>

Leaves ==
  /\ Stays /\ UNCHANGED <<custom, nonces, document>>
  /\ lastStatus' = asked'
  /\ UNCHANGED lastStatus \/ (~Locked /\ lastStatus' \in AllStatuses)
  /\ \A s \in Sessions : visited[s] \subseteq visited'[s] /\ members'[s] \subseteq visited'[s]
  /\ \A c \in Calls :
       \/ call'[c] = call[c] \/ call'[c] = Idle
       \/ call'[c].session = session /\ session # NoSession
            /\ call'[c].list \subseteq visited[session]

(* The actions of a step, one disjunct each. *)
LEMMA Steps ==
  ASSUME [Next]_vars
  PROVE  \/ \E st \in Statuses : AnnounceUnchanged(st)
         \/ \E st \in Statuses : \E outcome \in Outcomes : AnnounceChange(st, outcome)
         \/ \E st \in Statuses : \E s \in Sessions : AnnouncePublish(st, s)
         \/ \E st \in Statuses : AnnounceCloseFails(st)
         \/ \E st \in Statuses : AnnouncePublishFails(st)
         \/ AnnouncePublished
         \/ \E outcome \in Outcomes : Hide(outcome)
         \/ \E p \in Players : Join(p)
         \/ \E p \in Players : Leave(p)
         \/ \E c \in Calls : Deliver(c)
         \/ Miss
         \/ \E c \in Calls : UpdateStale(c)
         \/ \E c \in Calls : UpdateUnchanged(c)
         \/ \E c \in Calls : \E outcome \in Outcomes : UpdateNonces(c, outcome)
         \/ UNCHANGED vars
BY DEF Next, Announce, Update

(* A status and its hidden form are statuses. *)
LEMMA StatusFacts == Statuses \subseteq AllStatuses /\ \A st \in AllStatuses : Hidden[st] \in AllStatuses
BY NoncesAssumption DEF AllStatuses, NoncesAssumption

\* A map that holds no nonce is the empty one.
LEMMA EmptyMap == IInv /\ session = NoSession => nonces = NoNonces
<1> SUFFICES ASSUME IInv, session = NoSession PROVE nonces = NoNonces
  OBVIOUS
<1>1. nonces \in [Players -> Nonces \cup {NoNonce}] /\ \A p \in Players : nonces[p] = NoNonce
  BY DEF IInv, TypeOK, NonceMaps, VisitInv
<1> QED
  BY <1>1 DEF NoNonces

\* The map after a handler's update.
LEMMA SyncIs ==
  ASSUME NEW list \in SUBSET Players, NEW new \in [Players -> Nonces], nonces \in NonceMaps
  PROVE  /\ SyncSessionNonces(list, new) \in NonceMaps
         /\ \A p \in Players : SyncSessionNonces(list, new)[p] # NoNonce => p \in list
         /\ \A p \in list : nonces[p] # NoNonce => SyncSessionNonces(list, new)[p] = nonces[p]
BY DEF SyncSessionNonces, NonceMaps

(* The kinds a step is of, by what it does to the document and the nonces. *)
LEMMA Kinds == IInv /\ [Next]_vars => Writes \/ Replaces \/ Confirms \/ Leaves
<1> SUFFICES ASSUME IInv, [Next]_vars PROVE Writes \/ Replaces \/ Confirms \/ Leaves
  OBVIOUS
<1>i. TypeOK /\ SessionInv /\ VisitInv
  BY DEF IInv
<1>s. session = NoSession \/ session \in Sessions
  BY <1>i DEF TypeOK
<1>1. ASSUME NEW st \in Statuses, AnnounceUnchanged(st) PROVE Leaves
  BY <1>i, <1>1, StatusFacts DEF AnnounceUnchanged, directory, VisitInv, Leaves, Stays
<1>2. ASSUME NEW st \in Statuses, NEW outcome \in Outcomes, AnnounceChange(st, outcome) PROVE Writes
  BY <1>i, <1>2, StatusFacts
    DEF AnnounceChange, VisitInv, Writes, Stays, CallsEndOrStay, KeepsListed
<1>3. ASSUME NEW st \in Statuses, NEW s \in Sessions, AnnouncePublish(st, s) PROVE Replaces
  <2>1. nonces' = NoNonces
    BY <1>3, EmptyMap DEF AnnouncePublish, ResetForRepublish
  <2> QED
    BY <1>3, <2>1, StatusFacts DEF AnnouncePublish, Fresh, Replaces
<1>4. ASSUME NEW st \in Statuses, AnnounceCloseFails(st) PROVE Leaves
  BY <1>i, <1>4, StatusFacts DEF AnnounceCloseFails, directory, VisitInv, Leaves, Stays
<1>5. ASSUME NEW st \in Statuses, AnnouncePublishFails(st) PROVE Replaces
  <2>1. nonces' = NoNonces
    BY <1>5, EmptyMap DEF AnnouncePublishFails, ResetForRepublish
  <2>2. document' = [t \in Sessions |->
          IF t = session' THEN [status |-> lastStatus', nonces |-> nonces'] ELSE NoDocument]
    BY <1>5, NoncesAssumption DEF AnnouncePublishFails, NoncesAssumption
  <2> QED
    BY <1>5, <2>1, <2>2, StatusFacts DEF AnnouncePublishFails, Locked, Replaces
<1>6. ASSUME AnnouncePublished PROVE Confirms
  BY <1>6 DEF AnnouncePublished, Confirms
<1>7. ASSUME NEW outcome \in Outcomes, Hide(outcome) PROVE Writes
  BY <1>i, <1>7, StatusFacts
    DEF Hide, SessionInv, VisitInv, Writes, Stays, CallsEndOrStay, KeepsListed
<1>8. ASSUME NEW p \in Players, Join(p) PROVE Leaves
  <2>1. members' = [members EXCEPT ![session] = @ \cup {p}]
        /\ visited' = [visited EXCEPT ![session] = @ \cup {p}]
    BY <1>8 DEF Join
  <2>2. \A s \in Sessions : visited[s] \subseteq visited'[s] /\ members'[s] \subseteq visited'[s]
    BY <1>i, <2>1 DEF TypeOK, VisitInv
  <2> QED
    BY <1>i, <1>8, <2>2 DEF Join, announcer, SessionInv, Leaves, Stays
<1>9. ASSUME NEW p \in Players, Leave(p) PROVE Leaves
  <2>1. members' = [members EXCEPT ![session] = @ \ {p}] /\ UNCHANGED visited
    BY <1>9 DEF Leave
  <2>2. \A s \in Sessions : visited[s] \subseteq visited'[s] /\ members'[s] \subseteq visited'[s]
    BY <1>i, <2>1 DEF TypeOK, VisitInv
  <2> QED
    BY <1>i, <1>9, <2>2 DEF Leave, announcer, SessionInv, Leaves, Stays
<1>10. ASSUME NEW c \in Calls, Deliver(c) PROVE Leaves
  <2>1. session \in Sessions /\ session # NoSession
    BY <1>i, <1>10, NoncesAssumption DEF Deliver, TypeOK, NoncesAssumption
  <2>2. call' = [call EXCEPT ![c] = [session |-> session, list |-> members[session]]]
    BY <1>10 DEF Deliver
  <2>3. \A d \in Calls :
          \/ call'[d] = call[d]
          \/ call'[d].session = session /\ call'[d].list \subseteq visited[session]
    <3>1. members[session] \subseteq visited[session]
      BY <1>i, <2>1 DEF VisitInv
    <3>2. call'[c] = [session |-> session, list |-> members[session]]
          /\ \A other \in Calls : other # c => call'[other] = call[other]
      BY <1>i, <2>2 DEF TypeOK
    <3>3. call'[c].session = session /\ call'[c].list = members[session]
      BY <3>2
    <3> TAKE d \in Calls
    <3>4. CASE d = c
      BY <3>1, <3>3, <3>4
    <3>5. CASE d # c
      BY <3>2, <3>5
    <3> QED
      BY <3>4, <3>5
  <2> QED
    BY <1>i, <1>10, <2>1, <2>3 DEF Deliver, announcer, SessionInv, VisitInv, Leaves, Stays
<1>11. ASSUME Miss PROVE Leaves
  BY <1>i, <1>11 DEF Miss, announcer, SessionInv, VisitInv, Leaves, Stays
<1>12. ASSUME NEW c \in Calls, UpdateStale(c) \/ UpdateUnchanged(c) PROVE Leaves
  BY <1>i, <1>12
    DEF UpdateStale, UpdateUnchanged, announcer, directory, TypeOK, SessionInv, VisitInv, Leaves, Stays
<1>13. ASSUME NEW c \in Calls, NEW outcome \in Outcomes, UpdateNonces(c, outcome) PROVE Writes
  <2>1. PICK new \in [Players -> Nonces] : nonces' = SyncSessionNonces(call[c].list, new)
    BY <1>13 DEF UpdateNonces
  <2>2. call[c].list \in SUBSET Players /\ nonces \in NonceMaps
    BY <1>i DEF TypeOK
  <2>3. call[c].session = session /\ session # NoSession
    BY <1>13, <1>i DEF UpdateNonces, VisitInv
  <2>4. \A p \in Players : nonces'[p] # NoNonce => p \in visited[session]
    BY <1>i, <2>1, <2>2, <2>3, SyncIs DEF VisitInv
  <2>5. KeepsListed
    BY <2>1, <2>2, <2>3, SyncIs DEF KeepsListed
  <2>6. lastStatus' = asked' /\ lastStatus' \in AllStatuses
    BY <1>13, <1>i, <2>3 DEF UpdateNonces, SessionInv
  <2>7. CallsEndOrStay
    BY <1>13, <1>i DEF UpdateNonces, TypeOK, CallsEndOrStay
  <2> QED
    BY <1>13, <2>3, <2>4, <2>5, <2>6, <2>7 DEF UpdateNonces, Writes, Stays
<1>14. CASE UNCHANGED vars
  BY <1>i, <1>14 DEF vars, SessionInv, VisitInv, Leaves, Stays
<1> QED
  BY <1>1, <1>2, <1>3, <1>4, <1>5, <1>6, <1>7, <1>8, <1>9, <1>10, <1>11, <1>12, <1>13, <1>14, Steps

-----------------------------------------------------------------------------
(* The document of a session that was never written holds no nonce. *)
LEMMA EmptyDocument == \A p \in Players : NoDocument.nonces[p] = NoNonce
BY DEF NoDocument, NoNonces

\* What a request leaves in the directory.
LEMMA RequestIs ==
  ASSUME TypeOK, session \in Sessions, NEW doc, NEW outcome \in Outcomes,
         SetCustomProperties(doc, outcome)
  PROVE  /\ \A s \in Sessions : s # session => document'[s] = document[s]
         /\ document'[session] = doc \/ UNCHANGED document
         /\ ~Ambiguous => \/ document'[session] = doc /\ custom' = doc
                          \/ UNCHANGED <<document, custom>>
<1>1. document \in [Sessions -> Documents]
  BY DEF TypeOK
<1>2. outcome = [applied |-> TRUE, ok |-> TRUE] \/ outcome = [applied |-> FALSE, ok |-> FALSE]
      \/ (Ambiguous /\ outcome = [applied |-> TRUE, ok |-> FALSE])
  BY DEF Outcomes
<1>3. CASE outcome = [applied |-> TRUE, ok |-> TRUE]
  BY <1>1, <1>3 DEF SetCustomProperties
<1>4. CASE outcome = [applied |-> FALSE, ok |-> FALSE]
  BY <1>1, <1>4 DEF SetCustomProperties
<1>5. CASE Ambiguous /\ outcome = [applied |-> TRUE, ok |-> FALSE]
  BY <1>1, <1>5 DEF SetCustomProperties
<1> QED
  BY <1>2, <1>3, <1>4, <1>5

(* A write of the document keeps the invariant. *)
LEMMA WritesKeep == IInv /\ Writes => SessionInv' /\ VisitInv' /\ DocumentInv' /\ NoncesOfVisitors'
<1> SUFFICES ASSUME IInv, Writes PROVE SessionInv' /\ VisitInv' /\ DocumentInv' /\ NoncesOfVisitors'
  OBVIOUS
<1>i. TypeOK /\ SessionInv /\ VisitInv /\ DocumentInv /\ NoncesOfVisitors
  BY DEF IInv
<1>s. session \in Sessions /\ session' = session /\ publishing' = publishing /\ ~Locked /\ ~Locked'
  BY <1>i DEF Writes, Stays, TypeOK, Locked
<1> DEFINE doc == [status |-> lastStatus', nonces |-> nonces']
<1>1. PICK outcome \in Outcomes : SetCustomProperties(doc, outcome)
  BY DEF Writes
<1>2. /\ \A s \in Sessions : s # session => document'[s] = document[s]
      /\ document'[session] = doc \/ UNCHANGED document
      /\ ~Ambiguous => \/ document'[session] = doc /\ custom' = doc
                       \/ UNCHANGED <<document, custom>>
  BY <1>i, <1>s, <1>1, RequestIs
<1>3. doc.nonces = nonces'
  OBVIOUS
<1> HIDE DEF doc
<1>4. SessionInv'
  BY <1>i, <1>s, <1>2 DEF SessionInv, Writes
<1>5. VisitInv'
  <2>1. ASSUME NEW p \in Players, nonces'[p] # NoNonce PROVE session' # NoSession /\ p \in visited'[session']
    BY <1>s, <2>1 DEF Writes
  <2>2. \A s \in Sessions : members'[s] \subseteq visited'[s]
    BY <1>i DEF VisitInv, Writes
  <2>3. ASSUME NEW c \in Calls
        PROVE  /\ session' # NoSession /\ call'[c].session = session' => call'[c].list \subseteq visited'[session']
               /\ call'[c].session = NoSession => call'[c] = Idle
    <3>1. call'[c] = call[c] \/ call'[c] = Idle
      BY DEF Writes, CallsEndOrStay
    <3>2. UNCHANGED <<session, visited>> /\ Idle.session = NoSession
      BY <1>s DEF Writes, Idle
    <3> QED
      BY <1>i, <3>1, <3>2 DEF VisitInv
  <2> QED
    BY <2>1, <2>2, <2>3 DEF VisitInv
<1>6. DocumentInv'
  BY <1>i, <1>s, <1>2 DEF DocumentInv, CustomIsPublished
<1>7. NoncesOfVisitors'
  <2> SUFFICES ASSUME NEW s \in Sessions, NEW p \in Players, document'[s].nonces[p] # NoNonce
               PROVE  p \in visited'[s]
    BY DEF NoncesOfVisitors
  <2>1. CASE UNCHANGED document \/ s # session
    BY <1>i, <1>2, <2>1 DEF Writes, NoncesOfVisitors
  <2>2. CASE s = session /\ document'[session] = doc
    BY <1>3, <2>2 DEF Writes
  <2> QED
    BY <1>2, <2>1, <2>2
<1> QED
  BY <1>4, <1>5, <1>6, <1>7

(* A session that is replaced keeps the invariant. *)
LEMMA ReplacesKeep ==
  IInv /\ TypeOK' /\ Replaces => SessionInv' /\ VisitInv' /\ DocumentInv' /\ NoncesOfVisitors'
<1> SUFFICES ASSUME IInv, TypeOK', Replaces
             PROVE  SessionInv' /\ VisitInv' /\ DocumentInv' /\ NoncesOfVisitors'
  OBVIOUS
<1>i. TypeOK /\ VisitInv
  BY DEF IInv
<1>0. \A p \in Players : NoNonces[p] = NoNonce
  BY DEF NoNonces
<1>1. SessionInv'
  BY StatusFacts DEF Replaces, SessionInv
<1>2. VisitInv'
  BY <1>i, <1>0 DEF Replaces, VisitInv
<1>3. NoncesOfVisitors'
  <2> SUFFICES ASSUME NEW s \in Sessions, NEW p \in Players, document'[s].nonces[p] # NoNonce
               PROVE  FALSE
    BY DEF NoncesOfVisitors
  <2>1. document'[s] = [status |-> lastStatus', nonces |-> NoNonces] \/ document'[s] = NoDocument
    BY DEF Replaces
  <2> QED
    BY <1>0, <2>1, EmptyDocument
<1>4. DocumentInv'
  BY DEF Replaces, TypeOK, DocumentInv, CustomIsPublished, Locked
<1> QED
  BY <1>1, <1>2, <1>3, <1>4

(* A publication that is confirmed keeps the invariant. *)
LEMMA ConfirmsKeep ==
  IInv /\ Confirms => SessionInv' /\ VisitInv' /\ DocumentInv' /\ NoncesOfVisitors'
<1> SUFFICES ASSUME IInv, Confirms
             PROVE  SessionInv' /\ VisitInv' /\ DocumentInv' /\ NoncesOfVisitors'
  OBVIOUS
<1>i. SessionInv /\ VisitInv /\ DocumentInv /\ NoncesOfVisitors
  BY DEF IInv
<1>1. UNCHANGED <<session, nonces, lastStatus, document, members, visited, call, asked>>
      /\ ~Locked' /\ Locked /\ custom' = [status |-> lastStatus, nonces |-> nonces]
  BY DEF Confirms, directory, Locked
<1>2. SessionInv'
  BY <1>i, <1>1 DEF SessionInv
<1>3. VisitInv'
  BY <1>i, <1>1 DEF VisitInv
<1>4. DocumentInv'
  BY <1>i, <1>1 DEF DocumentInv, CustomIsPublished
<1>5. NoncesOfVisitors'
  BY <1>i, <1>1 DEF NoncesOfVisitors
<1> QED
  BY <1>2, <1>3, <1>4, <1>5

(* What leaves document and nonces alone keeps the invariant. *)
LEMMA LeavesKeep ==
  IInv /\ Leaves => SessionInv' /\ VisitInv' /\ DocumentInv' /\ NoncesOfVisitors'
<1> SUFFICES ASSUME IInv, Leaves
             PROVE  SessionInv' /\ VisitInv' /\ DocumentInv' /\ NoncesOfVisitors'
  OBVIOUS
<1>i. TypeOK /\ SessionInv /\ VisitInv /\ DocumentInv /\ NoncesOfVisitors
  BY DEF IInv
<1>1. UNCHANGED <<session, publishing, custom, nonces, document>> /\ (Locked' <=> Locked)
  BY DEF Leaves, Stays, Locked
<1>2. \A s \in Sessions : visited[s] \subseteq visited'[s] /\ members'[s] \subseteq visited'[s]
  BY DEF Leaves
<1>3. session = NoSession \/ session \in Sessions
  BY <1>i DEF TypeOK
<1>4. SessionInv'
  BY <1>i, <1>1 DEF SessionInv, Leaves
<1>5. VisitInv'
  <2>1. ASSUME NEW c \in Calls
        PROVE  /\ session' # NoSession /\ call'[c].session = session' => call'[c].list \subseteq visited'[session']
               /\ call'[c].session = NoSession => call'[c] = Idle
    <3>1. \/ call'[c] = call[c] \/ call'[c] = Idle
          \/ call'[c].session = session /\ session # NoSession /\ call'[c].list \subseteq visited[session]
      BY DEF Leaves
    <3>2. Idle.session = NoSession
      BY DEF Idle
    <3> QED
      BY <1>i, <1>1, <1>2, <1>3, <3>1, <3>2 DEF VisitInv
  <2> QED
    BY <1>i, <1>1, <1>2, <1>3, <2>1 DEF VisitInv
<1>6. DocumentInv'
  BY <1>i, <1>1 DEF DocumentInv, CustomIsPublished, Leaves
<1>7. NoncesOfVisitors'
  BY <1>i, <1>1, <1>2 DEF NoncesOfVisitors
<1> QED
  BY <1>4, <1>5, <1>6, <1>7

-----------------------------------------------------------------------------
(* The documents built from nonce maps are documents. *)
LEMMA MapTypes ==
  /\ NoNonces \in NonceMaps
  /\ NoDocument \in Documents
  /\ \A st \in AllStatuses, map \in NonceMaps : [status |-> st, nonces |-> map] \in Documents
BY DEF NoNonces, NonceMaps, NoDocument, Documents

(* A request to set the properties leaves documents behind, whatever its
   outcome. *)
LEMMA RequestTypes ==
  ASSUME TypeOK, NEW doc \in Documents, NEW outcome, SetCustomProperties(doc, outcome)
  PROVE  custom' \in Documents /\ document' \in [Sessions -> Documents]
BY DEF TypeOK, SetCustomProperties

\* Steps keep the types.
LEMMA TypeStep == IInv /\ [Next]_vars => TypeOK'
<1> SUFFICES ASSUME IInv, [Next]_vars PROVE TypeOK'
  OBVIOUS
<1>i. TypeOK /\ (session # NoSession => lastStatus \in AllStatuses) /\ lastStatus = asked
      /\ (Locked => publishing = session /\ lastStatus \in Statuses)
      /\ (\A c \in Calls : call[c].session = NoSession => call[c] = Idle)
  BY DEF IInv, SessionInv, VisitInv
<1>1. ASSUME NEW st \in Statuses, AnnounceUnchanged(st) PROVE TypeOK'
  BY <1>i, <1>1, StatusFacts DEF AnnounceUnchanged, directory, TypeOK
<1>2. ASSUME NEW st \in Statuses, NEW outcome \in Outcomes, AnnounceChange(st, outcome) PROVE TypeOK'
  <2>1. [status |-> st, nonces |-> nonces] \in Documents
    BY <1>i, MapTypes, StatusFacts DEF TypeOK
  <2>2. custom' \in Documents /\ document' \in [Sessions -> Documents]
    BY <1>i, <1>2, <2>1, RequestTypes DEF AnnounceChange
  <2> QED
    BY <1>i, <1>2, <2>2, StatusFacts DEF AnnounceChange, TypeOK
<1>3. ASSUME NEW st \in Statuses, NEW s \in Sessions, AnnouncePublish(st, s) PROVE TypeOK'
  <2>1. nonces' \in NonceMaps /\ custom' \in Documents
        /\ restriction' \in Statuses \cup {NoStatus} /\ handled' \in Sessions \cup {NoSession}
    BY <1>i, <1>3, MapTypes DEF AnnouncePublish, ResetForRepublish, TypeOK
  <2>2. document' \in [Sessions -> Documents]
    BY <1>3, <2>1, MapTypes, StatusFacts DEF AnnouncePublish
  <2> QED
    BY <1>i, <1>3, <2>1, <2>2, StatusFacts DEF AnnouncePublish, TypeOK
<1>4. ASSUME NEW st \in Statuses, AnnounceCloseFails(st) PROVE TypeOK'
  BY <1>i, <1>4, StatusFacts DEF AnnounceCloseFails, directory, TypeOK
<1>5. ASSUME NEW st \in Statuses, AnnouncePublishFails(st) PROVE TypeOK'
  <2>1. nonces' \in NonceMaps /\ custom' \in Documents
        /\ restriction' \in Statuses \cup {NoStatus} /\ handled' \in Sessions \cup {NoSession}
    BY <1>i, <1>5, MapTypes DEF AnnouncePublishFails, ResetForRepublish, TypeOK
  <2>2. document' \in [Sessions -> Documents]
    BY <1>5, MapTypes DEF AnnouncePublishFails
  <2> QED
    BY <1>i, <1>5, <2>1, <2>2, StatusFacts DEF AnnouncePublishFails, TypeOK
<1>6. ASSUME AnnouncePublished PROVE TypeOK'
  <2>1. lastStatus \in Statuses
    BY <1>i, <1>6 DEF AnnouncePublished
  <2> QED
    BY <1>i, <1>6, <2>1, StatusFacts, MapTypes DEF AnnouncePublished, directory, TypeOK
<1>7. ASSUME NEW outcome \in Outcomes, Hide(outcome) PROVE TypeOK'
  <2>1. lastStatus' \in AllStatuses /\ asked' \in AllStatuses
    BY <1>i, <1>7, StatusFacts DEF Hide
  <2>2. custom' \in Documents /\ document' \in [Sessions -> Documents]
    BY <1>i, <1>7, <2>1, RequestTypes, MapTypes DEF Hide, TypeOK
  <2> QED
    BY <1>i, <1>7, <2>1, <2>2 DEF Hide, TypeOK
<1>8. ASSUME NEW p \in Players, Join(p) \/ Leave(p) PROVE TypeOK'
  <2>1. session \in Sessions
    BY <1>i, <1>8 DEF Join, Leave, TypeOK
  <2>2. members' \in [Sessions -> SUBSET Players] /\ visited' \in [Sessions -> SUBSET Players]
    BY <1>i, <1>8, <2>1 DEF Join, Leave, TypeOK
  <2> QED
    BY <1>i, <1>8, <2>1, <2>2 DEF Join, Leave, announcer, TypeOK
<1>9. ASSUME NEW c \in Calls, Deliver(c) PROVE TypeOK'
  <2>1. session \in Sessions
    BY <1>i, <1>9 DEF Deliver, TypeOK
  <2>2. [session |-> session, list |-> members[session]] \in [session : Sessions \cup {NoSession}, list : SUBSET Players]
    BY <1>i, <2>1 DEF TypeOK
  <2>3. call' \in [Calls -> [session : Sessions \cup {NoSession}, list : SUBSET Players]]
    BY <1>i, <1>9, <2>2 DEF Deliver, TypeOK
  <2> QED
    BY <1>i, <1>9, <2>1, <2>3 DEF Deliver, announcer, TypeOK
<1>10. ASSUME Miss PROVE TypeOK'
  BY <1>i, <1>10 DEF Miss, announcer, TypeOK
<1>c. ASSUME NEW c \in Calls, call' = [call EXCEPT ![c] = Idle]
      PROVE  call' \in [Calls -> [session : Sessions \cup {NoSession}, list : SUBSET Players]]
  <2>1. Idle \in [session : Sessions \cup {NoSession}, list : SUBSET Players]
    BY DEF Idle
  <2> QED
    BY <1>i, <1>c, <2>1 DEF TypeOK
<1>11. ASSUME NEW c \in Calls, UpdateStale(c) \/ UpdateUnchanged(c) PROVE TypeOK'
  BY <1>i, <1>11, <1>c DEF UpdateStale, UpdateUnchanged, announcer, directory, TypeOK
<1>12. ASSUME NEW c \in Calls, NEW outcome \in Outcomes, UpdateNonces(c, outcome) PROVE TypeOK'
  <2>1. nonces' \in NonceMaps
    <3>1. call[c].list \in SUBSET Players
      BY <1>i DEF TypeOK
    <3>2. PICK new \in [Players -> Nonces] : nonces' = SyncSessionNonces(call[c].list, new)
      BY <1>12 DEF UpdateNonces
    <3>3. nonces \in NonceMaps
      BY <1>i DEF TypeOK
    <3> QED
      BY <3>1, <3>2, <3>3, SyncIs
  <2>2. [status |-> lastStatus, nonces |-> nonces'] \in Documents
    BY <1>i, <1>12, <2>1, MapTypes DEF UpdateNonces
  <2>3. UNCHANGED lastStatus
    BY <1>12 DEF UpdateNonces
  <2>4. custom' \in Documents /\ document' \in [Sessions -> Documents]
    BY <1>i, <1>12, <2>2, <2>3, RequestTypes DEF UpdateNonces
  <2> QED
    BY <1>i, <1>12, <1>c, <2>1, <2>4 DEF UpdateNonces, TypeOK
<1>13. CASE UNCHANGED vars
  BY <1>i, <1>13 DEF vars, TypeOK
<1> QED
  BY <1>1, <1>2, <1>3, <1>4, <1>5, <1>6, <1>7, <1>8, <1>9, <1>10, <1>11, <1>12, <1>13, Steps

-----------------------------------------------------------------------------
(* Every step keeps the inductive invariant. *)
LEMMA InvStep == IInv /\ [Next]_vars => IInv'
BY TypeStep, Kinds, WritesKeep, ReplacesKeep, ConfirmsKeep, LeavesKeep DEF IInv

(* The inductive invariant holds in every reachable state of the announcer
   and its nonces. *)
THEOREM Inductive == Spec => []IInv
<1>1. Init => IInv
  <2> SUFFICES ASSUME Init PROVE IInv
    OBVIOUS
  <2>1. TypeOK
    <3>1. Idle \in [session : Sessions \cup {NoSession}, list : SUBSET Players]
      BY DEF Idle
    <3> QED
      BY <3>1, MapTypes DEF Init, TypeOK
  <2>2. ~Locked
    BY DEF Init, Locked
  <2>3. SessionInv
    BY <2>2 DEF Init, SessionInv
  <2>4. VisitInv
    BY DEF Init, VisitInv, NoNonces
  <2>5. DocumentInv
    BY <2>2 DEF Init, DocumentInv, CustomIsPublished
  <2>6. NoncesOfVisitors
    BY EmptyDocument DEF Init, NoncesOfVisitors
  <2> QED
    BY <2>1, <2>3, <2>4, <2>5, <2>6 DEF IInv
<1> QED
  BY <1>1, InvStep, PTL DEF Spec

\* What the directory shows of a session is its own: nonces of players that were in
\* it, and while answers arrive, what the announcer takes it to be.
THEOREM DocumentTrue == Spec => []DocumentIsTrue
<1>1. IInv => DocumentIsTrue
  BY DEF IInv, DocumentInv, DocumentIsTrue
<1> QED
  BY <1>1, Inductive, PTL

\* Every document that is written has the status last asked for.
THEOREM AskedStatusWritten == Spec => WritesAskedStatus
<1> DEFINE A == \A s \in Sessions :
       document'[s] # document[s] /\ document'[s] # NoDocument => document'[s].status = asked'
<1>1. IInv /\ [Next]_vars => A
  <2> SUFFICES ASSUME IInv, [Next]_vars, NEW s \in Sessions,
                      document'[s] # document[s], document'[s] # NoDocument
               PROVE  document'[s].status = asked'
    OBVIOUS
  <2>1. CASE Writes
    <3> DEFINE doc == [status |-> lastStatus', nonces |-> nonces']
    <3>1. PICK outcome \in Outcomes : SetCustomProperties(doc, outcome)
      BY <2>1 DEF Writes
    <3>2. session \in Sessions /\ TypeOK
      BY <2>1 DEF Writes, IInv, TypeOK
    <3>3. document'[s] = doc
      BY <3>1, <3>2, RequestIs
    <3> QED
      BY <2>1, <3>3 DEF Writes
  <2>2. CASE Replaces
    BY <2>2 DEF Replaces
  <2>3. CASE Confirms \/ Leaves
    BY <2>3 DEF Confirms, directory, Leaves
  <2> QED
    BY <2>1, <2>2, <2>3, Kinds
<1> QED
  BY <1>1, Inductive, PTL DEF Spec, WritesAskedStatus

\* A published nonce stays for as long as no list without its player was read.
THEOREM NonceStable == Spec => NonceIsStable
<1> DEFINE A == \A p \in Players : \A s \in Sessions :
       /\ document[s].nonces[p] # NoNonce
       /\ nonces[p] = document[s].nonces[p]
       /\ \A c \in Calls : call[c].session = s => p \in call[c].list
       => document'[s] = NoDocument \/ document'[s].nonces[p] = document[s].nonces[p]
<1>1. IInv /\ [Next]_vars => A
  <2> SUFFICES ASSUME IInv, [Next]_vars, NEW p \in Players, NEW s \in Sessions,
                      document[s].nonces[p] # NoNonce, nonces[p] = document[s].nonces[p],
                      \A c \in Calls : call[c].session = s => p \in call[c].list
               PROVE  document'[s] = NoDocument \/ document'[s].nonces[p] = document[s].nonces[p]
    OBVIOUS
  <2>i. s = session
    BY EmptyDocument DEF IInv, SessionInv
  <2>1. CASE Writes
    <3> DEFINE doc == [status |-> lastStatus', nonces |-> nonces']
    <3>1. PICK outcome \in Outcomes : SetCustomProperties(doc, outcome)
      BY <2>1 DEF Writes
    <3>2. document'[s] = doc \/ UNCHANGED document
      BY <2>i, <3>1, RequestIs DEF IInv
    <3>3. nonces'[p] = nonces[p]
      BY <2>i, <2>1 DEF Writes, KeepsListed
    <3> QED
      BY <3>2, <3>3
  <2>2. CASE Replaces
    BY <2>i, <2>2, NoncesAssumption DEF Replaces, NoncesAssumption
  <2>3. CASE Confirms \/ Leaves
    BY <2>3 DEF Confirms, directory, Leaves
  <2> QED
    BY <2>1, <2>2, <2>3, Kinds
<1> QED
  BY <1>1, Inductive, PTL DEF Spec, NonceIsStable
=============================================================================
