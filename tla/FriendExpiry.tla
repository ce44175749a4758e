---------------------------- MODULE FriendExpiry ----------------------------
(* Which friends a scan removes for inactivity: the scan of syncWithOptions with
   expire and pruneHistory, the history file it shares with the join relay, and
   the friend count. When passes run, and what Xbox's delays do to them, is the
   subject of FriendSync; here a pass may run at any time.

   Time is counted in ticks, as the age of each fact: Window ticks of inactivity
   make a friend expire, and an age stops at Window + 1. A store operation loads
   the file and saves it under the store's mutex, in two steps. *)
EXTENDS Naturals, FiniteSets

CONSTANTS
  Players,
  Guests,   \* players with a guest XUID
  Window,   \* ticks in friendSync.expiry.days
  MaxDrift, \* bound: how far the count may run ahead of the friends
  NoOne,    \* no player
  Never     \* the age of what never happened

ASSUME ExpiryAssumption ==
  /\ Guests \subseteq Players
  /\ IsFiniteSet(Players)
  /\ Window \in Nat /\ MaxDrift \in Nat
  /\ NoOne \notin Players
  /\ Never \notin Nat

Ages == 0 .. Window + 1
Actors == {"sync", "relay"}
Histories == [Players -> Ages \cup {Never}]
NoHistory == [p \in Players |-> Never]

VARIABLES
  friends,  \* Xbox: the account's friends
  history,  \* the file: the age of each player's entry
  busy,     \* the actors that hold the store's mutex, of "sync" and "relay"
  loaded,   \* what each of them has loaded
  pc,       \* the pass: its next step
  who,      \* the pass: the friend it is at
  listed,   \* the pass: the friends it has listed
  left,     \* the pass: the friends, or entries, it has still to look at
  joined,   \* the relay: the player whose join it records
  count,    \* friendCount.friends
  counted,  \* whether countedAt is set
  quiet,    \* history: the age of each player's last join or friendship
  unsaved,  \* history: the players whose last join or friendship could not be recorded
  grounds,  \* history: whether the friend being removed was inactive when read
  drift     \* history: whether friends changed without the count's knowledge

store == <<history, busy, loaded>>
pass == <<pc, who, listed, left>>
counts == <<count, counted>>
truth == <<quiet, unsaved, grounds, drift>>
vars == <<friends, history, busy, loaded, pc, who, listed, left, joined,
          count, counted, quiet, unsaved, grounds, drift>>

Init ==
  /\ friends \in SUBSET Players
  /\ history = NoHistory
  /\ busy = {} /\ loaded = [actor \in Actors |-> NoHistory]
  /\ pc = "idle" /\ who = NoOne /\ listed = {} /\ left = {}
  /\ joined = NoOne
  /\ count = 0 /\ counted = FALSE
  /\ quiet = [p \in Players |-> 0]
  /\ unsaved = Players
  /\ grounds = TRUE /\ drift = FALSE

Goto(step) == pc' = step /\ UNCHANGED <<who, listed, left>>

EndPass == pc' = "idle" /\ who' = NoOne /\ listed' = {} /\ left' = {}
-----------------------------------------------------------------------------
\* The store. load takes the mutex, save releases it, and a failure of either
\* leaves the file as it was.
Free == busy = {}

Load(actor) ==
  /\ Free /\ actor \notin busy
  /\ busy' = busy \cup {actor}
  /\ loaded' = [loaded EXCEPT ![actor] = history]
  /\ UNCHANGED history

Unlock(actor) ==
  /\ actor \in busy
  /\ busy' = busy \ {actor}
  /\ loaded' = [loaded EXCEPT ![actor] = NoHistory]

Save(actor, p, age) ==
  /\ Unlock(actor)
  /\ history' = [loaded[actor] EXCEPT ![p] = age]

StoreFails(actor) == Unlock(actor) /\ UNCHANGED history
-----------------------------------------------------------------------------
\* Time passes. A join is recorded within the tick it happens in.
Older(age) == IF age \in 0 .. Window THEN age + 1 ELSE age

Tick ==
  /\ Free /\ joined = NoOne /\ pc # "record"
  /\ history' = [p \in Players |-> Older(history[p])]
  /\ quiet' = [p \in Players |-> Older(quiet[p])]
  /\ UNCHANGED <<friends, busy, loaded, pass, joined, counts, unsaved, grounds, drift>>

\* A friendship ends, or begins, without the syncer.
BelowMaxDrift == count < Cardinality(friends) + MaxDrift

Unfriended(p) ==
  /\ p \in friends /\ BelowMaxDrift
  /\ friends' = friends \ {p} /\ drift' = TRUE
  /\ UNCHANGED <<store, pass, joined, counts, quiet, unsaved, grounds>>

Befriended(p) ==
  /\ p \notin friends
  /\ friends' = friends \cup {p} /\ drift' = TRUE
  /\ quiet' = [quiet EXCEPT ![p] = 0]
  /\ unsaved' = unsaved \cup {p}
  /\ UNCHANGED <<store, pass, joined, counts, grounds>>

\* recordJoin: the relay has answered a join and records it.
Join(p) ==
  /\ joined = NoOne
  /\ joined' = p
  /\ quiet' = [quiet EXCEPT ![p] = 0]
  /\ UNCHANGED <<friends, store, pass, counts, unsaved, grounds, drift>>

JoinLoads ==
  /\ joined # NoOne /\ Load("relay")
  /\ UNCHANGED <<friends, pass, joined, counts, truth>>

JoinSaves ==
  /\ Save("relay", joined, 0)
  /\ joined' = NoOne
  /\ unsaved' = unsaved \ {joined}
  /\ UNCHANGED <<friends, pass, counts, quiet, grounds, drift>>

JoinUnsaved ==
  /\ StoreFails("relay")
  /\ joined' = NoOne
  /\ unsaved' = unsaved \cup {joined}
  /\ UNCHANGED <<friends, pass, counts, quiet, grounds, drift>>
-----------------------------------------------------------------------------
\* friendCount.add ignores a count that is not known yet.
CountAdds == count' = (IF counted THEN count + 1 ELSE count) /\ UNCHANGED counted
CountRemoves ==
  /\ count' = IF counted /\ count > 0 THEN count - 1 ELSE count
  /\ UNCHANGED counted

Begin ==
  /\ pc = "idle"
  /\ Goto("accept")
  /\ UNCHANGED <<friends, store, joined, counts, truth>>

\* The pass adds a friend (added): the expiry clock starts.
Add(p) ==
  /\ pc = "accept" /\ p \notin friends
  /\ friends' = friends \cup {p}
  /\ CountAdds
  /\ quiet' = [quiet EXCEPT ![p] = 0]
  /\ unsaved' = unsaved \ {p}
  /\ pc' = "record" /\ who' = p
  /\ UNCHANGED <<store, listed, left, joined, grounds, drift>>

\* Seen, for a new friend or (in expire) for one without an entry.
Recording == {"record", "first"}
AfterRecording == IF pc = "record" THEN "accept" ELSE "scan"

RecordLoads ==
  /\ pc \in Recording /\ Load("sync")
  /\ UNCHANGED <<friends, pass, joined, counts, truth>>

\* Mutant: an entry that is there already is not renewed.
RecordFirstOnly ==
  /\ pc \in Recording
  /\ Save("sync", who, IF loaded["sync"][who] = Never THEN 0 ELSE loaded["sync"][who])
  /\ unsaved' = unsaved \ {who}
  /\ Goto(AfterRecording)
  /\ UNCHANGED <<friends, joined, counts, quiet, grounds, drift>>

RecordSaves ==
  /\ pc \in Recording /\ Save("sync", who, 0)
  /\ unsaved' = unsaved \ {who}
  /\ Goto(AfterRecording)
  /\ UNCHANGED <<friends, joined, counts, quiet, grounds, drift>>

RecordFails ==
  /\ pc \in Recording /\ StoreFails("sync")
  /\ unsaved' = unsaved \cup {who}
  /\ Goto(AfterRecording)
  /\ UNCHANGED <<friends, joined, counts, quiet, grounds, drift>>

\* The friends are listed for the scan, which removes nobody while removals are
\* limited, or for the count alone.
ListFriends(expire, remove) ==
  /\ pc = "accept" /\ (expire \/ ~counted)
  /\ count' = Cardinality(friends) /\ counted' = TRUE
  /\ drift' = FALSE
  /\ IF expire
       THEN pc' = "scan" /\ listed' = friends /\ UNCHANGED who
            /\ left' = IF remove THEN friends \ Guests ELSE {}
       ELSE EndPass
  /\ UNCHANGED <<friends, store, joined, quiet, unsaved, grounds>>

\* The pass has nothing to list for, or cannot.
EndsUnlisted ==
  /\ pc = "accept"
  /\ EndPass
  /\ UNCHANGED <<friends, store, joined, counts, truth>>

\* expire reads the clock of one friend, and decides.
Expired(age) == age > Window

\* Mutant: the clock of a friend without an entry is not started.
ReadLastSeenOnly(p) ==
  /\ pc = "scan" /\ p \in left /\ Free
  /\ who' = p /\ left' = left \ {p}
  /\ pc' = IF history[p] # Never /\ Expired(history[p]) THEN "remove" ELSE "scan"
  /\ grounds' = (quiet[p] > Window \/ p \in unsaved \/ joined = p)
  /\ UNCHANGED <<friends, store, listed, joined, counts, quiet, unsaved, drift>>

ReadLastSeen(p) ==
  /\ pc = "scan" /\ p \in left /\ Free
  /\ who' = p /\ left' = left \ {p}
  /\ pc' = CASE history[p] = Never -> "first"
             [] history[p] # Never /\ Expired(history[p]) -> "remove"
             [] OTHER -> "scan"
  /\ grounds' = (quiet[p] > Window \/ p \in unsaved \/ joined = p)
  /\ UNCHANGED <<friends, store, listed, joined, counts, quiet, unsaved, drift>>

ReadFails(p) ==
  /\ pc = "scan" /\ p \in left /\ Free
  /\ left' = left \ {p}
  /\ UNCHANGED <<friends, store, pc, who, listed, joined, counts, truth>>

RemoveFriend ==
  /\ pc = "remove"
  /\ friends' = friends \ {who}
  /\ drift' = (drift \/ who \notin friends)
  /\ CountRemoves
  /\ Goto("clear")
  /\ UNCHANGED <<store, joined, quiet, unsaved, grounds>>

\* Refused, perhaps with a delay that ends the scan, or unanswered.
RemoveFails(applied, limited) ==
  /\ pc = "remove" /\ (applied => BelowMaxDrift)
  /\ friends' = IF applied THEN friends \ {who} ELSE friends
  /\ drift' = (drift \/ applied)
  /\ pc' = "scan" /\ left' = (IF limited THEN {} ELSE left)
  /\ UNCHANGED <<store, who, listed, joined, counts, quiet, unsaved, grounds>>

\* pruneHistory reads the entries; those of the friends listed before stay.
ListHistory ==
  /\ pc = "scan" /\ left = {} /\ Free
  /\ left' = {p \in Players : history[p] # Never} \ listed
  /\ pc' = "prune"
  /\ UNCHANGED <<friends, store, who, listed, joined, counts, truth>>

PruneFails ==
  /\ pc = "scan" /\ left = {} /\ Free
  /\ EndPass
  /\ UNCHANGED <<friends, store, joined, counts, truth>>

Prune(p) ==
  /\ pc = "prune" /\ p \in left
  /\ who' = p /\ left' = left \ {p} /\ pc' = "unlist"
  /\ UNCHANGED <<friends, store, listed, joined, counts, truth>>

\* Clear, after a removal or for an entry of a player who is no friend.
Clearing == {"clear", "unlist"}
AfterClearing == IF pc = "clear" THEN "scan" ELSE "prune"

ClearLoads ==
  /\ pc \in Clearing /\ Load("sync")
  /\ UNCHANGED <<friends, pass, joined, counts, truth>>

ClearSaves ==
  /\ pc \in Clearing /\ Save("sync", who, Never)
  /\ Goto(AfterClearing)
  /\ UNCHANGED <<friends, joined, counts, truth>>

ClearFails ==
  /\ pc \in Clearing /\ StoreFails("sync")
  /\ Goto(AfterClearing)
  /\ UNCHANGED <<friends, joined, counts, truth>>

PassEnds ==
  /\ pc = "prune" /\ left = {}
  /\ EndPass
  /\ UNCHANGED <<friends, store, joined, counts, truth>>

\* Shutdown is noticed between two friends: the pass ends there, the last one.
Cancelled ==
  /\ pc = "scan" /\ left # {}
  /\ Goto("stopped")
  /\ UNCHANGED <<friends, store, joined, counts, truth>>
-----------------------------------------------------------------------------
Relay == (\E p \in Players : Join(p)) \/ JoinLoads \/ JoinSaves \/ JoinUnsaved

Scan ==
  \/ \E p \in Players : ReadLastSeen(p) \/ ReadFails(p) \/ Prune(p)
  \/ RemoveFriend \/ \E applied, limited \in BOOLEAN : RemoveFails(applied, limited)
  \/ ListHistory \/ PruneFails
  \/ ClearLoads \/ ClearSaves \/ ClearFails
  \/ PassEnds \/ Cancelled

Sync ==
  \/ Begin \/ (\E p \in Players : Add(p))
  \/ RecordLoads \/ RecordSaves \/ RecordFails
  \/ (\E expire, remove \in BOOLEAN : ListFriends(expire, remove)) \/ EndsUnlisted
  \/ Scan

Next ==
  \/ Tick
  \/ \E p \in Players : Unfriended(p) \/ Befriended(p)
  \/ Relay
  \/ Sync

Spec == Init /\ [][Next]_vars

\* Passes go on, and the store and Xbox do not fail every time.
Fairness ==
  /\ WF_vars(Tick)
  /\ SF_vars(JoinLoads) /\ WF_vars(JoinSaves \/ JoinUnsaved)
  /\ WF_vars(Begin) /\ SF_vars(RecordLoads) /\ SF_vars(ListFriends(TRUE, TRUE))
  /\ SF_vars(RecordSaves) /\ SF_vars(ClearLoads) /\ SF_vars(ClearSaves)
  /\ SF_vars(RemoveFriend) /\ SF_vars(ListHistory) /\ WF_vars(PassEnds)
  /\ \A p \in Players : SF_vars(ReadLastSeen(p)) /\ SF_vars(Prune(p))

FairSpec == Spec /\ Fairness
-----------------------------------------------------------------------------
TypeOK ==
  /\ friends \in SUBSET Players
  /\ history \in Histories /\ loaded \in [Actors -> Histories]
  /\ busy \in SUBSET Actors
  /\ pc \in {"idle", "accept", "record", "scan", "first", "remove", "clear", "prune", "unlist", "stopped"}
  /\ who \in Players \cup {NoOne} /\ joined \in Players \cup {NoOne}
  /\ listed \in SUBSET Players /\ left \in SUBSET Players
  /\ count \in Nat /\ counted \in BOOLEAN
  /\ quiet \in [Players -> Ages]
  /\ unsaved \in SUBSET Players
  /\ grounds \in BOOLEAN /\ drift \in BOOLEAN

\* A friend about to be removed had neither joined nor become a friend within the
\* window when the clock was read, or the store had failed to record it: no entry
\* is lost to a concurrent write, and no stale one survives a new friendship.
RemovalsAreGrounded == pc = "remove" => grounds

\* Between passes a known count is exact, unless friends changed elsewhere or a
\* removal went unanswered since the last list.
CountIsExact == pc = "idle" /\ counted /\ ~drift => count = Cardinality(friends)

\* What the syncer takes from the store and the friend list is so: the inactivity
\* it removes for and the number it reports.
RecordsAreTrue == RemovalsAreGrounded /\ CountIsExact

\* A friend who stays away is removed in the end, also one without an entry.
InactiveAreRemoved ==
  \A p \in Players \ Guests :
    (p \in friends /\ quiet[p] > Window) ~>
      (p \notin friends \/ quiet[p] = 0 \/ pc = "stopped")

\* Entries of players who are no friends go, so that the file does not grow.
HistoryIsPruned ==
  \A p \in Players :
    (p \notin friends /\ history[p] # Never) ~>
      (p \in friends \/ history[p] = Never \/ joined = p \/ pc = "stopped")

\* Scans get somewhere, whatever fails in one of them: friends who stay away go, and
\* so do the entries of players who are no friends (friend_sync.go:386, 431).
ScansConverge == InactiveAreRemoved /\ HistoryIsPruned
=============================================================================
