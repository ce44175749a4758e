------------------------- MODULE FriendExpiryProofs -------------------------
(* What FriendExpiry's run checks of the records, for any number of players: the
   friends chosen for removal were inactive when their clock was read, and the
   friend count is exact.

   The first rests on the store's mutex: whoever has loaded the file has what is
   in it still, so a save changes one entry. An entry is then never older than the
   player's last join or friendship, but while that is being recorded or could not
   be. *)
EXTENDS FriendExpiry, FiniteSetTheorems, TLAPS

\* The parts of TypeOK.
FilesOK == history \in Histories /\ loaded \in [Actors -> Histories] /\ busy \in SUBSET Actors

PassOK ==
  /\ pc \in {"idle", "accept", "record", "scan", "first", "remove", "clear", "prune", "unlist", "stopped"}
  /\ who \in Players \cup {NoOne} /\ joined \in Players \cup {NoOne}
  /\ listed \in SUBSET Players /\ left \in SUBSET Players

FactsOK ==
  /\ friends \in SUBSET Players
  /\ quiet \in [Players -> Ages]
  /\ unsaved \in SUBSET Players
  /\ grounds \in BOOLEAN /\ drift \in BOOLEAN

NumberOK == count \in Nat /\ counted \in BOOLEAN

\* Where the pass has a friend in hand, and the relay a join.
HandInv ==
  /\ pc \in {"record", "first", "remove", "clear", "unlist"} => who \in Players
  /\ "relay" \in busy => joined \in Players
  /\ "sync" \in busy => pc \in {"record", "first", "clear", "unlist"}

\* The store is one actor's, who has loaded what is in the file.
StoreInv ==
  /\ \A actor, other \in busy : actor = other
  /\ \A actor \in busy : loaded[actor] = history

\* The last join or friendship of a player is recorded.
Recorded(p) == p \notin unsaved /\ joined # p /\ (pc = "record" => who # p)
ClockInv == \A p \in Players : Recorded(p) /\ history[p] # Never => history[p] <= quiet[p]

CountInv == counted /\ ~drift => count = Cardinality(friends)

IInv == TypeOK /\ HandInv /\ StoreInv /\ ClockInv /\ RemovalsAreGrounded /\ CountInv

-----------------------------------------------------------------------------
(* The actions of a step, one disjunct each. *)
LEMMA Steps ==
  ASSUME [Next]_vars
  PROVE  \/ Tick
         \/ \E p \in Players : Unfriended(p)
         \/ \E p \in Players : Befriended(p)
         \/ \E p \in Players : Join(p)
         \/ JoinLoads
         \/ JoinSaves
         \/ JoinUnsaved
         \/ Begin
         \/ \E p \in Players : Add(p)
         \/ RecordLoads
         \/ RecordSaves
         \/ RecordFails
         \/ \E e, r \in BOOLEAN : ListFriends(e, r)
         \/ EndsUnlisted
         \/ \E p \in Players : ReadLastSeen(p)
         \/ \E p \in Players : ReadFails(p)
         \/ \E p \in Players : Prune(p)
         \/ RemoveFriend
         \/ \E e, r \in BOOLEAN : RemoveFails(e, r)
         \/ ListHistory
         \/ PruneFails
         \/ ClearLoads
         \/ ClearSaves
         \/ ClearFails
         \/ PassEnds
         \/ Cancelled
         \/ UNCHANGED vars
BY DEF Next, Relay, Sync, Scan

(* An age that grows stays within the bound, and what was never stays
   never. *)
LEMMA OlderIs ==
  ASSUME NEW age \in Ages \cup {Never}
  PROVE  Older(age) \in Ages \cup {Never} /\ (age \in Ages => Older(age) \in Ages)
BY ExpiryAssumption DEF Older, Ages, ExpiryAssumption

\* Older keeps two ages in order.
LEMMA OlderKeeps ==
  ASSUME NEW age \in Ages, NEW other \in Ages \cup {Never}, other # Never => other <= age
  PROVE  Older(other) # Never => other # Never /\ Older(other) <= Older(age)
BY ExpiryAssumption DEF Older, Ages, ExpiryAssumption

\* Steps keep the types: of the store,
LEMMA FilesStep == IInv /\ [Next]_vars => FilesOK'
<1> SUFFICES ASSUME IInv, [Next]_vars PROVE FilesOK'
  OBVIOUS
<1>i. TypeOK /\ HandInv /\ ExpiryAssumption
  BY ExpiryAssumption DEF IInv
<1>1. ASSUME Tick PROVE FilesOK'
  BY <1>i, <1>1, OlderIs DEF Tick, Free, Histories, pass, counts, FilesOK, TypeOK, ExpiryAssumption
<1>2. ASSUME JoinLoads PROVE FilesOK'
  BY <1>i, <1>2
    DEF JoinLoads, Free, Load, Actors, Histories, Ages, FilesOK, TypeOK, ExpiryAssumption
<1>3. ASSUME JoinSaves PROVE FilesOK'
  <2>1. loaded["relay"] \in Histories /\ 0 \in Ages /\ NoHistory \in Histories
    BY <1>i DEF TypeOK, Actors, Ages, NoHistory, Histories, ExpiryAssumption
  <2>2. busy' = busy \ {"relay"} /\ loaded' = [loaded EXCEPT !["relay"] = NoHistory]
    BY <1>3 DEF JoinSaves, Save, Unlock
  <2>3. PICK p : history' = [loaded["relay"] EXCEPT ![p] = 0]
    BY <1>3 DEF JoinSaves, Save
  <2>4. history' \in Histories
    BY <2>1, <2>3 DEF Histories
  <2>5. loaded' \in [Actors -> Histories] /\ busy' \in SUBSET Actors
    BY <1>i, <2>1, <2>2 DEF TypeOK
  <2> QED
    BY <2>4, <2>5 DEF FilesOK
<1>4. ASSUME JoinUnsaved PROVE FilesOK'
  BY <1>i, <1>4
    DEF JoinUnsaved, Unlock, StoreFails, Actors, Histories, NoHistory, Ages, FilesOK, TypeOK,
      ExpiryAssumption
<1>5. ASSUME RecordLoads PROVE FilesOK'
  BY <1>i, <1>5
    DEF RecordLoads, Free, Load, Recording, Actors, Histories, Ages, FilesOK, TypeOK,
      ExpiryAssumption
<1>6. ASSUME RecordSaves PROVE FilesOK'
  <2>1. loaded["sync"] \in Histories /\ 0 \in Ages /\ NoHistory \in Histories
    BY <1>i DEF TypeOK, Actors, Ages, NoHistory, Histories, ExpiryAssumption
  <2>2. busy' = busy \ {"sync"} /\ loaded' = [loaded EXCEPT !["sync"] = NoHistory]
    BY <1>6 DEF RecordSaves, Save, Unlock
  <2>3. PICK p : history' = [loaded["sync"] EXCEPT ![p] = 0]
    BY <1>6 DEF RecordSaves, Save
  <2>4. history' \in Histories
    BY <2>1, <2>3 DEF Histories
  <2>5. loaded' \in [Actors -> Histories] /\ busy' \in SUBSET Actors
    BY <1>i, <2>1, <2>2 DEF TypeOK
  <2> QED
    BY <2>4, <2>5 DEF FilesOK
<1>7. ASSUME RecordFails PROVE FilesOK'
  BY <1>i, <1>7
    DEF RecordFails, Unlock, StoreFails, Recording, AfterRecording, Actors, Histories,
      NoHistory, Ages, FilesOK, TypeOK, ExpiryAssumption
<1>8. ASSUME ClearLoads PROVE FilesOK'
  BY <1>i, <1>8
    DEF ClearLoads, Free, Load, Clearing, Actors, Histories, Ages, FilesOK, TypeOK,
      ExpiryAssumption
<1>9. ASSUME ClearSaves PROVE FilesOK'
  BY <1>i, <1>9
    DEF ClearSaves, Unlock, Save, Clearing, AfterClearing, Actors, Histories, NoHistory, Ages,
      FilesOK, TypeOK, ExpiryAssumption
<1>10. ASSUME ClearFails PROVE FilesOK'
  BY <1>i, <1>10
    DEF ClearFails, Unlock, StoreFails, Clearing, AfterClearing, Actors, Histories, NoHistory,
      Ages, FilesOK, TypeOK, ExpiryAssumption
<1>11. CASE UNCHANGED vars
  BY <1>i, <1>11 DEF vars, store, FilesOK, TypeOK, ExpiryAssumption
<1>12. CASE
    \/ \E p \in Players : Unfriended(p)
    \/ \E p \in Players : Befriended(p)
    \/ \E p \in Players : Join(p)
    \/ Begin
    \/ \E p \in Players : Add(p)
    \/ \E e, r \in BOOLEAN : ListFriends(e, r)
    \/ EndsUnlisted
    \/ \E p \in Players : ReadLastSeen(p)
    \/ \E p \in Players : ReadFails(p)
    \/ \E p \in Players : Prune(p)
    \/ RemoveFriend
    \/ \E e, r \in BOOLEAN : RemoveFails(e, r)
    \/ ListHistory
    \/ PruneFails
    \/ PassEnds
    \/ Cancelled
  BY <1>i, <1>12 DEF Unfriended, Befriended, Join, Begin, Add, ListFriends, EndsUnlisted,
       ReadLastSeen, ReadFails, Prune, RemoveFriend, RemoveFails, ListHistory, PruneFails,
       PassEnds, Cancelled,
    store, FilesOK, TypeOK, ExpiryAssumption
<1> QED
  BY <1>1, <1>2, <1>3, <1>4, <1>5, <1>6, <1>7, <1>8, <1>9, <1>10, <1>11, <1>12, Steps

\* of the pass,
LEMMA PassStep == IInv /\ [Next]_vars => PassOK'
<1> SUFFICES ASSUME IInv, [Next]_vars PROVE PassOK'
  OBVIOUS
<1>i. TypeOK /\ HandInv /\ ExpiryAssumption
  BY ExpiryAssumption DEF IInv
<1>1. ASSUME NEW e \in BOOLEAN, NEW r \in BOOLEAN, ListFriends(e, r) PROVE PassOK'
  BY <1>i, <1>1 DEF ListFriends, EndPass, store, PassOK, TypeOK, ExpiryAssumption
<1>2. CASE UNCHANGED vars
  BY <1>i, <1>2 DEF vars, pass, Goto, EndPass, AfterRecording, AfterClearing, HandInv, PassOK,
       TypeOK, ExpiryAssumption
<1>3. CASE
    \/ Tick
    \/ \E p \in Players : Unfriended(p)
    \/ \E p \in Players : Befriended(p)
    \/ \E p \in Players : Join(p)
    \/ JoinLoads
    \/ JoinSaves
    \/ JoinUnsaved
    \/ Begin
    \/ \E p \in Players : Add(p)
    \/ RecordLoads
    \/ RecordSaves
    \/ RecordFails
    \/ EndsUnlisted
    \/ \E p \in Players : ReadLastSeen(p)
    \/ \E p \in Players : ReadFails(p)
    \/ \E p \in Players : Prune(p)
    \/ RemoveFriend
    \/ \E e, r \in BOOLEAN : RemoveFails(e, r)
    \/ ListHistory
    \/ PruneFails
    \/ ClearLoads
    \/ ClearSaves
    \/ ClearFails
    \/ PassEnds
    \/ Cancelled
  BY <1>i, <1>3 DEF Tick, Unfriended, Befriended, Join, JoinLoads, JoinSaves, JoinUnsaved,
       Begin, Add, RecordLoads, RecordSaves, RecordFails, EndsUnlisted, ReadLastSeen, ReadFails,
       Prune, RemoveFriend, RemoveFails, ListHistory, PruneFails, ClearLoads, ClearSaves,
       ClearFails, PassEnds, Cancelled,
    pass, Goto, EndPass, AfterRecording, AfterClearing, HandInv, PassOK, TypeOK, ExpiryAssumption
<1> QED
  BY <1>1, <1>2, <1>3, Steps

\* of what is the case,
LEMMA FactsStep == IInv /\ [Next]_vars => FactsOK'
<1> SUFFICES ASSUME IInv, [Next]_vars PROVE FactsOK'
  OBVIOUS
<1>i. TypeOK /\ HandInv /\ ExpiryAssumption
  BY ExpiryAssumption DEF IInv
<1>1. ASSUME Tick PROVE FactsOK'
  BY <1>i, <1>1, OlderIs DEF Tick, Free, Ages, pass, counts, FactsOK, TypeOK, ExpiryAssumption
<1>2. ASSUME NEW p \in Players, Befriended(p) PROVE FactsOK'
  BY <1>i, <1>2 DEF Befriended, Ages, HandInv, FactsOK, TypeOK, ExpiryAssumption
<1>3. ASSUME NEW p \in Players, Join(p) PROVE FactsOK'
  BY <1>i, <1>3 DEF Join, Ages, HandInv, FactsOK, TypeOK, ExpiryAssumption
<1>4. ASSUME NEW p \in Players, Add(p) PROVE FactsOK'
  BY <1>i, <1>4 DEF Add, Ages, HandInv, FactsOK, TypeOK, ExpiryAssumption
<1>5. ASSUME JoinSaves PROVE FactsOK'
  BY <1>i, <1>5 DEF JoinSaves, Ages, HandInv, Unlock, Save, FactsOK, TypeOK, ExpiryAssumption
<1>6. ASSUME JoinUnsaved PROVE FactsOK'
  BY <1>i, <1>6
    DEF JoinUnsaved, Ages, HandInv, StoreFails, Unlock, FactsOK, TypeOK, ExpiryAssumption
<1>7. ASSUME RecordSaves PROVE FactsOK'
  BY <1>i, <1>7
    DEF RecordSaves, Ages, HandInv, Recording, Unlock, Save, FactsOK, TypeOK, ExpiryAssumption
<1>8. ASSUME RecordFails PROVE FactsOK'
  BY <1>i, <1>8
    DEF RecordFails, Ages, HandInv, Recording, StoreFails, Unlock, FactsOK, TypeOK,
      ExpiryAssumption
<1>9. ASSUME NEW p \in Players, ReadLastSeen(p) PROVE FactsOK'
  BY <1>i, <1>9 DEF ReadLastSeen, Ages, HandInv, FactsOK, TypeOK, ExpiryAssumption
<1>10. CASE UNCHANGED vars
  BY <1>i, <1>10 DEF vars, truth, FactsOK, TypeOK, ExpiryAssumption
<1>11. CASE
    \/ \E p \in Players : Unfriended(p)
    \/ JoinLoads
    \/ Begin
    \/ RecordLoads
    \/ \E e, r \in BOOLEAN : ListFriends(e, r)
    \/ EndsUnlisted
    \/ \E p \in Players : ReadFails(p)
    \/ \E p \in Players : Prune(p)
    \/ RemoveFriend
    \/ \E e, r \in BOOLEAN : RemoveFails(e, r)
    \/ ListHistory
    \/ PruneFails
    \/ ClearLoads
    \/ ClearSaves
    \/ ClearFails
    \/ PassEnds
    \/ Cancelled
  BY <1>i, <1>11 DEF Unfriended, JoinLoads, Begin, RecordLoads, ListFriends, EndsUnlisted,
       ReadFails, Prune, RemoveFriend, RemoveFails, ListHistory, PruneFails, ClearLoads,
       ClearSaves, ClearFails, PassEnds, Cancelled,
    truth, FactsOK, TypeOK, ExpiryAssumption
<1> QED
  BY <1>1, <1>2, <1>3, <1>4, <1>5, <1>6, <1>7, <1>8, <1>9, <1>10, <1>11, Steps

\* and of the count.
LEMMA NumberStep == IInv /\ [Next]_vars => NumberOK'
<1> SUFFICES ASSUME IInv, [Next]_vars PROVE NumberOK'
  OBVIOUS
<1>i. TypeOK /\ HandInv /\ ExpiryAssumption
  BY ExpiryAssumption DEF IInv
<1>1. ASSUME NEW p \in Players, Add(p) PROVE NumberOK'
  BY <1>i, <1>1 DEF Add, CountAdds, NumberOK, TypeOK, ExpiryAssumption
<1>2. ASSUME RemoveFriend PROVE NumberOK'
  BY <1>i, <1>2 DEF RemoveFriend, CountRemoves, NumberOK, TypeOK, ExpiryAssumption
<1>3. ASSUME NEW e \in BOOLEAN, NEW r \in BOOLEAN, ListFriends(e, r) PROVE NumberOK'
  BY <1>i, <1>3, FS_Subset, FS_CardinalityType
    DEF ListFriends, EndPass, store, NumberOK, TypeOK, ExpiryAssumption
<1>4. CASE UNCHANGED vars
  BY <1>i, <1>4 DEF vars, counts, NumberOK, TypeOK, ExpiryAssumption
<1>5. CASE
    \/ Tick
    \/ \E p \in Players : Unfriended(p)
    \/ \E p \in Players : Befriended(p)
    \/ \E p \in Players : Join(p)
    \/ JoinLoads
    \/ JoinSaves
    \/ JoinUnsaved
    \/ Begin
    \/ RecordLoads
    \/ RecordSaves
    \/ RecordFails
    \/ EndsUnlisted
    \/ \E p \in Players : ReadLastSeen(p)
    \/ \E p \in Players : ReadFails(p)
    \/ \E p \in Players : Prune(p)
    \/ \E e, r \in BOOLEAN : RemoveFails(e, r)
    \/ ListHistory
    \/ PruneFails
    \/ ClearLoads
    \/ ClearSaves
    \/ ClearFails
    \/ PassEnds
    \/ Cancelled
  BY <1>i, <1>5 DEF Tick, Unfriended, Befriended, Join, JoinLoads, JoinSaves, JoinUnsaved,
       Begin, RecordLoads, RecordSaves, RecordFails, EndsUnlisted, ReadLastSeen, ReadFails,
       Prune, RemoveFails, ListHistory, PruneFails, ClearLoads, ClearSaves, ClearFails,
       PassEnds, Cancelled,
    counts, NumberOK, TypeOK, ExpiryAssumption
<1> QED
  BY <1>1, <1>2, <1>3, <1>4, <1>5, Steps

(* Every step keeps the types, put together from the four parts above. *)
LEMMA TypeStep == IInv /\ [Next]_vars => TypeOK'
BY FilesStep, PassStep, FactsStep, NumberStep DEF TypeOK, FilesOK, PassOK, FactsOK, NumberOK

\* Steps keep what is in hand.
LEMMA HandStep == IInv /\ [Next]_vars => HandInv'
<1> SUFFICES ASSUME IInv, [Next]_vars PROVE HandInv'
  OBVIOUS
<1>i. TypeOK /\ HandInv /\ NoOne \notin Players
  BY ExpiryAssumption DEF IInv, ExpiryAssumption
<1>1. ASSUME NEW p \in Players, Join(p) PROVE HandInv'
  BY <1>i, <1>1 DEF Join, Actors, pass, store, HandInv, TypeOK
<1>2. ASSUME JoinLoads PROVE HandInv'
  BY <1>i, <1>2 DEF JoinLoads, Free, Load, Actors, pass, HandInv, TypeOK
<1>3. ASSUME JoinSaves PROVE HandInv'
  BY <1>i, <1>3 DEF JoinSaves, Unlock, Save, Actors, pass, HandInv, TypeOK
<1>4. ASSUME JoinUnsaved PROVE HandInv'
  BY <1>i, <1>4 DEF JoinUnsaved, Unlock, StoreFails, Actors, pass, HandInv, TypeOK
<1>5. ASSUME RecordLoads PROVE HandInv'
  BY <1>i, <1>5 DEF RecordLoads, Free, Load, Recording, Actors, pass, HandInv, TypeOK
<1>6. ASSUME RecordSaves PROVE HandInv'
  BY <1>i, <1>6
    DEF RecordSaves, Unlock, Save, Recording, AfterRecording, Goto, Actors, HandInv, TypeOK
<1>7. ASSUME RecordFails PROVE HandInv'
  BY <1>i, <1>7
    DEF RecordFails, Unlock, StoreFails, Recording, AfterRecording, Goto, Actors, HandInv,
      TypeOK
<1>8. ASSUME NEW p \in Players, ReadLastSeen(p) PROVE HandInv'
  BY <1>i, <1>8 DEF ReadLastSeen, Free, Actors, store, HandInv, TypeOK
<1>9. ASSUME ClearLoads PROVE HandInv'
  BY <1>i, <1>9 DEF ClearLoads, Free, Load, Clearing, Actors, pass, HandInv, TypeOK
<1>10. ASSUME ClearSaves PROVE HandInv'
  BY <1>i, <1>10
    DEF ClearSaves, Unlock, Save, Clearing, AfterClearing, Goto, Actors, HandInv, TypeOK
<1>11. ASSUME ClearFails PROVE HandInv'
  BY <1>i, <1>11
    DEF ClearFails, Unlock, StoreFails, Clearing, AfterClearing, Goto, Actors, HandInv, TypeOK
<1>12. ASSUME NEW p \in Players, Add(p) PROVE HandInv'
  BY <1>i, <1>12 DEF Add, store, HandInv, TypeOK
<1>13. CASE UNCHANGED vars
  BY <1>i, <1>13 DEF vars, pass, store, Goto, EndPass, Free, HandInv, TypeOK
<1>14. CASE
    \/ Tick
    \/ \E p \in Players : Unfriended(p)
    \/ \E p \in Players : Befriended(p)
    \/ Begin
    \/ \E e, r \in BOOLEAN : ListFriends(e, r)
    \/ EndsUnlisted
    \/ \E p \in Players : ReadFails(p)
    \/ \E p \in Players : Prune(p)
    \/ RemoveFriend
    \/ \E e, r \in BOOLEAN : RemoveFails(e, r)
    \/ ListHistory
    \/ PruneFails
    \/ PassEnds
    \/ Cancelled
  BY <1>i, <1>14 DEF Tick, Unfriended, Befriended, Begin, ListFriends, EndsUnlisted, ReadFails,
       Prune, RemoveFriend, RemoveFails, ListHistory, PruneFails, PassEnds, Cancelled,
    pass, store, Goto, EndPass, Free, HandInv, TypeOK
<1> QED
  BY <1>1, <1>2, <1>3, <1>4, <1>5, <1>6, <1>7, <1>8, <1>9, <1>10, <1>11, <1>12, <1>13, <1>14, Steps

\* Steps keep the store one actor's, and what it has loaded up to date.
LEMMA StoreStep == IInv /\ [Next]_vars => StoreInv'
<1> SUFFICES ASSUME IInv, [Next]_vars PROVE StoreInv'
  OBVIOUS
<1>i. TypeOK /\ StoreInv
  BY DEF IInv
<1>1. ASSUME Tick PROVE StoreInv'
  BY <1>i, <1>1 DEF Tick, Free, Actors, Histories, StoreInv, TypeOK
<1>2. ASSUME JoinLoads PROVE StoreInv'
  BY <1>i, <1>2 DEF JoinLoads, Free, Load, Actors, Histories, StoreInv, TypeOK
<1>3. ASSUME JoinSaves PROVE StoreInv'
  BY <1>i, <1>3 DEF JoinSaves, Unlock, Save, Actors, Histories, StoreInv, TypeOK
<1>4. ASSUME JoinUnsaved PROVE StoreInv'
  BY <1>i, <1>4 DEF JoinUnsaved, Unlock, StoreFails, Actors, Histories, StoreInv, TypeOK
<1>5. ASSUME RecordLoads PROVE StoreInv'
  BY <1>i, <1>5 DEF RecordLoads, Free, Load, Recording, Actors, Histories, StoreInv, TypeOK
<1>6. ASSUME RecordSaves PROVE StoreInv'
  BY <1>i, <1>6
    DEF RecordSaves, Unlock, Save, Recording, AfterRecording, Actors, Histories, StoreInv,
      TypeOK
<1>7. ASSUME RecordFails PROVE StoreInv'
  BY <1>i, <1>7
    DEF RecordFails, Unlock, StoreFails, Recording, AfterRecording, Actors, Histories, StoreInv,
      TypeOK
<1>8. ASSUME ClearLoads PROVE StoreInv'
  BY <1>i, <1>8 DEF ClearLoads, Free, Load, Clearing, Actors, Histories, StoreInv, TypeOK
<1>9. ASSUME ClearSaves PROVE StoreInv'
  BY <1>i, <1>9
    DEF ClearSaves, Unlock, Save, Clearing, AfterClearing, Actors, Histories, StoreInv, TypeOK
<1>10. ASSUME ClearFails PROVE StoreInv'
  BY <1>i, <1>10
    DEF ClearFails, Unlock, StoreFails, Clearing, AfterClearing, Actors, Histories, StoreInv,
      TypeOK
<1>11. CASE UNCHANGED vars
  BY <1>i, <1>11 DEF vars, store, StoreInv, TypeOK
<1>12. CASE
    \/ \E p \in Players : Unfriended(p)
    \/ \E p \in Players : Befriended(p)
    \/ \E p \in Players : Join(p)
    \/ Begin
    \/ \E p \in Players : Add(p)
    \/ \E e, r \in BOOLEAN : ListFriends(e, r)
    \/ EndsUnlisted
    \/ \E p \in Players : ReadLastSeen(p)
    \/ \E p \in Players : ReadFails(p)
    \/ \E p \in Players : Prune(p)
    \/ RemoveFriend
    \/ \E e, r \in BOOLEAN : RemoveFails(e, r)
    \/ ListHistory
    \/ PruneFails
    \/ PassEnds
    \/ Cancelled
  BY <1>i, <1>12 DEF Unfriended, Befriended, Join, Begin, Add, ListFriends, EndsUnlisted,
       ReadLastSeen, ReadFails, Prune, RemoveFriend, RemoveFails, ListHistory, PruneFails,
       PassEnds, Cancelled,
    store, StoreInv, TypeOK
<1> QED
  BY <1>1, <1>2, <1>3, <1>4, <1>5, <1>6, <1>7, <1>8, <1>9, <1>10, <1>11, <1>12, Steps

\* An entry that is not older than what it records does not become so.
LEMMA ClockStep == IInv /\ [Next]_vars => ClockInv'
<1> SUFFICES ASSUME IInv, [Next]_vars PROVE ClockInv'
  OBVIOUS
<1>i. TypeOK /\ HandInv /\ StoreInv /\ ClockInv /\ ExpiryAssumption
  BY ExpiryAssumption DEF IInv
<1>1. ASSUME Tick PROVE ClockInv'
  BY <1>i, <1>1, OlderIs, OlderKeeps
    DEF Tick, Free, Ages, Histories, pass, counts, ClockInv, Recorded, TypeOK
<1>2. ASSUME NEW p \in Players, Befriended(p) PROVE ClockInv'
  BY <1>i, <1>2
    DEF Befriended, store, pass, Actors, Histories, HandInv, StoreInv, Ages, ExpiryAssumption,
      ClockInv, Recorded, TypeOK
<1>3. ASSUME NEW p \in Players, Join(p) PROVE ClockInv'
  BY <1>i, <1>3
    DEF Join, store, pass, Actors, Histories, HandInv, StoreInv, Ages, ExpiryAssumption,
      ClockInv, Recorded, TypeOK
<1>4. ASSUME JoinSaves PROVE ClockInv'
  BY <1>i, <1>4
    DEF JoinSaves, Unlock, Save, pass, Actors, Histories, HandInv, StoreInv, Ages,
      ExpiryAssumption, ClockInv, Recorded, TypeOK
<1>5. ASSUME JoinUnsaved PROVE ClockInv'
  BY <1>i, <1>5
    DEF JoinUnsaved, Unlock, StoreFails, pass, Actors, Histories, HandInv, StoreInv, Ages,
      ExpiryAssumption, ClockInv, Recorded, TypeOK
<1>6. ASSUME NEW p \in Players, Add(p) PROVE ClockInv'
  BY <1>i, <1>6
    DEF Add, store, Actors, Histories, HandInv, StoreInv, Ages, ExpiryAssumption, ClockInv,
      Recorded, TypeOK
<1>7. ASSUME RecordSaves PROVE ClockInv'
  BY <1>i, <1>7
    DEF RecordSaves, Unlock, Save, Recording, AfterRecording, Goto, Actors, Histories, HandInv,
      StoreInv, Ages, ExpiryAssumption, ClockInv, Recorded, TypeOK
<1>8. ASSUME RecordFails PROVE ClockInv'
  BY <1>i, <1>8
    DEF RecordFails, Unlock, StoreFails, Recording, AfterRecording, Goto, Actors, Histories,
      HandInv, StoreInv, Ages, ExpiryAssumption, ClockInv, Recorded, TypeOK
<1>9. ASSUME ClearSaves PROVE ClockInv'
  <2>1. who \in Players /\ history' = [history EXCEPT ![who] = Never]
    BY <1>i, <1>9 DEF ClearSaves, Clearing, Save, Unlock, HandInv, StoreInv
  <2>2. pc # "record" /\ pc' # "record" /\ UNCHANGED <<joined, quiet, unsaved>>
    BY <1>9 DEF ClearSaves, Clearing, AfterClearing, Goto, truth
  <2>3. ASSUME NEW p \in Players, Recorded(p)', history'[p] # Never PROVE history'[p] <= quiet'[p]
    <3>1. Recorded(p)
      BY <2>2, <2>3 DEF Recorded
    <3>2. history'[p] = history[p]
      BY <1>i, <2>1, <2>3 DEF TypeOK, Histories
    <3> QED
      BY <1>i, <2>2, <2>3, <3>1, <3>2 DEF ClockInv
  <2> QED
    BY <2>3 DEF ClockInv
<1>10. ASSUME NEW p \in Players, ReadLastSeen(p) PROVE ClockInv'
  BY <1>i, <1>10
    DEF ReadLastSeen, Free, store, Actors, Histories, HandInv, StoreInv, Ages, ExpiryAssumption,
      ClockInv, Recorded, TypeOK
<1>11. ASSUME NEW e \in BOOLEAN, NEW r \in BOOLEAN, ListFriends(e, r) PROVE ClockInv'
  BY <1>i, <1>11
    DEF ListFriends, store, EndPass, Actors, Histories, HandInv, StoreInv, Ages,
      ExpiryAssumption, ClockInv, Recorded, TypeOK
<1>12. CASE UNCHANGED vars
  BY <1>i, <1>12 DEF vars, store, pass, truth, Goto, EndPass, Load, StoreFails, AfterClearing,
       Clearing, ClockInv, Recorded, TypeOK
<1>13. CASE
    \/ \E p \in Players : Unfriended(p)
    \/ JoinLoads
    \/ Begin
    \/ RecordLoads
    \/ EndsUnlisted
    \/ \E p \in Players : ReadFails(p)
    \/ \E p \in Players : Prune(p)
    \/ RemoveFriend
    \/ \E e, r \in BOOLEAN : RemoveFails(e, r)
    \/ ListHistory
    \/ PruneFails
    \/ ClearLoads
    \/ ClearFails
    \/ PassEnds
    \/ Cancelled
  BY <1>i, <1>13 DEF Unfriended, JoinLoads, Begin, RecordLoads, EndsUnlisted, ReadFails, Prune,
       RemoveFriend, RemoveFails, ListHistory, PruneFails, ClearLoads, ClearFails, PassEnds,
       Cancelled,
    store, pass, truth, Goto, EndPass, Load, StoreFails, AfterClearing, Clearing, ClockInv, Recorded, TypeOK
<1> QED
  BY <1>1, <1>2, <1>3, <1>4, <1>5, <1>6, <1>7, <1>8, <1>9, <1>10, <1>11, <1>12, <1>13, Steps

\* Who is chosen for removal was inactive when the clock was read.
LEMMA GroundsStep == IInv /\ [Next]_vars => RemovalsAreGrounded'
<1> SUFFICES ASSUME IInv, [Next]_vars PROVE RemovalsAreGrounded'
  OBVIOUS
<1>i. TypeOK /\ ClockInv /\ RemovalsAreGrounded /\ ExpiryAssumption
  BY ExpiryAssumption DEF IInv
<1>1. ASSUME NEW p \in Players, ReadLastSeen(p) PROVE RemovalsAreGrounded'
  <2> SUFFICES ASSUME pc' = "remove" PROVE grounds'
    BY DEF RemovalsAreGrounded
  <2>1. pc = "scan" /\ history[p] # Never /\ Expired(history[p])
    BY <1>1 DEF ReadLastSeen
  <2>2. history[p] \in Ages /\ quiet[p] \in Ages /\ Window \in Nat
    BY <1>i, <2>1 DEF TypeOK, Histories, ExpiryAssumption
  <2>3. quiet[p] > Window \/ p \in unsaved \/ joined = p
    <3>1. CASE Recorded(p)
      BY <1>i, <2>1, <2>2, <3>1 DEF ClockInv, Expired, Ages
    <3>2. CASE ~Recorded(p)
      BY <2>1, <3>2 DEF Recorded
    <3> QED
      BY <3>1, <3>2
  <2>4. grounds' = (quiet[p] > Window \/ p \in unsaved \/ joined = p)
    BY <1>1 DEF ReadLastSeen
  <2> QED
    BY <2>3, <2>4
<1>2. ASSUME NEW e \in BOOLEAN, NEW r \in BOOLEAN, ListFriends(e, r) PROVE RemovalsAreGrounded'
  BY <1>i, <1>2 DEF ListFriends, EndPass, RemovalsAreGrounded, TypeOK
<1>3. CASE UNCHANGED vars
  BY <1>i, <1>3 DEF vars, store, pass, counts, truth, Goto, EndPass, AfterRecording,
       AfterClearing, RemovalsAreGrounded, TypeOK
<1>4. CASE
    \/ Tick
    \/ \E p \in Players : Unfriended(p)
    \/ \E p \in Players : Befriended(p)
    \/ \E p \in Players : Join(p)
    \/ JoinLoads
    \/ JoinSaves
    \/ JoinUnsaved
    \/ Begin
    \/ \E p \in Players : Add(p)
    \/ RecordLoads
    \/ RecordSaves
    \/ RecordFails
    \/ EndsUnlisted
    \/ \E p \in Players : ReadFails(p)
    \/ \E p \in Players : Prune(p)
    \/ RemoveFriend
    \/ \E e, r \in BOOLEAN : RemoveFails(e, r)
    \/ ListHistory
    \/ PruneFails
    \/ ClearLoads
    \/ ClearSaves
    \/ ClearFails
    \/ PassEnds
    \/ Cancelled
  BY <1>i, <1>4 DEF Tick, Unfriended, Befriended, Join, JoinLoads, JoinSaves, JoinUnsaved,
       Begin, Add, RecordLoads, RecordSaves, RecordFails, EndsUnlisted, ReadFails, Prune,
       RemoveFriend, RemoveFails, ListHistory, PruneFails, ClearLoads, ClearSaves, ClearFails,
       PassEnds, Cancelled,
    store, pass, counts, truth, Goto, EndPass, AfterRecording, AfterClearing, RemovalsAreGrounded, TypeOK
<1> QED
  BY <1>1, <1>2, <1>3, <1>4, Steps

\* The count follows the friends it knows of.
LEMMA CountStep == IInv /\ [Next]_vars => CountInv'
<1> SUFFICES ASSUME IInv, [Next]_vars PROVE CountInv'
  OBVIOUS
<1>i. TypeOK /\ HandInv /\ CountInv
  BY DEF IInv
<1>f. IsFiniteSet(friends)
  BY <1>i, ExpiryAssumption, FS_Subset DEF TypeOK, ExpiryAssumption
<1>1. ASSUME NEW p \in Players, Add(p) PROVE CountInv'
  BY <1>i, <1>1, <1>f, FS_AddElement DEF Add, CountAdds, CountInv, TypeOK
<1>2. ASSUME RemoveFriend PROVE CountInv'
  <2>1. who \in Players /\ pc = "remove" /\ friends' = friends \ {who} /\ drift' = (drift \/ who \notin friends)
    BY <1>i, <1>2 DEF RemoveFriend, HandInv
  <2>2. counted' = counted /\ count' = IF counted /\ count > 0 THEN count - 1 ELSE count
    BY <1>2 DEF RemoveFriend, CountRemoves
  <2>3. CASE counted /\ ~drift /\ who \in friends
    <3>1. Cardinality(friends') = Cardinality(friends) - 1 /\ Cardinality(friends) \in Nat /\ Cardinality(friends') \in Nat
      BY <2>1, <2>3, <1>f, FS_RemoveElement, FS_CardinalityType
    <3> QED
      BY <3>1, <2>2, <2>3, <1>i DEF CountInv
  <2>4. CASE ~counted
    BY <2>2, <2>4 DEF CountInv
  <2>5. CASE drift \/ who \notin friends
    BY <2>1, <2>5 DEF CountInv
  <2> QED
    BY <2>3, <2>4, <2>5
<1>3. ASSUME NEW e \in BOOLEAN, NEW r \in BOOLEAN, ListFriends(e, r) PROVE CountInv'
  BY <1>i, <1>3 DEF ListFriends, EndPass, CountInv, TypeOK
<1>4. ASSUME NEW p \in Players, Unfriended(p) PROVE CountInv'
  BY <1>i, <1>4 DEF Unfriended, CountInv, TypeOK
<1>5. ASSUME NEW p \in Players, Befriended(p) PROVE CountInv'
  BY <1>i, <1>5 DEF Befriended, CountInv, TypeOK
<1>6. ASSUME NEW e \in BOOLEAN, NEW r \in BOOLEAN, RemoveFails(e, r) PROVE CountInv'
  <2>1. CASE e
    BY <1>6, <2>1 DEF RemoveFails, CountInv
  <2>2. CASE ~e
    <3>1. UNCHANGED <<friends, counts>> /\ (drift' <=> drift)
      BY <1>6, <2>2 DEF RemoveFails
    <3> QED
      BY <3>1, <1>i DEF CountInv, counts
  <2> QED
    BY <2>1, <2>2
<1>7. CASE UNCHANGED vars
  BY <1>i, <1>7 DEF vars, store, pass, counts, truth, Goto, EndPass, AfterRecording,
       AfterClearing, CountInv, TypeOK
<1>8. CASE
    \/ Tick
    \/ \E p \in Players : Join(p)
    \/ JoinLoads
    \/ JoinSaves
    \/ JoinUnsaved
    \/ Begin
    \/ RecordLoads
    \/ RecordSaves
    \/ RecordFails
    \/ EndsUnlisted
    \/ \E p \in Players : ReadLastSeen(p)
    \/ \E p \in Players : ReadFails(p)
    \/ \E p \in Players : Prune(p)
    \/ ListHistory
    \/ PruneFails
    \/ ClearLoads
    \/ ClearSaves
    \/ ClearFails
    \/ PassEnds
    \/ Cancelled
  BY <1>i, <1>8 DEF Tick, Join, JoinLoads, JoinSaves, JoinUnsaved, Begin, RecordLoads,
       RecordSaves, RecordFails, EndsUnlisted, ReadLastSeen, ReadFails, Prune, ListHistory,
       PruneFails, ClearLoads, ClearSaves, ClearFails, PassEnds, Cancelled,
    store, pass, counts, truth, Goto, EndPass, AfterRecording, AfterClearing, CountInv, TypeOK
<1> QED
  BY <1>1, <1>2, <1>3, <1>4, <1>5, <1>6, <1>7, <1>8, Steps

-----------------------------------------------------------------------------
(* The inductive invariant holds in every reachable state of the expiry
   pass and the player history. *)
THEOREM Inductive == Spec => []IInv
<1>1. Init => IInv
  <2> SUFFICES ASSUME Init PROVE IInv
    OBVIOUS
  <2>1. TypeOK
    <3>1. NoHistory \in Histories
      BY DEF NoHistory, Histories
    <3>2. 0 \in Ages
      BY ExpiryAssumption DEF Ages, ExpiryAssumption
    <3> QED
      BY <3>1, <3>2 DEF Init, TypeOK, Actors
  <2>2. ClockInv
    BY DEF Init, ClockInv, Recorded, NoHistory
  <2> QED
    BY <2>1, <2>2 DEF Init, IInv, HandInv, StoreInv, RemovalsAreGrounded, CountInv
<1>2. IInv /\ [Next]_vars => IInv'
  BY TypeStep, HandStep, StoreStep, ClockStep, GroundsStep, CountStep DEF IInv
<1> QED
  BY <1>1, <1>2, PTL DEF Spec

\* Whom expiry removes was inactive when the clock was read, or the store had failed
\* to record them; and between passes the friend count is exact, unless friends
\* changed where it could not know.
THEOREM RecordsTrue == Spec => []RecordsAreTrue
<1>1. IInv => RecordsAreTrue
  BY DEF IInv, RecordsAreTrue, CountInv, CountIsExact
<1> QED
  BY <1>1, Inductive, PTL
=============================================================================
