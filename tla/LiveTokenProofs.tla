--------------------------- MODULE LiveTokenProofs ---------------------------
(* What LiveToken's run checks of its states, for any set of tokens.

   Two facts carry the proofs. Once a token was handed out no call waits for a
   login, and a background login begins only then: so the two kinds of login
   exclude each other, and a call that stores a token finds no background login
   under way. And before the first token is saved, the token ReuseTokenSource holds
   is the newest one, or none: so the command's own save never puts an older token
   back into the file. *)
EXTENDS LiveToken, TLAPS

\* A process that does not run has no call, no login and no token.
DeadInv ==
  ~alive =>
    /\ ~started /\ call = "none" /\ reauth = "none" /\ login = "idle"
    /\ loginTok = NoToken

\* Which login is under way: a background one has its channel open for as long as its
\* goroutine is there, and no call waits for a login or stores one meanwhile.
LoginInv ==
  /\ login # "idle" <=> reauth = "open"
  /\ call \in {"login", "persist"} => reauth = "none"

\* What shows that a token was handed out.
IssuedInv ==
  /\ reauth # "none" \/ call \in {"persist", "returned"} \/ started \/ cached \in valid => issued
  /\ call = "login" => ~issued

\* The command's first token: what the source holds is no older than the newest, and
\* a call that began a background login has failed, which ends the command.
FirstInv ==
  /\ ~started => reauth = "none" \/ call = "failed"
  /\ ~started /\ call \notin {"failed", "persist"} => cached \in {latest, NoToken}
  /\ call = "returned" => ~started /\ cached = latest

\* What is about to be saved is the newest token.
SavingInv ==
  /\ call = "persist" => tok = latest
  /\ login = "persist" => loginTok = latest

IInv ==
  /\ TypeOK /\ DeadInv /\ LoginInv /\ IssuedInv /\ FirstInv /\ SavingInv
  /\ LoginsAreNeeded /\ CacheIsNewest

-----------------------------------------------------------------------------
\* The steps one by one, with what they are about.
LEMMA Steps ==
  ASSUME [Next]_vars
  PROVE
    \/ \E t \in Tokens : Expire(t)
    \/ \E t \in Tokens : Revoke(t)
    \/ \E found \in Maybe : Start(found)
    \/ \E saved \in BOOLEAN : Started(saved)
    \/ Die
    \/ Reuse
    \/ Call
    \/ ReauthPending
    \/ FinishReauth
    \/ \E t \in Tokens : Refresh(t)
    \/ \E t \in Tokens : LoginSucceeds(t)
    \/ \E saved \in BOOLEAN : Persist(saved)
    \/ RefreshFails
    \/ StartReauth
    \/ StartLogin
    \/ LoginFails
    \/ \E t \in Tokens : ReauthSucceeds(t)
    \/ \E saved \in BOOLEAN : ReauthPersist(saved)
    \/ ReauthFails
    \/ ReauthEnds
    \/ UNCHANGED vars
  BY DEF Next, Token, Reauth

\* A save leaves a token, or what was there, in the file.
LEMMA SavedIs ==
  ASSUME NEW saved \in BOOLEAN, NEW t \in Maybe, file \in Maybe,
         IF saved THEN Saves(t) ELSE SaveFails
  PROVE  file' \in Maybe /\ unsaved' \in BOOLEAN
<1>1. file' \in Maybe
  BY DEF Saves, SaveFails
<1>2. unsaved' \in BOOLEAN
  <2>1. CASE saved
    <3>1. (unsaved /\ t # latest) \in BOOLEAN
      OBVIOUS
    <3>2. unsaved' = (unsaved /\ t # latest)
      BY <2>1 DEF Saves
    <3> QED
      BY <3>1, <3>2, Zenon
  <2>2. CASE ~saved
    BY <2>2 DEF SaveFails
  <2> QED
    BY <2>1, <2>2
<1> QED
  BY <1>1, <1>2

\* Steps keep the types.
LEMMA TypeStep ==
  ASSUME IInv, [Next]_vars
  PROVE TypeOK'
<1>i. TypeOK
  BY DEF IInv
<1>1. ASSUME NEW t \in Tokens, Expire(t) PROVE TypeOK'
  BY <1>i, <1>1 DEF Expire, Fresh, TypeOK, source, background, history, Maybe
<1>2. ASSUME NEW t \in Tokens, Revoke(t) PROVE TypeOK'
  BY <1>i, <1>2 DEF Revoke, Fresh, TypeOK, source, background, history, Maybe
<1>3. ASSUME NEW found \in Maybe, Start(found) PROVE TypeOK'
  <2>1. issued' \in BOOLEAN
    <3>1. (found \in valid) \in BOOLEAN
      OBVIOUS
    <3>2. issued' = (found \in valid)
      BY <1>3 DEF Start
    <3> QED
      BY <3>1, <3>2, Zenon
  <2> QED
    <3>1. /\ alive' = TRUE /\ cached' = found /\ tok' = found
          /\ latest' = file /\ unsaved' = FALSE
          /\ UNCHANGED <<started, call, background, file, service>>
      BY <1>3 DEF Start
    <3> QED
      BY <1>i, <2>1, <3>1 DEF TypeOK, background, service
<1>4. ASSUME NEW saved \in BOOLEAN, Started(saved) PROVE TypeOK'
  <2>1. /\ started' = TRUE /\ call' = "none"
        /\ UNCHANGED <<alive, source, background, service, latest>>
    BY <1>4 DEF Started
  <2>2. file' \in Maybe /\ unsaved' \in BOOLEAN
    BY <1>i, <1>4, SavedIs DEF Started, TypeOK
  <2> QED
    BY <1>i, <2>1, <2>2 DEF TypeOK, source, background, service
<1>5. CASE Die
  BY <1>i, <1>5 DEF Die, Off, TypeOK, service, Maybe
<1>6. CASE Reuse
  BY <1>i, <1>6 DEF Reuse, Returns, TypeOK, source, background, service, history, Maybe
<1>7. CASE Call
  BY <1>i, <1>7 DEF Call, TypeOK, source, background, service, history, Maybe
<1>8. CASE ReauthPending
  BY <1>i, <1>8 DEF ReauthPending, Fails, TypeOK, source, background, service, history, Maybe
<1>9. CASE FinishReauth
  BY <1>i, <1>9 DEF FinishReauth, Fails, Returns, TypeOK, source, service, history, Maybe
<1>10. ASSUME NEW t \in Tokens, Refresh(t) PROVE TypeOK'
  BY <1>i, <1>10 DEF Refresh, Issue, Fresh, TypeOK, source, background, Maybe
<1>11. ASSUME NEW t \in Tokens, LoginSucceeds(t) PROVE TypeOK'
  BY <1>i, <1>11 DEF LoginSucceeds, Issue, Fresh, TypeOK, background, Maybe
<1>12. ASSUME NEW saved \in BOOLEAN, Persist(saved) PROVE TypeOK'
  <2>1. /\ cached' = tok /\ call' \in {"none", "returned"}
        /\ UNCHANGED <<alive, started, tok, issued, background, service, latest>>
    BY <1>12 DEF Persist, Returns
  <2>2. file' \in Maybe /\ unsaved' \in BOOLEAN
    BY <1>i, <1>12, SavedIs DEF Persist, TypeOK
  <2> QED
    BY <1>i, <2>1, <2>2 DEF TypeOK, background, service
<1>13. CASE RefreshFails
  BY <1>i, <1>13 DEF RefreshFails, Fails, TypeOK, source, background, service, history, Maybe
<1>14. CASE StartReauth
  BY <1>i, <1>14 DEF StartReauth, NeedsLogin, Fails, TypeOK, source, service, history, Maybe
<1>15. CASE StartLogin
  BY <1>i, <1>15 DEF StartLogin, NeedsLogin, TypeOK, source, background, service, history,
       Maybe
<1>16. CASE LoginFails
  BY <1>i, <1>16 DEF LoginFails, Fails, TypeOK, source, background, service, history, Maybe
<1>17. ASSUME NEW t \in Tokens, ReauthSucceeds(t) PROVE TypeOK'
  BY <1>i, <1>17 DEF ReauthSucceeds, Issue, Fresh, TypeOK, source, Maybe
<1>18. ASSUME NEW saved \in BOOLEAN, ReauthPersist(saved) PROVE TypeOK'
  <2>1. /\ login' = "ending"
        /\ UNCHANGED <<alive, started, call, source, reauth, loginTok, service, latest>>
    BY <1>18 DEF ReauthPersist
  <2>2. file' \in Maybe /\ unsaved' \in BOOLEAN
    BY <1>i, <1>18, SavedIs DEF ReauthPersist, TypeOK
  <2> QED
    BY <1>i, <2>1, <2>2 DEF TypeOK, source, service
<1>19. CASE ReauthFails
  BY <1>i, <1>19 DEF ReauthFails, TypeOK, source, service, history, Maybe
<1>20. CASE ReauthEnds
  BY <1>i, <1>20 DEF ReauthEnds, TypeOK, source, service, history, Maybe
<1>21. CASE UNCHANGED vars
  BY <1>i, <1>21 DEF vars, TypeOK
<1> QED
  BY Steps, <1>1, <1>2, <1>3, <1>4, <1>5, <1>6, <1>7, <1>8, <1>9, <1>10, <1>11, <1>12,
       <1>13, <1>14, <1>15, <1>16, <1>17, <1>18, <1>19, <1>20, <1>21

\* What runs is of a running process.
LEMMA DeadStep ==
  ASSUME IInv, [Next]_vars
  PROVE DeadInv'
<1>i. DeadInv /\ TypeOK
  BY DEF IInv
<1>1. ASSUME NEW t \in Tokens, Expire(t) PROVE DeadInv'
  BY <1>i, <1>1 DEF Expire, Fresh, DeadInv, TypeOK, source, background, history
<1>2. ASSUME NEW t \in Tokens, Revoke(t) PROVE DeadInv'
  BY <1>i, <1>2 DEF Revoke, Fresh, DeadInv, TypeOK, source, background, history
<1>3. ASSUME NEW found \in Maybe, Start(found) PROVE DeadInv'
  BY <1>i, <1>3 DEF Start, DeadInv, TypeOK, background, service, Maybe
<1>4. ASSUME NEW saved \in BOOLEAN, Started(saved) PROVE DeadInv'
  BY <1>i, <1>4 DEF Started, Saves, SaveFails, DeadInv, TypeOK, source, background, service
<1>5. CASE Die
  BY <1>i, <1>5 DEF Die, Off, DeadInv, TypeOK, service
<1>6. CASE Reuse
  BY <1>i, <1>6 DEF Reuse, Returns, DeadInv, TypeOK, source, background, service, history
<1>7. CASE Call
  BY <1>i, <1>7 DEF Call, DeadInv, TypeOK, source, background, service, history
<1>8. CASE ReauthPending
  BY <1>i, <1>8 DEF ReauthPending, Fails, DeadInv, TypeOK, source, background, service,
       history
<1>9. CASE FinishReauth
  BY <1>i, <1>9 DEF FinishReauth, Fails, Returns, DeadInv, TypeOK, source, service, history
<1>10. ASSUME NEW t \in Tokens, Refresh(t) PROVE DeadInv'
  BY <1>i, <1>10 DEF Refresh, Issue, Fresh, DeadInv, TypeOK, source, background
<1>11. ASSUME NEW t \in Tokens, LoginSucceeds(t) PROVE DeadInv'
  BY <1>i, <1>11 DEF LoginSucceeds, Issue, Fresh, DeadInv, TypeOK, background
<1>12. ASSUME NEW saved \in BOOLEAN, Persist(saved) PROVE DeadInv'
  BY <1>i, <1>12 DEF Persist, Saves, SaveFails, Returns, DeadInv, TypeOK, background, service
<1>13. CASE RefreshFails
  BY <1>i, <1>13 DEF RefreshFails, Fails, DeadInv, TypeOK, source, background, service,
       history
<1>14. CASE StartReauth
  BY <1>i, <1>14 DEF StartReauth, NeedsLogin, Fails, DeadInv, TypeOK, source, service, history
<1>15. CASE StartLogin
  BY <1>i, <1>15 DEF StartLogin, NeedsLogin, DeadInv, TypeOK, source, background, service,
       history
<1>16. CASE LoginFails
  BY <1>i, <1>16 DEF LoginFails, Fails, DeadInv, TypeOK, source, background, service, history
<1>17. ASSUME NEW t \in Tokens, ReauthSucceeds(t) PROVE DeadInv'
  BY <1>i, <1>17 DEF ReauthSucceeds, Issue, Fresh, DeadInv, TypeOK, source
<1>18. ASSUME NEW saved \in BOOLEAN, ReauthPersist(saved) PROVE DeadInv'
  BY <1>i, <1>18 DEF ReauthPersist, Saves, SaveFails, DeadInv, TypeOK, source, service
<1>19. CASE ReauthFails
  BY <1>i, <1>19 DEF ReauthFails, DeadInv, TypeOK, source, service, history
<1>20. CASE ReauthEnds
  BY <1>i, <1>20 DEF ReauthEnds, DeadInv, TypeOK, source, service, history
<1>21. CASE UNCHANGED vars
  BY <1>i, <1>21 DEF vars, DeadInv, TypeOK
<1> QED
  BY Steps, <1>1, <1>2, <1>3, <1>4, <1>5, <1>6, <1>7, <1>8, <1>9, <1>10, <1>11, <1>12,
       <1>13, <1>14, <1>15, <1>16, <1>17, <1>18, <1>19, <1>20, <1>21

\* A channel is open exactly while a background login runs, and calls leave it alone.
LEMMA LoginStep ==
  ASSUME IInv, [Next]_vars
  PROVE LoginInv'
<1>i. LoginInv /\ IssuedInv /\ DeadInv /\ TypeOK
  BY DEF IInv
<1>1. ASSUME NEW t \in Tokens, Expire(t) PROVE LoginInv'
  BY <1>i, <1>1 DEF Expire, Fresh, LoginInv, IssuedInv, DeadInv, TypeOK, source, background,
       history
<1>2. ASSUME NEW t \in Tokens, Revoke(t) PROVE LoginInv'
  BY <1>i, <1>2 DEF Revoke, Fresh, LoginInv, IssuedInv, DeadInv, TypeOK, source, background,
       history
<1>3. ASSUME NEW found \in Maybe, Start(found) PROVE LoginInv'
  BY <1>i, <1>3 DEF Start, LoginInv, IssuedInv, DeadInv, TypeOK, background, service, Maybe
<1>4. ASSUME NEW saved \in BOOLEAN, Started(saved) PROVE LoginInv'
  BY <1>i, <1>4 DEF Started, Saves, SaveFails, LoginInv, IssuedInv, DeadInv, TypeOK, source,
       background, service
<1>5. CASE Die
  BY <1>i, <1>5 DEF Die, Off, LoginInv, IssuedInv, DeadInv, TypeOK, service
<1>6. CASE Reuse
  BY <1>i, <1>6 DEF Reuse, Returns, LoginInv, IssuedInv, DeadInv, TypeOK, source,
       background, service, history
<1>7. CASE Call
  BY <1>i, <1>7 DEF Call, LoginInv, IssuedInv, DeadInv, TypeOK, source, background, service,
       history
<1>8. CASE ReauthPending
  BY <1>i, <1>8 DEF ReauthPending, Fails, LoginInv, IssuedInv, DeadInv, TypeOK, source,
       background, service, history
<1>9. CASE FinishReauth
  BY <1>i, <1>9 DEF FinishReauth, Fails, Returns, LoginInv, IssuedInv, DeadInv, TypeOK,
       source, service, history
<1>10. ASSUME NEW t \in Tokens, Refresh(t) PROVE LoginInv'
  BY <1>i, <1>10 DEF Refresh, Issue, Fresh, LoginInv, IssuedInv, DeadInv, TypeOK, source,
       background
<1>11. ASSUME NEW t \in Tokens, LoginSucceeds(t) PROVE LoginInv'
  BY <1>i, <1>11 DEF LoginSucceeds, Issue, Fresh, LoginInv, IssuedInv, DeadInv, TypeOK,
       background
<1>12. ASSUME NEW saved \in BOOLEAN, Persist(saved) PROVE LoginInv'
  BY <1>i, <1>12 DEF Persist, Saves, SaveFails, Returns, LoginInv, IssuedInv, DeadInv,
       TypeOK, background, service
<1>13. CASE RefreshFails
  BY <1>i, <1>13 DEF RefreshFails, Fails, LoginInv, IssuedInv, DeadInv, TypeOK, source,
       background, service, history
<1>14. CASE StartReauth
  BY <1>i, <1>14 DEF StartReauth, NeedsLogin, Fails, LoginInv, IssuedInv, DeadInv, TypeOK,
       source, service, history
<1>15. CASE StartLogin
  BY <1>i, <1>15 DEF StartLogin, NeedsLogin, LoginInv, IssuedInv, DeadInv, TypeOK, source,
       background, service, history
<1>16. CASE LoginFails
  BY <1>i, <1>16 DEF LoginFails, Fails, LoginInv, IssuedInv, DeadInv, TypeOK, source,
       background, service, history
<1>17. ASSUME NEW t \in Tokens, ReauthSucceeds(t) PROVE LoginInv'
  BY <1>i, <1>17 DEF ReauthSucceeds, Issue, Fresh, LoginInv, IssuedInv, DeadInv, TypeOK,
       source
<1>18. ASSUME NEW saved \in BOOLEAN, ReauthPersist(saved) PROVE LoginInv'
  BY <1>i, <1>18 DEF ReauthPersist, Saves, SaveFails, LoginInv, IssuedInv, DeadInv, TypeOK,
       source, service
<1>19. CASE ReauthFails
  BY <1>i, <1>19 DEF ReauthFails, LoginInv, IssuedInv, DeadInv, TypeOK, source, service,
       history
<1>20. CASE ReauthEnds
  BY <1>i, <1>20 DEF ReauthEnds, LoginInv, IssuedInv, DeadInv, TypeOK, source, service,
       history
<1>21. CASE UNCHANGED vars
  BY <1>i, <1>21 DEF vars, LoginInv, IssuedInv, DeadInv, TypeOK
<1> QED
  BY Steps, <1>1, <1>2, <1>3, <1>4, <1>5, <1>6, <1>7, <1>8, <1>9, <1>10, <1>11, <1>12,
       <1>13, <1>14, <1>15, <1>16, <1>17, <1>18, <1>19, <1>20, <1>21

\* A handed out token is remembered.
LEMMA IssuedStep ==
  ASSUME IInv, [Next]_vars
  PROVE IssuedInv'
<1>i. IssuedInv /\ LoginInv /\ DeadInv /\ TypeOK
  BY DEF IInv
<1>1. ASSUME NEW t \in Tokens, Expire(t) PROVE IssuedInv'
  BY <1>i, <1>1, TokenAssumption DEF Expire, Fresh, IssuedInv, LoginInv, DeadInv, TypeOK,
       source, background, history
<1>2. ASSUME NEW t \in Tokens, Revoke(t) PROVE IssuedInv'
  BY <1>i, <1>2, TokenAssumption DEF Revoke, Fresh, IssuedInv, LoginInv, DeadInv, TypeOK,
       source, background, history
<1>3. ASSUME NEW found \in Maybe, Start(found) PROVE IssuedInv'
  BY <1>i, <1>3, TokenAssumption DEF Start, IssuedInv, LoginInv, DeadInv, TypeOK,
       background, service, Maybe
<1>4. ASSUME NEW saved \in BOOLEAN, Started(saved) PROVE IssuedInv'
  BY <1>i, <1>4, TokenAssumption DEF Started, Saves, SaveFails, IssuedInv, LoginInv,
       DeadInv, TypeOK, source, background, service
<1>5. CASE Die
  BY <1>i, <1>5, TokenAssumption DEF Die, Off, IssuedInv, LoginInv, DeadInv, TypeOK, service
<1>6. CASE Reuse
  BY <1>i, <1>6, TokenAssumption DEF Reuse, Returns, IssuedInv, LoginInv, DeadInv, TypeOK,
       source, background, service, history
<1>7. CASE Call
  BY <1>i, <1>7, TokenAssumption DEF Call, IssuedInv, LoginInv, DeadInv, TypeOK, source,
       background, service, history
<1>8. CASE ReauthPending
  BY <1>i, <1>8, TokenAssumption DEF ReauthPending, Fails, IssuedInv, LoginInv, DeadInv,
       TypeOK, source, background, service, history
<1>9. CASE FinishReauth
  BY <1>i, <1>9, TokenAssumption DEF FinishReauth, Fails, Returns, IssuedInv, LoginInv,
       DeadInv, TypeOK, source, service, history
<1>10. ASSUME NEW t \in Tokens, Refresh(t) PROVE IssuedInv'
  BY <1>i, <1>10, TokenAssumption DEF Refresh, Issue, Fresh, IssuedInv, LoginInv, DeadInv,
       TypeOK, source, background
<1>11. ASSUME NEW t \in Tokens, LoginSucceeds(t) PROVE IssuedInv'
  BY <1>i, <1>11, TokenAssumption DEF LoginSucceeds, Issue, Fresh, IssuedInv, LoginInv,
       DeadInv, TypeOK, background
<1>12. ASSUME NEW saved \in BOOLEAN, Persist(saved) PROVE IssuedInv'
  BY <1>i, <1>12, TokenAssumption DEF Persist, Saves, SaveFails, Returns, IssuedInv,
       LoginInv, DeadInv, TypeOK, background, service
<1>13. CASE RefreshFails
  BY <1>i, <1>13, TokenAssumption DEF RefreshFails, Fails, IssuedInv, LoginInv, DeadInv,
       TypeOK, source, background, service, history
<1>14. CASE StartReauth
  BY <1>i, <1>14, TokenAssumption DEF StartReauth, NeedsLogin, Fails, IssuedInv, LoginInv,
       DeadInv, TypeOK, source, service, history
<1>15. CASE StartLogin
  BY <1>i, <1>15, TokenAssumption DEF StartLogin, NeedsLogin, IssuedInv, LoginInv, DeadInv,
       TypeOK, source, background, service, history
<1>16. CASE LoginFails
  BY <1>i, <1>16, TokenAssumption DEF LoginFails, Fails, IssuedInv, LoginInv, DeadInv,
       TypeOK, source, background, service, history
<1>17. ASSUME NEW t \in Tokens, ReauthSucceeds(t) PROVE IssuedInv'
  BY <1>i, <1>17, TokenAssumption DEF ReauthSucceeds, Issue, Fresh, IssuedInv, LoginInv,
       DeadInv, TypeOK, source
<1>18. ASSUME NEW saved \in BOOLEAN, ReauthPersist(saved) PROVE IssuedInv'
  BY <1>i, <1>18, TokenAssumption DEF ReauthPersist, Saves, SaveFails, IssuedInv, LoginInv,
       DeadInv, TypeOK, source, service
<1>19. CASE ReauthFails
  BY <1>i, <1>19, TokenAssumption DEF ReauthFails, IssuedInv, LoginInv, DeadInv, TypeOK,
       source, service, history
<1>20. CASE ReauthEnds
  BY <1>i, <1>20, TokenAssumption DEF ReauthEnds, IssuedInv, LoginInv, DeadInv, TypeOK,
       source, service, history
<1>21. CASE UNCHANGED vars
  BY <1>i, <1>21 DEF vars, IssuedInv, LoginInv, DeadInv, TypeOK
<1> QED
  BY Steps, <1>1, <1>2, <1>3, <1>4, <1>5, <1>6, <1>7, <1>8, <1>9, <1>10, <1>11, <1>12,
       <1>13, <1>14, <1>15, <1>16, <1>17, <1>18, <1>19, <1>20, <1>21

\* Until the first token is saved, the source holds the newest one or none.
LEMMA FirstStep ==
  ASSUME IInv, [Next]_vars
  PROVE FirstInv'
<1>i. FirstInv /\ LoginInv /\ IssuedInv /\ SavingInv /\ DeadInv /\ TypeOK
  BY DEF IInv
<1>1. ASSUME NEW t \in Tokens, Expire(t) PROVE FirstInv'
  BY <1>i, <1>1, TokenAssumption DEF Expire, Fresh, FirstInv, LoginInv, IssuedInv,
       SavingInv, DeadInv, TypeOK, source, background, history
<1>2. ASSUME NEW t \in Tokens, Revoke(t) PROVE FirstInv'
  BY <1>i, <1>2, TokenAssumption DEF Revoke, Fresh, FirstInv, LoginInv, IssuedInv,
       SavingInv, DeadInv, TypeOK, source, background, history
<1>3. ASSUME NEW found \in Maybe, Start(found) PROVE FirstInv'
  BY <1>i, <1>3, TokenAssumption DEF Start, FirstInv, LoginInv, IssuedInv, SavingInv,
       DeadInv, TypeOK, background, service, Maybe
<1>4. ASSUME NEW saved \in BOOLEAN, Started(saved) PROVE FirstInv'
  BY <1>i, <1>4, TokenAssumption DEF Started, Saves, SaveFails, FirstInv, LoginInv,
       IssuedInv, SavingInv, DeadInv, TypeOK, source, background, service
<1>5. CASE Die
  BY <1>i, <1>5, TokenAssumption DEF Die, Off, FirstInv, LoginInv, IssuedInv, SavingInv,
       DeadInv, TypeOK, service
<1>6. CASE Reuse
  BY <1>i, <1>6, TokenAssumption DEF Reuse, Returns, FirstInv, LoginInv, IssuedInv,
       SavingInv, DeadInv, TypeOK, source, background, service, history
<1>7. CASE Call
  BY <1>i, <1>7, TokenAssumption DEF Call, FirstInv, LoginInv, IssuedInv, SavingInv,
       DeadInv, TypeOK, source, background, service, history
<1>8. CASE ReauthPending
  BY <1>i, <1>8, TokenAssumption DEF ReauthPending, Fails, FirstInv, LoginInv, IssuedInv,
       SavingInv, DeadInv, TypeOK, source, background, service, history
<1>9. CASE FinishReauth
  BY <1>i, <1>9, TokenAssumption DEF FinishReauth, Fails, Returns, FirstInv, LoginInv,
       IssuedInv, SavingInv, DeadInv, TypeOK, source, service, history
<1>10. ASSUME NEW t \in Tokens, Refresh(t) PROVE FirstInv'
  BY <1>i, <1>10, TokenAssumption DEF Refresh, Issue, Fresh, FirstInv, LoginInv, IssuedInv,
       SavingInv, DeadInv, TypeOK, source, background
<1>11. ASSUME NEW t \in Tokens, LoginSucceeds(t) PROVE FirstInv'
  BY <1>i, <1>11, TokenAssumption DEF LoginSucceeds, Issue, Fresh, FirstInv, LoginInv,
       IssuedInv, SavingInv, DeadInv, TypeOK, background
<1>12. ASSUME NEW saved \in BOOLEAN, Persist(saved) PROVE FirstInv'
  BY <1>i, <1>12, TokenAssumption DEF Persist, Saves, SaveFails, Returns, FirstInv,
       LoginInv, IssuedInv, SavingInv, DeadInv, TypeOK, background, service
<1>13. CASE RefreshFails
  BY <1>i, <1>13, TokenAssumption DEF RefreshFails, Fails, FirstInv, LoginInv, IssuedInv,
       SavingInv, DeadInv, TypeOK, source, background, service, history
<1>14. CASE StartReauth
  BY <1>i, <1>14, TokenAssumption DEF StartReauth, NeedsLogin, Fails, FirstInv, LoginInv,
       IssuedInv, SavingInv, DeadInv, TypeOK, source, service, history
<1>15. CASE StartLogin
  BY <1>i, <1>15, TokenAssumption DEF StartLogin, NeedsLogin, FirstInv, LoginInv, IssuedInv,
       SavingInv, DeadInv, TypeOK, source, background, service, history
<1>16. CASE LoginFails
  BY <1>i, <1>16, TokenAssumption DEF LoginFails, Fails, FirstInv, LoginInv, IssuedInv,
       SavingInv, DeadInv, TypeOK, source, background, service, history
<1>17. ASSUME NEW t \in Tokens, ReauthSucceeds(t) PROVE FirstInv'
  BY <1>i, <1>17, TokenAssumption DEF ReauthSucceeds, Issue, Fresh, FirstInv, LoginInv,
       IssuedInv, SavingInv, DeadInv, TypeOK, source
<1>18. ASSUME NEW saved \in BOOLEAN, ReauthPersist(saved) PROVE FirstInv'
  BY <1>i, <1>18, TokenAssumption DEF ReauthPersist, Saves, SaveFails, FirstInv, LoginInv,
       IssuedInv, SavingInv, DeadInv, TypeOK, source, service
<1>19. CASE ReauthFails
  BY <1>i, <1>19, TokenAssumption DEF ReauthFails, FirstInv, LoginInv, IssuedInv, SavingInv,
       DeadInv, TypeOK, source, service, history
<1>20. CASE ReauthEnds
  BY <1>i, <1>20, TokenAssumption DEF ReauthEnds, FirstInv, LoginInv, IssuedInv, SavingInv,
       DeadInv, TypeOK, source, service, history
<1>21. CASE UNCHANGED vars
  BY <1>i, <1>21 DEF vars, FirstInv, LoginInv, IssuedInv, SavingInv, DeadInv, TypeOK
<1> QED
  BY Steps, <1>1, <1>2, <1>3, <1>4, <1>5, <1>6, <1>7, <1>8, <1>9, <1>10, <1>11, <1>12,
       <1>13, <1>14, <1>15, <1>16, <1>17, <1>18, <1>19, <1>20, <1>21

\* No newer token comes while one is saved.
LEMMA SavingStep ==
  ASSUME IInv, [Next]_vars
  PROVE SavingInv'
<1>i. SavingInv /\ LoginInv /\ DeadInv /\ TypeOK
  BY DEF IInv
<1>1. ASSUME NEW t \in Tokens, Expire(t) PROVE SavingInv'
  BY <1>i, <1>1 DEF Expire, Fresh, SavingInv, LoginInv, DeadInv, TypeOK, source, background,
       history
<1>2. ASSUME NEW t \in Tokens, Revoke(t) PROVE SavingInv'
  BY <1>i, <1>2 DEF Revoke, Fresh, SavingInv, LoginInv, DeadInv, TypeOK, source, background,
       history
<1>3. ASSUME NEW found \in Maybe, Start(found) PROVE SavingInv'
  BY <1>i, <1>3 DEF Start, SavingInv, LoginInv, DeadInv, TypeOK, background, service, Maybe
<1>4. ASSUME NEW saved \in BOOLEAN, Started(saved) PROVE SavingInv'
  BY <1>i, <1>4 DEF Started, Saves, SaveFails, SavingInv, LoginInv, DeadInv, TypeOK, source,
       background, service
<1>5. CASE Die
  BY <1>i, <1>5 DEF Die, Off, SavingInv, LoginInv, DeadInv, TypeOK, service
<1>6. CASE Reuse
  BY <1>i, <1>6 DEF Reuse, Returns, SavingInv, LoginInv, DeadInv, TypeOK, source,
       background, service, history
<1>7. CASE Call
  BY <1>i, <1>7 DEF Call, SavingInv, LoginInv, DeadInv, TypeOK, source, background, service,
       history
<1>8. CASE ReauthPending
  BY <1>i, <1>8 DEF ReauthPending, Fails, SavingInv, LoginInv, DeadInv, TypeOK, source,
       background, service, history
<1>9. CASE FinishReauth
  BY <1>i, <1>9 DEF FinishReauth, Fails, Returns, SavingInv, LoginInv, DeadInv, TypeOK,
       source, service, history
<1>10. ASSUME NEW t \in Tokens, Refresh(t) PROVE SavingInv'
  BY <1>i, <1>10 DEF Refresh, Issue, Fresh, SavingInv, LoginInv, DeadInv, TypeOK, source,
       background
<1>11. ASSUME NEW t \in Tokens, LoginSucceeds(t) PROVE SavingInv'
  BY <1>i, <1>11 DEF LoginSucceeds, Issue, Fresh, SavingInv, LoginInv, DeadInv, TypeOK,
       background
<1>12. ASSUME NEW saved \in BOOLEAN, Persist(saved) PROVE SavingInv'
  BY <1>i, <1>12 DEF Persist, Saves, SaveFails, Returns, SavingInv, LoginInv, DeadInv,
       TypeOK, background, service
<1>13. CASE RefreshFails
  BY <1>i, <1>13 DEF RefreshFails, Fails, SavingInv, LoginInv, DeadInv, TypeOK, source,
       background, service, history
<1>14. CASE StartReauth
  BY <1>i, <1>14 DEF StartReauth, NeedsLogin, Fails, SavingInv, LoginInv, DeadInv, TypeOK,
       source, service, history
<1>15. CASE StartLogin
  BY <1>i, <1>15 DEF StartLogin, NeedsLogin, SavingInv, LoginInv, DeadInv, TypeOK, source,
       background, service, history
<1>16. CASE LoginFails
  BY <1>i, <1>16 DEF LoginFails, Fails, SavingInv, LoginInv, DeadInv, TypeOK, source,
       background, service, history
<1>17. ASSUME NEW t \in Tokens, ReauthSucceeds(t) PROVE SavingInv'
  BY <1>i, <1>17 DEF ReauthSucceeds, Issue, Fresh, SavingInv, LoginInv, DeadInv, TypeOK,
       source
<1>18. ASSUME NEW saved \in BOOLEAN, ReauthPersist(saved) PROVE SavingInv'
  BY <1>i, <1>18 DEF ReauthPersist, Saves, SaveFails, SavingInv, LoginInv, DeadInv, TypeOK,
       source, service
<1>19. CASE ReauthFails
  BY <1>i, <1>19 DEF ReauthFails, SavingInv, LoginInv, DeadInv, TypeOK, source, service,
       history
<1>20. CASE ReauthEnds
  BY <1>i, <1>20 DEF ReauthEnds, SavingInv, LoginInv, DeadInv, TypeOK, source, service,
       history
<1>21. CASE UNCHANGED vars
  BY <1>i, <1>21 DEF vars, SavingInv, LoginInv, DeadInv, TypeOK
<1> QED
  BY Steps, <1>1, <1>2, <1>3, <1>4, <1>5, <1>6, <1>7, <1>8, <1>9, <1>10, <1>11, <1>12,
       <1>13, <1>14, <1>15, <1>16, <1>17, <1>18, <1>19, <1>20, <1>21

\* A refresh token that is of no use stays so while a login is asked for.
LEMMA NeededStep ==
  ASSUME IInv, [Next]_vars
  PROVE LoginsAreNeeded'
<1>i. LoginsAreNeeded /\ LoginInv /\ DeadInv /\ TypeOK
  BY DEF IInv
<1>1. ASSUME NEW t \in Tokens, Expire(t) PROVE LoginsAreNeeded'
  BY <1>i, <1>1, TokenAssumption DEF Expire, Fresh, LoginsAreNeeded, LoginInv, DeadInv,
       TypeOK, source, background, history
<1>2. ASSUME NEW t \in Tokens, Revoke(t) PROVE LoginsAreNeeded'
  BY <1>i, <1>2, TokenAssumption DEF Revoke, Fresh, LoginsAreNeeded, LoginInv, DeadInv,
       TypeOK, source, background, history
<1>3. ASSUME NEW found \in Maybe, Start(found) PROVE LoginsAreNeeded'
  BY <1>i, <1>3, TokenAssumption DEF Start, LoginsAreNeeded, LoginInv, DeadInv, TypeOK,
       background, service, Maybe
<1>4. ASSUME NEW saved \in BOOLEAN, Started(saved) PROVE LoginsAreNeeded'
  BY <1>i, <1>4, TokenAssumption DEF Started, Saves, SaveFails, LoginsAreNeeded, LoginInv,
       DeadInv, TypeOK, source, background, service
<1>5. CASE Die
  BY <1>i, <1>5, TokenAssumption DEF Die, Off, LoginsAreNeeded, LoginInv, DeadInv, TypeOK,
       service
<1>6. CASE Reuse
  BY <1>i, <1>6, TokenAssumption DEF Reuse, Returns, LoginsAreNeeded, LoginInv, DeadInv,
       TypeOK, source, background, service, history
<1>7. CASE Call
  BY <1>i, <1>7, TokenAssumption DEF Call, LoginsAreNeeded, LoginInv, DeadInv, TypeOK,
       source, background, service, history
<1>8. CASE ReauthPending
  BY <1>i, <1>8, TokenAssumption DEF ReauthPending, Fails, LoginsAreNeeded, LoginInv,
       DeadInv, TypeOK, source, background, service, history
<1>9. CASE FinishReauth
  BY <1>i, <1>9, TokenAssumption DEF FinishReauth, Fails, Returns, LoginsAreNeeded,
       LoginInv, DeadInv, TypeOK, source, service, history
<1>10. ASSUME NEW t \in Tokens, Refresh(t) PROVE LoginsAreNeeded'
  BY <1>i, <1>10, TokenAssumption DEF Refresh, Issue, Fresh, LoginsAreNeeded, LoginInv,
       DeadInv, TypeOK, source, background
<1>11. ASSUME NEW t \in Tokens, LoginSucceeds(t) PROVE LoginsAreNeeded'
  BY <1>i, <1>11, TokenAssumption DEF LoginSucceeds, Issue, Fresh, LoginsAreNeeded,
       LoginInv, DeadInv, TypeOK, background
<1>12. ASSUME NEW saved \in BOOLEAN, Persist(saved) PROVE LoginsAreNeeded'
  BY <1>i, <1>12, TokenAssumption DEF Persist, Saves, SaveFails, Returns, LoginsAreNeeded,
       LoginInv, DeadInv, TypeOK, background, service
<1>13. CASE RefreshFails
  BY <1>i, <1>13, TokenAssumption DEF RefreshFails, Fails, LoginsAreNeeded, LoginInv,
       DeadInv, TypeOK, source, background, service, history
<1>14. CASE StartReauth
  BY <1>i, <1>14, TokenAssumption DEF StartReauth, NeedsLogin, Fails, LoginsAreNeeded,
       LoginInv, DeadInv, TypeOK, source, service, history
<1>15. CASE StartLogin
  BY <1>i, <1>15, TokenAssumption DEF StartLogin, NeedsLogin, LoginsAreNeeded, LoginInv,
       DeadInv, TypeOK, source, background, service, history
<1>16. CASE LoginFails
  BY <1>i, <1>16, TokenAssumption DEF LoginFails, Fails, LoginsAreNeeded, LoginInv, DeadInv,
       TypeOK, source, background, service, history
<1>17. ASSUME NEW t \in Tokens, ReauthSucceeds(t) PROVE LoginsAreNeeded'
  BY <1>i, <1>17, TokenAssumption DEF ReauthSucceeds, Issue, Fresh, LoginsAreNeeded,
       LoginInv, DeadInv, TypeOK, source
<1>18. ASSUME NEW saved \in BOOLEAN, ReauthPersist(saved) PROVE LoginsAreNeeded'
  BY <1>i, <1>18, TokenAssumption DEF ReauthPersist, Saves, SaveFails, LoginsAreNeeded,
       LoginInv, DeadInv, TypeOK, source, service
<1>19. CASE ReauthFails
  BY <1>i, <1>19, TokenAssumption DEF ReauthFails, LoginsAreNeeded, LoginInv, DeadInv,
       TypeOK, source, service, history
<1>20. CASE ReauthEnds
  BY <1>i, <1>20, TokenAssumption DEF ReauthEnds, LoginsAreNeeded, LoginInv, DeadInv,
       TypeOK, source, service, history
<1>21. CASE UNCHANGED vars
  BY <1>i, <1>21 DEF vars, LoginsAreNeeded, LoginInv, DeadInv, TypeOK
<1> QED
  BY Steps, <1>1, <1>2, <1>3, <1>4, <1>5, <1>6, <1>7, <1>8, <1>9, <1>10, <1>11, <1>12,
       <1>13, <1>14, <1>15, <1>16, <1>17, <1>18, <1>19, <1>20, <1>21

\* A save writes the newest token, and a newer one is saved next.
LEMMA CacheStep ==
  ASSUME IInv, [Next]_vars
  PROVE CacheIsNewest'
<1>i. CacheIsNewest /\ SavingInv /\ FirstInv /\ LoginInv /\ DeadInv /\ TypeOK
  BY DEF IInv
<1>1. ASSUME NEW t \in Tokens, Expire(t) PROVE CacheIsNewest'
  BY <1>i, <1>1 DEF Expire, Fresh, CacheIsNewest, SavingInv, FirstInv, LoginInv, DeadInv,
       TypeOK, source, background, history
<1>2. ASSUME NEW t \in Tokens, Revoke(t) PROVE CacheIsNewest'
  BY <1>i, <1>2 DEF Revoke, Fresh, CacheIsNewest, SavingInv, FirstInv, LoginInv, DeadInv,
       TypeOK, source, background, history
<1>3. ASSUME NEW found \in Maybe, Start(found) PROVE CacheIsNewest'
  BY <1>i, <1>3 DEF Start, CacheIsNewest, SavingInv, FirstInv, LoginInv, DeadInv, TypeOK,
       background, service, Maybe
<1>4. ASSUME NEW saved \in BOOLEAN, Started(saved) PROVE CacheIsNewest'
  BY <1>i, <1>4 DEF Started, Saves, SaveFails, CacheIsNewest, SavingInv, FirstInv, LoginInv,
       DeadInv, TypeOK, source, background, service
<1>5. CASE Die
  BY <1>i, <1>5 DEF Die, Off, CacheIsNewest, SavingInv, FirstInv, LoginInv, DeadInv, TypeOK,
       service
<1>6. CASE Reuse
  BY <1>i, <1>6 DEF Reuse, Returns, CacheIsNewest, SavingInv, FirstInv, LoginInv, DeadInv,
       TypeOK, source, background, service, history
<1>7. CASE Call
  BY <1>i, <1>7 DEF Call, CacheIsNewest, SavingInv, FirstInv, LoginInv, DeadInv, TypeOK,
       source, background, service, history
<1>8. CASE ReauthPending
  BY <1>i, <1>8 DEF ReauthPending, Fails, CacheIsNewest, SavingInv, FirstInv, LoginInv,
       DeadInv, TypeOK, source, background, service, history
<1>9. CASE FinishReauth
  BY <1>i, <1>9 DEF FinishReauth, Fails, Returns, CacheIsNewest, SavingInv, FirstInv,
       LoginInv, DeadInv, TypeOK, source, service, history
<1>10. ASSUME NEW t \in Tokens, Refresh(t) PROVE CacheIsNewest'
  BY <1>i, <1>10 DEF Refresh, Issue, Fresh, CacheIsNewest, SavingInv, FirstInv, LoginInv,
       DeadInv, TypeOK, source, background
<1>11. ASSUME NEW t \in Tokens, LoginSucceeds(t) PROVE CacheIsNewest'
  BY <1>i, <1>11 DEF LoginSucceeds, Issue, Fresh, CacheIsNewest, SavingInv, FirstInv,
       LoginInv, DeadInv, TypeOK, background
<1>12. ASSUME NEW saved \in BOOLEAN, Persist(saved) PROVE CacheIsNewest'
  BY <1>i, <1>12 DEF Persist, Saves, SaveFails, Returns, CacheIsNewest, SavingInv, FirstInv,
       LoginInv, DeadInv, TypeOK, background, service
<1>13. CASE RefreshFails
  BY <1>i, <1>13 DEF RefreshFails, Fails, CacheIsNewest, SavingInv, FirstInv, LoginInv,
       DeadInv, TypeOK, source, background, service, history
<1>14. CASE StartReauth
  BY <1>i, <1>14 DEF StartReauth, NeedsLogin, Fails, CacheIsNewest, SavingInv, FirstInv,
       LoginInv, DeadInv, TypeOK, source, service, history
<1>15. CASE StartLogin
  BY <1>i, <1>15 DEF StartLogin, NeedsLogin, CacheIsNewest, SavingInv, FirstInv, LoginInv,
       DeadInv, TypeOK, source, background, service, history
<1>16. CASE LoginFails
  BY <1>i, <1>16 DEF LoginFails, Fails, CacheIsNewest, SavingInv, FirstInv, LoginInv,
       DeadInv, TypeOK, source, background, service, history
<1>17. ASSUME NEW t \in Tokens, ReauthSucceeds(t) PROVE CacheIsNewest'
  BY <1>i, <1>17 DEF ReauthSucceeds, Issue, Fresh, CacheIsNewest, SavingInv, FirstInv,
       LoginInv, DeadInv, TypeOK, source
<1>18. ASSUME NEW saved \in BOOLEAN, ReauthPersist(saved) PROVE CacheIsNewest'
  BY <1>i, <1>18 DEF ReauthPersist, Saves, SaveFails, CacheIsNewest, SavingInv, FirstInv,
       LoginInv, DeadInv, TypeOK, source, service
<1>19. CASE ReauthFails
  BY <1>i, <1>19 DEF ReauthFails, CacheIsNewest, SavingInv, FirstInv, LoginInv, DeadInv,
       TypeOK, source, service, history
<1>20. CASE ReauthEnds
  BY <1>i, <1>20 DEF ReauthEnds, CacheIsNewest, SavingInv, FirstInv, LoginInv, DeadInv,
       TypeOK, source, service, history
<1>21. CASE UNCHANGED vars
  BY <1>i, <1>21 DEF vars, CacheIsNewest, SavingInv, FirstInv, LoginInv, DeadInv, TypeOK
<1> QED
  BY Steps, <1>1, <1>2, <1>3, <1>4, <1>5, <1>6, <1>7, <1>8, <1>9, <1>10, <1>11, <1>12,
       <1>13, <1>14, <1>15, <1>16, <1>17, <1>18, <1>19, <1>20, <1>21

-----------------------------------------------------------------------------
(* The theorems. *)

\* The parts hold at first, and every step keeps them.
THEOREM Inductive == Spec => []IInv
<1>1. Init => IInv
  BY TokenAssumption
  DEF Init, IInv, TypeOK, DeadInv, LoginInv, IssuedInv, FirstInv, SavingInv, LoginsAreNeeded,
      CacheIsNewest, Maybe
<1>2. IInv /\ [Next]_vars => IInv'
  BY TypeStep, DeadStep, LoginStep, IssuedStep, FirstStep, SavingStep, NeededStep, CacheStep
  DEF IInv
<1> QED
  BY <1>1, <1>2, PTL DEF Spec

\* Every variable keeps its type, whichever tokens there are.
THEOREM TypeIsKept == Spec => []TypeOK
<1>1. IInv => TypeOK
  BY DEF IInv
<1> QED
  BY <1>1, Inductive, PTL

\* One prompt at a time, only while the refresh token is of no use, and no caller
\* waits for one after the first token (token.go:34, 204, 238).
THEOREM PromptsAreNeeded == Spec => []OneNeededLogin
<1>1. IInv => OneNeededLogin
  BY DEF IInv, LoginInv, IssuedInv, LoginsAreNeeded, OneNeededLogin, OneLogin, NoCallerWaits
<1> QED
  BY <1>1, Inductive, PTL

\* Whichever of refresh, first login and background login brought the newest token,
\* the file holds it as soon as its save is over, unless a save failed.
THEOREM FileIsNewest == Spec => []CacheIsNewest
<1>1. IInv => CacheIsNewest
  BY DEF IInv
<1> QED
  BY <1>1, Inductive, PTL
=============================================================================
