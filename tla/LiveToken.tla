------------------------------ MODULE LiveToken ------------------------------
(* The Microsoft Live token source: the refreshing of the token, the device-code
   login that blocks the first caller, the one that runs in the background after
   that, the cache file both write, and the start of the command that reads it.

   oauth2.ReuseTokenSource serialises the calls, so there is at most one call at
   a time; callers that wait for it are not represented. A token is an identity
   for an access token with its refresh token. The file is replaced in one step,
   by a rename. The process may die at any moment, and is started again. *)
EXTENDS Naturals

CONSTANTS
  Tokens,   \* tokens, one being reused once nothing holds it
  NoToken

ASSUME TokenAssumption == NoToken \notin Tokens

Maybe == Tokens \cup {NoToken}

VARIABLES
  alive,     \* whether the process runs
  started,   \* whether the command has its first token and has saved it
  call,      \* the call of Token in progress: its step
  cached,    \* the token ReuseTokenSource holds
  tok,       \* s.tok
  issued,    \* s.issued
  reauth,    \* s.reauth: none, or whether its channel is still open
  login,     \* the goroutine of the background login
  loginTok,  \* login.tok
  file,      \* the cache file
  valid,     \* the tokens whose access token has not expired
  accepted,  \* Microsoft: the tokens whose refresh token is accepted
  latest,    \* history: the newest token this process, or the file, has had
  unsaved    \* history: whether the newest token could not be saved

source == <<cached, tok, issued>>
background == <<reauth, login, loginTok>>
service == <<valid, accepted>>
history == <<latest, unsaved>>
vars == <<alive, started, call, cached, tok, issued, reauth, login, loginTok,
          file, valid, accepted, latest, unsaved>>

Off ==
  /\ call' = "none" /\ cached' = NoToken /\ tok' = NoToken /\ issued' = FALSE
  /\ reauth' = "none" /\ login' = "idle" /\ loginTok' = NoToken
  /\ alive' = FALSE /\ started' = FALSE

Init ==
  /\ alive = FALSE /\ started = FALSE
  /\ call = "none" /\ cached = NoToken /\ tok = NoToken /\ issued = FALSE
  /\ reauth = "none" /\ login = "idle" /\ loginTok = NoToken
  /\ file = NoToken
  /\ valid = {} /\ accepted = {}
  /\ latest = NoToken /\ unsaved = FALSE
-----------------------------------------------------------------------------
\* Microsoft issues a token; what it issued before keeps its fate.
Fresh(t) == t \in Tokens /\ t \notin {cached, tok, loginTok, file, latest}

Issue(t) ==
  /\ Fresh(t)
  /\ valid' = valid \cup {t} /\ accepted' = accepted \cup {t}
  /\ latest' = t

Expire(t) ==
  /\ t \in valid /\ ~Fresh(t)
  /\ valid' = valid \ {t}
  /\ UNCHANGED <<alive, started, call, source, background, file, accepted, history>>

\* A refresh token is revoked, expires, or is replaced in a refresh whose answer
\* is lost.
Revoke(t) ==
  /\ t \in accepted /\ ~Fresh(t)
  /\ accepted' = accepted \ {t}
  /\ UNCHANGED <<alive, started, call, source, background, file, valid, history>>

\* A save replaces the file, or fails and is only logged.
Saves(t) == file' = t /\ unsaved' = (unsaved /\ t # latest)
SaveFails == UNCHANGED file /\ unsaved' = TRUE
-----------------------------------------------------------------------------
\* The command starts: the cache is loaded, if it can be.
Start(found) ==
  /\ ~alive
  /\ found \in {file, NoToken}
  /\ alive' = TRUE
  /\ cached' = found /\ tok' = found
  /\ issued' = (found \in valid)
  /\ latest' = file /\ unsaved' = FALSE
  /\ UNCHANGED <<started, call, background, file, service>>

\* It saves the first token it gets, and then uses the source.
Started(saved) ==
  /\ call = "returned"
  /\ started' = TRUE /\ call' = "none"
  /\ IF saved THEN Saves(cached) ELSE SaveFails
  /\ UNCHANGED <<alive, source, background, service, latest>>

\* The process is stopped, or killed, or ends because it got no first token.
Die ==
  /\ alive /\ Off
  /\ latest' = file /\ unsaved' = FALSE
  /\ UNCHANGED <<file, service>>
-----------------------------------------------------------------------------
\* Token returns a token, or an error: that ends the command if it was the first.
Returns == call' = IF started THEN "none" ELSE "returned"
Fails == call' = IF started THEN "none" ELSE "failed"

\* ReuseTokenSource hands out the token it holds; only the first call matters here.
Reuse ==
  /\ alive /\ ~started /\ call = "none" /\ cached \in valid
  /\ Returns
  /\ UNCHANGED <<alive, started, source, background, file, service, history>>

\* A call that finds no valid token there.
Call ==
  /\ alive /\ call = "none" /\ cached \notin valid
  /\ call' = "source"
  /\ UNCHANGED <<alive, started, source, background, file, service, history>>

\* Token with a background login under way.
ReauthPending ==
  /\ call = "source" /\ reauth = "open"
  /\ Fails
  /\ UNCHANGED <<alive, started, source, background, file, service, history>>

\* finishReauth: the login has ended, and its outcome is handed out.
\* Mutants: the channel is not looked at; the token is not kept.
FinishReauthAtOnce ==
  /\ call = "source" /\ reauth # "none"
  /\ reauth' = "none" /\ loginTok' = NoToken
  /\ IF loginTok = NoToken
       THEN Fails /\ UNCHANGED <<tok, cached>>
       ELSE Returns /\ tok' = loginTok /\ cached' = loginTok
  /\ UNCHANGED <<alive, started, issued, login, file, service, history>>
FinishReauthDropping ==
  /\ call = "source" /\ reauth = "done"
  /\ reauth' = "none" /\ loginTok' = NoToken
  /\ Fails
  /\ UNCHANGED <<alive, started, source, login, file, service, history>>

FinishReauth ==
  /\ call = "source" /\ reauth = "done"
  /\ reauth' = "none" /\ loginTok' = NoToken
  /\ IF loginTok = NoToken
       THEN Fails /\ UNCHANGED <<tok, cached>>
       ELSE Returns /\ tok' = loginTok /\ cached' = loginTok
  /\ UNCHANGED <<alive, started, issued, login, file, service, history>>

\* The refresh token is accepted: a new token is stored (store).
Refresh(t) ==
  /\ call = "source" /\ reauth = "none" /\ tok \in accepted
  /\ Issue(t)
  /\ tok' = t /\ issued' = TRUE /\ call' = "persist"
  /\ UNCHANGED <<alive, started, cached, background, file, unsaved>>

Persist(saved) ==
  /\ call = "persist"
  /\ IF saved THEN Saves(tok) ELSE SaveFails
  /\ cached' = tok /\ Returns
  /\ UNCHANGED <<alive, started, tok, issued, background, service, latest>>

\* The refresh fails without a verdict on the refresh token.
RefreshFails ==
  /\ call = "source" /\ reauth = "none" /\ tok # NoToken
  /\ Fails
  /\ UNCHANGED <<alive, started, source, background, file, service, history>>

\* There is no refresh token, or Microsoft rejects it: a login is needed.
NeedsLogin == call = "source" /\ reauth = "none" /\ tok \notin accepted

\* startReauth, once a token was handed out.
StartReauth ==
  /\ NeedsLogin /\ issued
  /\ reauth' = "open" /\ login' = "asking"
  /\ Fails
  /\ UNCHANGED <<alive, started, source, loginTok, file, service, history>>

\* The first caller waits for the login.
StartLogin ==
  /\ NeedsLogin /\ ~issued
  /\ call' = "login"
  /\ UNCHANGED <<alive, started, source, background, file, service, history>>

LoginSucceeds(t) ==
  /\ call = "login"
  /\ Issue(t)
  /\ tok' = t /\ issued' = TRUE /\ call' = "persist"
  /\ UNCHANGED <<alive, started, cached, background, file, unsaved>>

LoginFails ==
  /\ call = "login"
  /\ Fails
  /\ UNCHANGED <<alive, started, source, background, file, service, history>>
-----------------------------------------------------------------------------
\* The background login ends: with a token, or at its time limit.
\* Mutant: only stored tokens are saved.
ReauthSucceedsUnsaved(t) ==
  /\ login = "asking"
  /\ Issue(t)
  /\ loginTok' = t /\ login' = "ending"
  /\ UNCHANGED <<alive, started, call, source, reauth, file, unsaved>>

ReauthSucceeds(t) ==
  /\ login = "asking"
  /\ Issue(t)
  /\ loginTok' = t /\ login' = "persist"
  /\ UNCHANGED <<alive, started, call, source, reauth, file, unsaved>>

ReauthPersist(saved) ==
  /\ login = "persist"
  /\ IF saved THEN Saves(loginTok) ELSE SaveFails
  /\ login' = "ending"
  /\ UNCHANGED <<alive, started, call, source, reauth, loginTok, service, latest>>

ReauthFails ==
  /\ login = "asking"
  /\ login' = "ending"
  /\ UNCHANGED <<alive, started, call, source, reauth, loginTok, file, service, history>>

\* The deferred closing of the channel.
ReauthEnds ==
  /\ login = "ending"
  /\ login' = "idle" /\ reauth' = "done"
  /\ UNCHANGED <<alive, started, call, source, loginTok, file, service, history>>
-----------------------------------------------------------------------------
Token ==
  \/ Reuse \/ Call
  \/ ReauthPending \/ FinishReauth
  \/ (\E t \in Tokens : Refresh(t) \/ LoginSucceeds(t))
  \/ (\E saved \in BOOLEAN : Persist(saved))
  \/ RefreshFails \/ StartReauth \/ StartLogin \/ LoginFails

Reauth ==
  \/ \E t \in Tokens : ReauthSucceeds(t)
  \/ \E saved \in BOOLEAN : ReauthPersist(saved)
  \/ ReauthFails \/ ReauthEnds

Next ==
  \/ \E t \in Tokens : Expire(t) \/ Revoke(t)
  \/ \E found \in Maybe : Start(found)
  \/ \E saved \in BOOLEAN : Started(saved)
  \/ Die
  \/ Token
  \/ Reauth

Spec == Init /\ [][Next]_vars

\* Requests keep coming, each call ends, so does each login, and so does a command
\* that got no first token.
Fairness ==
  /\ WF_vars(alive /\ Token)
  /\ WF_vars(Reauth)
  /\ WF_vars(\E saved \in BOOLEAN : Started(saved))
  /\ WF_vars(call = "failed" /\ Die)

FairSpec == Spec /\ Fairness
-----------------------------------------------------------------------------
TypeOK ==
  /\ alive \in BOOLEAN /\ started \in BOOLEAN /\ issued \in BOOLEAN
  /\ call \in {"none", "source", "persist", "login", "returned", "failed"}
  /\ cached \in Maybe /\ tok \in Maybe /\ loginTok \in Maybe
  /\ reauth \in {"none", "open", "done"}
  /\ login \in {"idle", "asking", "persist", "ending"}
  /\ file \in Maybe /\ latest \in Maybe
  /\ valid \in SUBSET Tokens /\ accepted \in SUBSET Tokens
  /\ unsaved \in BOOLEAN

\* There is at most one sign-in at a time: while a background login runs, or saves
\* its token, no call starts another, waits for one or saves a token of its own.
OneLogin ==
  login # "idle" => reauth = "open" /\ call \notin {"persist", "login"}

\* The operator is only asked to sign in while the refresh token is of no use, so
\* never for a transport failure or a passing server error (token.go:204).
LoginsAreNeeded == login = "asking" \/ call = "login" => tok \notin accepted

\* After the first token no caller waits for a sign-in (token.go:34).
NoCallerWaits == started => call # "login"

\* The operator is prompted once, with good reason, and nobody waits for it: one
\* prompt at a time, while the refresh token is of no use (token.go:238).
OneNeededLogin == OneLogin /\ LoginsAreNeeded /\ NoCallerWaits

\* Outside of a save, and unless one failed, the cache file holds the newest token,
\* whichever of refresh, first login and background login brought it: a restart
\* does not prompt for what was granted already.
CacheIsNewest ==
  alive /\ ~unsaved /\ call # "persist" /\ login # "persist" => file = latest

\* A sign-in in the background ends, and its outcome is collected by some call: the
\* source does not answer "pending" for ever.
ReauthIsCollected == reauth = "open" ~> reauth = "none"

\* The token of a completed sign-in is handed out, unless the process ends first.
LoginIsUsed == \A t \in Tokens : loginTok = t ~> (cached = t \/ ~alive)

\* A sign-in is for something: it ends, some call collects it, and its token is
\* handed out (token.go:238).
LoginsAreCollected == ReauthIsCollected /\ LoginIsUsed
=============================================================================
