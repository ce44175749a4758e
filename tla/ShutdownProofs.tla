--------------------------- MODULE ShutdownProofs ---------------------------
(* The safety properties of SignalingDial and of Shutdown, for any number of dials,
   uploads and goroutines.

   A dial is proved about on its own first, through Shutdown's instance of it:
   beside the properties the invariant says where a connection and a source can
   be, a goroutine having a connection from its offer on, and a source of its own
   between its login and the storing of it.

   Shutdown's steps are dials' steps or leave the dials alone, so that it has all
   of that.  What else it needs is that one dial at a time is under way, that it is
   so only for who holds b.mu, and that the context has ended before Close takes
   b.mu: after that nobody dials or is counted as a reader of the client. *)
EXTENDS Shutdown, TLAPS

-----------------------------------------------------------------------------
(* A dial, and the uploads. *)

\* How far the caller is, and how far its goroutine.
HandInv ==
  \A d \in Dials :
    /\ caller[d] = "idle" => dialer[d] = "none"
    /\ caller[d] \in {"received", "got", "released"} => dialer[d] = "done"
    /\ conn[d] # "none" => dialer[d] \in {"offer", "done"}

SourceInv ==
  \A u \in Dialing!Users :
    /\ dialer[u] \in {"none", "login"} => source[u] = NoSource
    /\ dialer[u] = "store" => source[u] = u

DialInv ==
  /\ Dialing!TypeOK /\ HandInv /\ SourceInv
  /\ Dialing!NoneIsLost /\ Dialing!GotIsUsable /\ Dialing!OneSource

\* Steps keep the types.
LEMMA DialTypeStep ==
  Dialing!DialAssumption /\ DialInv /\ [Dialing!Next]_dialVars => Dialing!TypeOK'
<1> SUFFICES ASSUME Dialing!DialAssumption, DialInv, [Dialing!Next]_dialVars
             PROVE  Dialing!TypeOK'
  OBVIOUS
<1> USE DEF Dialing!DialAssumption, Dialing!Users, Dialing!Sources, Dialing!Caller,
     Dialing!Worker, Dialing!HasSource, Dialing!closeSignaling
<1>i. Dialing!TypeOK /\ HandInv
  BY DEF DialInv
<1>1. ASSUME NEW d \in Dials, Dialing!Dial(d) PROVE Dialing!TypeOK'
  BY <1>i, <1>1 DEF Dialing!Dial, Dialing!TypeOK
<1>2. ASSUME NEW d \in Dials, Dialing!End(d) PROVE Dialing!TypeOK'
  BY <1>i, <1>2 DEF Dialing!End, Dialing!TypeOK
<1>3. ASSUME NEW d \in Dials, Dialing!Connect(d) PROVE Dialing!TypeOK'
  BY <1>i, <1>3 DEF Dialing!Connect, Dialing!TypeOK
<1>4. ASSUME NEW d \in Dials, Dialing!ConnectFails(d) PROVE Dialing!TypeOK'
  BY <1>i, <1>4 DEF Dialing!ConnectFails, Dialing!TypeOK
<1>5. ASSUME NEW d \in Dials, Dialing!Send(d) PROVE Dialing!TypeOK'
  BY <1>i, <1>5 DEF Dialing!Send, Dialing!TypeOK
<1>6. ASSUME NEW d \in Dials, Dialing!Withdraw(d) PROVE Dialing!TypeOK'
  BY <1>i, <1>6 DEF Dialing!Withdraw, Dialing!TypeOK
<1>7. ASSUME NEW d \in Dials, Dialing!GiveUp(d) PROVE Dialing!TypeOK'
  BY <1>i, <1>7 DEF Dialing!GiveUp, Dialing!TypeOK
<1>8. ASSUME NEW d \in Dials, Dialing!ReceivedLate(d) PROVE Dialing!TypeOK'
  BY <1>i, <1>8 DEF Dialing!ReceivedLate, Dialing!TypeOK
<1>9. ASSUME NEW d \in Dials, Dialing!ReturnDialed(d) PROVE Dialing!TypeOK'
  BY <1>i, <1>9 DEF Dialing!ReturnDialed, Dialing!TypeOK
<1>10. ASSUME NEW d \in Dials, Dialing!Release(d) PROVE Dialing!TypeOK'
  BY <1>i, <1>10 DEF Dialing!Release, Dialing!TypeOK
<1>11. ASSUME NEW u \in Dialing!Users, Dialing!Upload(u) PROVE Dialing!TypeOK'
  BY <1>i, <1>11 DEF Dialing!Upload, Dialing!TypeOK
<1>12. ASSUME NEW u \in Dialing!Users, Dialing!LogIn(u) PROVE Dialing!TypeOK'
  BY <1>i, <1>12 DEF Dialing!LogIn, Dialing!TypeOK
<1>13. ASSUME NEW u \in Dialing!Users, Dialing!LogInFails(u) PROVE Dialing!TypeOK'
  BY <1>i, <1>13 DEF Dialing!LogInFails, Dialing!TypeOK
<1>14. ASSUME NEW u \in Dialing!Users, Dialing!Store(u) PROVE Dialing!TypeOK'
  BY <1>i, <1>14 DEF Dialing!Store, Dialing!TypeOK
<1>15. CASE UNCHANGED dialVars
  BY <1>i, <1>15 DEF dialVars, Dialing!TypeOK
<1> QED
  BY <1>1, <1>2, <1>3, <1>4, <1>5, <1>6, <1>7, <1>8, <1>9, <1>10, <1>11, <1>12, <1>13, <1>14,
       <1>15 DEF Dialing!Next

\* Steps keep a caller and its goroutine in step.
LEMMA DialHandStep == Dialing!DialAssumption /\ DialInv /\ [Dialing!Next]_dialVars => HandInv'
<1> SUFFICES ASSUME Dialing!DialAssumption, DialInv, [Dialing!Next]_dialVars PROVE HandInv'
  OBVIOUS
<1> USE DEF Dialing!DialAssumption, Dialing!Users, Dialing!Sources, Dialing!Caller,
     Dialing!Worker, Dialing!HasSource, Dialing!closeSignaling
<1>i. Dialing!TypeOK /\ HandInv
  BY DEF DialInv
<1>1. ASSUME NEW d \in Dials, Dialing!Dial(d) PROVE HandInv'
  BY <1>i, <1>1 DEF Dialing!Dial, HandInv, Dialing!TypeOK
<1>2. ASSUME NEW d \in Dials, Dialing!End(d) PROVE HandInv'
  BY <1>i, <1>2 DEF Dialing!End, HandInv, Dialing!TypeOK
<1>3. ASSUME NEW d \in Dials, Dialing!Connect(d) PROVE HandInv'
  BY <1>i, <1>3 DEF Dialing!Connect, HandInv, Dialing!TypeOK
<1>4. ASSUME NEW d \in Dials, Dialing!ConnectFails(d) PROVE HandInv'
  BY <1>i, <1>4 DEF Dialing!ConnectFails, HandInv, Dialing!TypeOK
<1>5. ASSUME NEW d \in Dials, Dialing!Send(d) PROVE HandInv'
  BY <1>i, <1>5 DEF Dialing!Send, HandInv, Dialing!TypeOK
<1>6. ASSUME NEW d \in Dials, Dialing!Withdraw(d) PROVE HandInv'
  BY <1>i, <1>6 DEF Dialing!Withdraw, HandInv, Dialing!TypeOK
<1>7. ASSUME NEW d \in Dials, Dialing!GiveUp(d) PROVE HandInv'
  BY <1>i, <1>7 DEF Dialing!GiveUp, HandInv, Dialing!TypeOK
<1>8. ASSUME NEW d \in Dials, Dialing!ReceivedLate(d) PROVE HandInv'
  BY <1>i, <1>8 DEF Dialing!ReceivedLate, HandInv, Dialing!TypeOK
<1>9. ASSUME NEW d \in Dials, Dialing!ReturnDialed(d) PROVE HandInv'
  BY <1>i, <1>9 DEF Dialing!ReturnDialed, HandInv, Dialing!TypeOK
<1>10. ASSUME NEW d \in Dials, Dialing!Release(d) PROVE HandInv'
  BY <1>i, <1>10 DEF Dialing!Release, HandInv, Dialing!TypeOK
<1>11. ASSUME NEW u \in Dialing!Users, Dialing!Upload(u) PROVE HandInv'
  BY <1>i, <1>11 DEF Dialing!Upload, HandInv, Dialing!TypeOK
<1>12. ASSUME NEW u \in Dialing!Users, Dialing!LogIn(u) PROVE HandInv'
  BY <1>i, <1>12 DEF Dialing!LogIn, HandInv, Dialing!TypeOK
<1>13. ASSUME NEW u \in Dialing!Users, Dialing!LogInFails(u) PROVE HandInv'
  BY <1>i, <1>13 DEF Dialing!LogInFails, HandInv, Dialing!TypeOK
<1>14. ASSUME NEW u \in Dialing!Users, Dialing!Store(u) PROVE HandInv'
  BY <1>i, <1>14 DEF Dialing!Store, HandInv, Dialing!TypeOK
<1>15. CASE UNCHANGED dialVars
  BY <1>i, <1>15 DEF dialVars, HandInv, Dialing!TypeOK
<1> QED
  BY <1>1, <1>2, <1>3, <1>4, <1>5, <1>6, <1>7, <1>8, <1>9, <1>10, <1>11, <1>12, <1>13, <1>14,
       <1>15 DEF Dialing!Next

\* A step that lets go of an open connection closes it.
LEMMA DialOwnerStep ==
  Dialing!DialAssumption /\ DialInv /\ [Dialing!Next]_dialVars => Dialing!NoneIsLost'
<1> SUFFICES ASSUME Dialing!DialAssumption, DialInv, [Dialing!Next]_dialVars
             PROVE  Dialing!NoneIsLost'
  OBVIOUS
<1> USE DEF Dialing!DialAssumption, Dialing!Users, Dialing!Sources, Dialing!Caller,
     Dialing!Worker, Dialing!HasSource, Dialing!closeSignaling
<1>i. Dialing!TypeOK /\ HandInv /\ Dialing!NoneIsLost
  BY DEF DialInv
<1>1. ASSUME NEW d \in Dials, Dialing!Dial(d) PROVE Dialing!NoneIsLost'
  BY <1>i, <1>1 DEF Dialing!Dial, Dialing!NoneIsLost, HandInv, Dialing!TypeOK
<1>2. ASSUME NEW d \in Dials, Dialing!End(d) PROVE Dialing!NoneIsLost'
  BY <1>i, <1>2 DEF Dialing!End, Dialing!NoneIsLost, HandInv, Dialing!TypeOK
<1>3. ASSUME NEW d \in Dials, Dialing!Connect(d) PROVE Dialing!NoneIsLost'
  BY <1>i, <1>3 DEF Dialing!Connect, Dialing!NoneIsLost, HandInv, Dialing!TypeOK
<1>4. ASSUME NEW d \in Dials, Dialing!ConnectFails(d) PROVE Dialing!NoneIsLost'
  BY <1>i, <1>4 DEF Dialing!ConnectFails, Dialing!NoneIsLost, HandInv, Dialing!TypeOK
<1>5. ASSUME NEW d \in Dials, Dialing!Send(d) PROVE Dialing!NoneIsLost'
  BY <1>i, <1>5 DEF Dialing!Send, Dialing!NoneIsLost, HandInv, Dialing!TypeOK
<1>6. ASSUME NEW d \in Dials, Dialing!Withdraw(d) PROVE Dialing!NoneIsLost'
  BY <1>i, <1>6 DEF Dialing!Withdraw, Dialing!NoneIsLost, HandInv, Dialing!TypeOK
<1>7. ASSUME NEW d \in Dials, Dialing!GiveUp(d) PROVE Dialing!NoneIsLost'
  BY <1>i, <1>7 DEF Dialing!GiveUp, Dialing!NoneIsLost, HandInv, Dialing!TypeOK
<1>8. ASSUME NEW d \in Dials, Dialing!ReceivedLate(d) PROVE Dialing!NoneIsLost'
  BY <1>i, <1>8 DEF Dialing!ReceivedLate, Dialing!NoneIsLost, HandInv, Dialing!TypeOK
<1>9. ASSUME NEW d \in Dials, Dialing!ReturnDialed(d) PROVE Dialing!NoneIsLost'
  BY <1>i, <1>9 DEF Dialing!ReturnDialed, Dialing!NoneIsLost, HandInv, Dialing!TypeOK
<1>10. ASSUME NEW d \in Dials, Dialing!Release(d) PROVE Dialing!NoneIsLost'
  BY <1>i, <1>10 DEF Dialing!Release, Dialing!NoneIsLost, HandInv, Dialing!TypeOK
<1>11. ASSUME NEW u \in Dialing!Users, Dialing!Upload(u) PROVE Dialing!NoneIsLost'
  BY <1>i, <1>11 DEF Dialing!Upload, Dialing!NoneIsLost, HandInv, Dialing!TypeOK
<1>12. ASSUME NEW u \in Dialing!Users, Dialing!LogIn(u) PROVE Dialing!NoneIsLost'
  BY <1>i, <1>12 DEF Dialing!LogIn, Dialing!NoneIsLost, HandInv, Dialing!TypeOK
<1>13. ASSUME NEW u \in Dialing!Users, Dialing!LogInFails(u) PROVE Dialing!NoneIsLost'
  BY <1>i, <1>13 DEF Dialing!LogInFails, Dialing!NoneIsLost, HandInv, Dialing!TypeOK
<1>14. ASSUME NEW u \in Dialing!Users, Dialing!Store(u) PROVE Dialing!NoneIsLost'
  BY <1>i, <1>14 DEF Dialing!Store, Dialing!NoneIsLost, HandInv, Dialing!TypeOK
<1>15. CASE UNCHANGED dialVars
  BY <1>i, <1>15 DEF dialVars, Dialing!NoneIsLost, HandInv, Dialing!TypeOK
<1> QED
  BY <1>1, <1>2, <1>3, <1>4, <1>5, <1>6, <1>7, <1>8, <1>9, <1>10, <1>11, <1>12, <1>13, <1>14,
       <1>15 DEF Dialing!Next

\* Nothing touches a connection that was returned.
LEMMA DialUsableStep ==
  Dialing!DialAssumption /\ DialInv /\ [Dialing!Next]_dialVars => Dialing!GotIsUsable'
<1> SUFFICES ASSUME Dialing!DialAssumption, DialInv, [Dialing!Next]_dialVars
             PROVE  Dialing!GotIsUsable'
  OBVIOUS
<1> USE DEF Dialing!DialAssumption, Dialing!Users, Dialing!Sources, Dialing!Caller,
     Dialing!Worker, Dialing!HasSource, Dialing!closeSignaling
<1>i. Dialing!TypeOK /\ HandInv /\ Dialing!GotIsUsable
  BY DEF DialInv
<1>1. ASSUME NEW d \in Dials, Dialing!Dial(d) PROVE Dialing!GotIsUsable'
  BY <1>i, <1>1 DEF Dialing!Dial, Dialing!GotIsUsable, HandInv, Dialing!TypeOK
<1>2. ASSUME NEW d \in Dials, Dialing!End(d) PROVE Dialing!GotIsUsable'
  BY <1>i, <1>2 DEF Dialing!End, Dialing!GotIsUsable, HandInv, Dialing!TypeOK
<1>3. ASSUME NEW d \in Dials, Dialing!Connect(d) PROVE Dialing!GotIsUsable'
  BY <1>i, <1>3 DEF Dialing!Connect, Dialing!GotIsUsable, HandInv, Dialing!TypeOK
<1>4. ASSUME NEW d \in Dials, Dialing!ConnectFails(d) PROVE Dialing!GotIsUsable'
  BY <1>i, <1>4 DEF Dialing!ConnectFails, Dialing!GotIsUsable, HandInv, Dialing!TypeOK
<1>5. ASSUME NEW d \in Dials, Dialing!Send(d) PROVE Dialing!GotIsUsable'
  BY <1>i, <1>5 DEF Dialing!Send, Dialing!GotIsUsable, HandInv, Dialing!TypeOK
<1>6. ASSUME NEW d \in Dials, Dialing!Withdraw(d) PROVE Dialing!GotIsUsable'
  BY <1>i, <1>6 DEF Dialing!Withdraw, Dialing!GotIsUsable, HandInv, Dialing!TypeOK
<1>7. ASSUME NEW d \in Dials, Dialing!GiveUp(d) PROVE Dialing!GotIsUsable'
  BY <1>i, <1>7 DEF Dialing!GiveUp, Dialing!GotIsUsable, HandInv, Dialing!TypeOK
<1>8. ASSUME NEW d \in Dials, Dialing!ReceivedLate(d) PROVE Dialing!GotIsUsable'
  BY <1>i, <1>8 DEF Dialing!ReceivedLate, Dialing!GotIsUsable, HandInv, Dialing!TypeOK
<1>9. ASSUME NEW d \in Dials, Dialing!ReturnDialed(d) PROVE Dialing!GotIsUsable'
  BY <1>i, <1>9 DEF Dialing!ReturnDialed, Dialing!GotIsUsable, HandInv, Dialing!TypeOK
<1>10. ASSUME NEW d \in Dials, Dialing!Release(d) PROVE Dialing!GotIsUsable'
  BY <1>i, <1>10 DEF Dialing!Release, Dialing!GotIsUsable, HandInv, Dialing!TypeOK
<1>11. ASSUME NEW u \in Dialing!Users, Dialing!Upload(u) PROVE Dialing!GotIsUsable'
  BY <1>i, <1>11 DEF Dialing!Upload, Dialing!GotIsUsable, HandInv, Dialing!TypeOK
<1>12. ASSUME NEW u \in Dialing!Users, Dialing!LogIn(u) PROVE Dialing!GotIsUsable'
  BY <1>i, <1>12 DEF Dialing!LogIn, Dialing!GotIsUsable, HandInv, Dialing!TypeOK
<1>13. ASSUME NEW u \in Dialing!Users, Dialing!LogInFails(u) PROVE Dialing!GotIsUsable'
  BY <1>i, <1>13 DEF Dialing!LogInFails, Dialing!GotIsUsable, HandInv, Dialing!TypeOK
<1>14. ASSUME NEW u \in Dialing!Users, Dialing!Store(u) PROVE Dialing!GotIsUsable'
  BY <1>i, <1>14 DEF Dialing!Store, Dialing!GotIsUsable, HandInv, Dialing!TypeOK
<1>15. CASE UNCHANGED dialVars
  BY <1>i, <1>15 DEF dialVars, Dialing!GotIsUsable, HandInv, Dialing!TypeOK
<1> QED
  BY <1>1, <1>2, <1>3, <1>4, <1>5, <1>6, <1>7, <1>8, <1>9, <1>10, <1>11, <1>12, <1>13, <1>14,
       <1>15 DEF Dialing!Next

\* A source is a goroutine's own until it is stored.
LEMMA DialOwnSourceStep ==
  Dialing!DialAssumption /\ DialInv /\ [Dialing!Next]_dialVars => SourceInv'
<1> SUFFICES ASSUME Dialing!DialAssumption, DialInv, [Dialing!Next]_dialVars PROVE SourceInv'
  OBVIOUS
<1> USE DEF Dialing!DialAssumption, Dialing!Users, Dialing!Sources, Dialing!Caller,
     Dialing!Worker, Dialing!HasSource, Dialing!closeSignaling
<1>i. Dialing!TypeOK /\ SourceInv
  BY DEF DialInv
<1>1. ASSUME NEW d \in Dials, Dialing!Dial(d) PROVE SourceInv'
  BY <1>i, <1>1 DEF Dialing!Dial, SourceInv, Dialing!TypeOK
<1>2. ASSUME NEW d \in Dials, Dialing!End(d) PROVE SourceInv'
  BY <1>i, <1>2 DEF Dialing!End, SourceInv, Dialing!TypeOK
<1>3. ASSUME NEW d \in Dials, Dialing!Connect(d) PROVE SourceInv'
  BY <1>i, <1>3 DEF Dialing!Connect, SourceInv, Dialing!TypeOK
<1>4. ASSUME NEW d \in Dials, Dialing!ConnectFails(d) PROVE SourceInv'
  BY <1>i, <1>4 DEF Dialing!ConnectFails, SourceInv, Dialing!TypeOK
<1>5. ASSUME NEW d \in Dials, Dialing!Send(d) PROVE SourceInv'
  BY <1>i, <1>5 DEF Dialing!Send, SourceInv, Dialing!TypeOK
<1>6. ASSUME NEW d \in Dials, Dialing!Withdraw(d) PROVE SourceInv'
  BY <1>i, <1>6 DEF Dialing!Withdraw, SourceInv, Dialing!TypeOK
<1>7. ASSUME NEW d \in Dials, Dialing!GiveUp(d) PROVE SourceInv'
  BY <1>i, <1>7 DEF Dialing!GiveUp, SourceInv, Dialing!TypeOK
<1>8. ASSUME NEW d \in Dials, Dialing!ReceivedLate(d) PROVE SourceInv'
  BY <1>i, <1>8 DEF Dialing!ReceivedLate, SourceInv, Dialing!TypeOK
<1>9. ASSUME NEW d \in Dials, Dialing!ReturnDialed(d) PROVE SourceInv'
  BY <1>i, <1>9 DEF Dialing!ReturnDialed, SourceInv, Dialing!TypeOK
<1>10. ASSUME NEW d \in Dials, Dialing!Release(d) PROVE SourceInv'
  BY <1>i, <1>10 DEF Dialing!Release, SourceInv, Dialing!TypeOK
<1>11. ASSUME NEW u \in Dialing!Users, Dialing!Upload(u) PROVE SourceInv'
  BY <1>i, <1>11 DEF Dialing!Upload, SourceInv, Dialing!TypeOK
<1>12. ASSUME NEW u \in Dialing!Users, Dialing!LogIn(u) PROVE SourceInv'
  BY <1>i, <1>12 DEF Dialing!LogIn, SourceInv, Dialing!TypeOK
<1>13. ASSUME NEW u \in Dialing!Users, Dialing!LogInFails(u) PROVE SourceInv'
  BY <1>i, <1>13 DEF Dialing!LogInFails, SourceInv, Dialing!TypeOK
<1>14. ASSUME NEW u \in Dialing!Users, Dialing!Store(u) PROVE SourceInv'
  BY <1>i, <1>14 DEF Dialing!Store, SourceInv, Dialing!TypeOK
<1>15. CASE UNCHANGED dialVars
  BY <1>i, <1>15 DEF dialVars, SourceInv, Dialing!TypeOK
<1> QED
  BY <1>1, <1>2, <1>3, <1>4, <1>5, <1>6, <1>7, <1>8, <1>9, <1>10, <1>11, <1>12, <1>13, <1>14,
       <1>15 DEF Dialing!Next

\* The first source stored is never replaced.
LEMMA DialOneSourceStep ==
  Dialing!DialAssumption /\ DialInv /\ [Dialing!Next]_dialVars => Dialing!OneSource'
<1> SUFFICES ASSUME Dialing!DialAssumption, DialInv, [Dialing!Next]_dialVars
             PROVE  Dialing!OneSource'
  OBVIOUS
<1> USE DEF Dialing!DialAssumption, Dialing!Users, Dialing!Sources, Dialing!Caller,
     Dialing!Worker, Dialing!HasSource, Dialing!closeSignaling
<1>i. Dialing!TypeOK /\ SourceInv /\ Dialing!OneSource
  BY DEF DialInv
<1>1. ASSUME NEW d \in Dials, Dialing!Dial(d) PROVE Dialing!OneSource'
  BY <1>i, <1>1 DEF Dialing!Dial, Dialing!OneSource, SourceInv, Dialing!TypeOK
<1>2. ASSUME NEW d \in Dials, Dialing!End(d) PROVE Dialing!OneSource'
  BY <1>i, <1>2 DEF Dialing!End, Dialing!OneSource, SourceInv, Dialing!TypeOK
<1>3. ASSUME NEW d \in Dials, Dialing!Connect(d) PROVE Dialing!OneSource'
  BY <1>i, <1>3 DEF Dialing!Connect, Dialing!OneSource, SourceInv, Dialing!TypeOK
<1>4. ASSUME NEW d \in Dials, Dialing!ConnectFails(d) PROVE Dialing!OneSource'
  BY <1>i, <1>4 DEF Dialing!ConnectFails, Dialing!OneSource, SourceInv, Dialing!TypeOK
<1>5. ASSUME NEW d \in Dials, Dialing!Send(d) PROVE Dialing!OneSource'
  BY <1>i, <1>5 DEF Dialing!Send, Dialing!OneSource, SourceInv, Dialing!TypeOK
<1>6. ASSUME NEW d \in Dials, Dialing!Withdraw(d) PROVE Dialing!OneSource'
  BY <1>i, <1>6 DEF Dialing!Withdraw, Dialing!OneSource, SourceInv, Dialing!TypeOK
<1>7. ASSUME NEW d \in Dials, Dialing!GiveUp(d) PROVE Dialing!OneSource'
  BY <1>i, <1>7 DEF Dialing!GiveUp, Dialing!OneSource, SourceInv, Dialing!TypeOK
<1>8. ASSUME NEW d \in Dials, Dialing!ReceivedLate(d) PROVE Dialing!OneSource'
  BY <1>i, <1>8 DEF Dialing!ReceivedLate, Dialing!OneSource, SourceInv, Dialing!TypeOK
<1>9. ASSUME NEW d \in Dials, Dialing!ReturnDialed(d) PROVE Dialing!OneSource'
  BY <1>i, <1>9 DEF Dialing!ReturnDialed, Dialing!OneSource, SourceInv, Dialing!TypeOK
<1>10. ASSUME NEW d \in Dials, Dialing!Release(d) PROVE Dialing!OneSource'
  BY <1>i, <1>10 DEF Dialing!Release, Dialing!OneSource, SourceInv, Dialing!TypeOK
<1>11. ASSUME NEW u \in Dialing!Users, Dialing!Upload(u) PROVE Dialing!OneSource'
  BY <1>i, <1>11 DEF Dialing!Upload, Dialing!OneSource, SourceInv, Dialing!TypeOK
<1>12. ASSUME NEW u \in Dialing!Users, Dialing!LogIn(u) PROVE Dialing!OneSource'
  BY <1>i, <1>12 DEF Dialing!LogIn, Dialing!OneSource, SourceInv, Dialing!TypeOK
<1>13. ASSUME NEW u \in Dialing!Users, Dialing!LogInFails(u) PROVE Dialing!OneSource'
  BY <1>i, <1>13 DEF Dialing!LogInFails, Dialing!OneSource, SourceInv, Dialing!TypeOK
<1>14. ASSUME NEW u \in Dialing!Users, Dialing!Store(u) PROVE Dialing!OneSource'
  BY <1>i, <1>14 DEF Dialing!Store, Dialing!OneSource, SourceInv, Dialing!TypeOK
<1>15. CASE UNCHANGED dialVars
  BY <1>i, <1>15 DEF dialVars, Dialing!OneSource, SourceInv, Dialing!TypeOK
<1> QED
  BY <1>1, <1>2, <1>3, <1>4, <1>5, <1>6, <1>7, <1>8, <1>9, <1>10, <1>11, <1>12, <1>13, <1>14,
       <1>15 DEF Dialing!Next

\* DialInv is an invariant of the dials.
THEOREM DialInductive == Dialing!DialAssumption => (Dialing!Spec => []DialInv)
<1> SUFFICES ASSUME Dialing!DialAssumption PROVE Dialing!Spec => []DialInv
  OBVIOUS
<1>1. Dialing!Init => DialInv
  BY DEF Dialing!DialAssumption, Dialing!Init, DialInv, Dialing!TypeOK, HandInv, SourceInv,
       Dialing!NoneIsLost, Dialing!GotIsUsable, Dialing!OneSource, Dialing!Users,
       Dialing!Sources
<1>2. DialInv /\ [Dialing!Next]_dialVars => DialInv'
  BY DialTypeStep, DialHandStep, DialOwnerStep, DialUsableStep, DialOwnSourceStep,
       DialOneSourceStep DEF DialInv
<1> QED
  BY <1>1, <1>2, PTL DEF Dialing!Spec, Dialing!vars, dialVars

\* For any number of dials, each open connection has somebody to close it, and
\* the one dialSignaling returns stays open, its goroutine being done with it.
THEOREM ConnectionsHaveOwners ==
  Dialing!DialAssumption => (Dialing!Spec => [](Dialing!NoneIsLost /\ Dialing!GotIsUsable))
<1> SUFFICES ASSUME Dialing!DialAssumption
             PROVE  Dialing!Spec => [](Dialing!NoneIsLost /\ Dialing!GotIsUsable)
  OBVIOUS
<1>1. DialInv => Dialing!NoneIsLost /\ Dialing!GotIsUsable
  BY DEF DialInv
<1> QED
  BY <1>1, DialInductive, PTL

\* However many log in at once, they use one source.
THEOREM SourceIsShared == Dialing!DialAssumption => (Dialing!Spec => []Dialing!OneSource)
<1> SUFFICES ASSUME Dialing!DialAssumption PROVE Dialing!Spec => []Dialing!OneSource
  OBVIOUS
<1>1. DialInv => Dialing!OneSource
  BY DEF DialInv
<1> QED
  BY <1>1, DialInductive, PTL

\* A dial logs in only while no source was obtained and stored.
THEOREM LoginIsKept == Dialing!DialAssumption => (Dialing!Spec => Dialing!NoSecondLogin)
<1> SUFFICES ASSUME Dialing!DialAssumption PROVE Dialing!Spec => Dialing!NoSecondLogin
  OBVIOUS
<1> DEFINE Kept ==
      \A d, u \in Dialing!Users :
        dialer[d] = "none" /\ dialer'[d] = "login"
        => source[u] = NoSource \/ dialer[u] = "store"
<1>1. DialInv /\ [Dialing!Next]_dialVars => [Kept]_dialVars
  <2> SUFFICES ASSUME DialInv, Dialing!Next, NEW v \in Dialing!Users, NEW w \in Dialing!Users,
                      dialer[v] = "none", dialer'[v] = "login"
               PROVE  source[w] = NoSource \/ dialer[w] = "store"
    OBVIOUS
  <2>i. Dialing!TypeOK /\ Dialing!OneSource
    BY DEF DialInv
  <2>1. stored = NoSource
    <3> USE DEF Dialing!Caller, Dialing!Worker, Dialing!HasSource, Dialing!TypeOK, Dialing!Users
    <3>1. ASSUME NEW d \in Dials, Dialing!Dial(d) PROVE stored = NoSource
      BY <2>i, <3>1 DEF Dialing!Dial
    <3>2. ASSUME NEW d \in Dials, Dialing!End(d) PROVE stored = NoSource
      BY <2>i, <3>2 DEF Dialing!End
    <3>3. ASSUME NEW d \in Dials, Dialing!Connect(d) PROVE stored = NoSource
      BY <2>i, <3>3 DEF Dialing!Connect
    <3>4. ASSUME NEW d \in Dials, Dialing!ConnectFails(d) PROVE stored = NoSource
      BY <2>i, <3>4 DEF Dialing!ConnectFails
    <3>5. ASSUME NEW d \in Dials, Dialing!Send(d) PROVE stored = NoSource
      BY <2>i, <3>5 DEF Dialing!Send
    <3>6. ASSUME NEW d \in Dials, Dialing!Withdraw(d) PROVE stored = NoSource
      BY <2>i, <3>6 DEF Dialing!Withdraw
    <3>7. ASSUME NEW d \in Dials, Dialing!GiveUp(d) PROVE stored = NoSource
      BY <2>i, <3>7 DEF Dialing!GiveUp
    <3>8. ASSUME NEW d \in Dials, Dialing!ReceivedLate(d) PROVE stored = NoSource
      BY <2>i, <3>8 DEF Dialing!ReceivedLate
    <3>9. ASSUME NEW d \in Dials, Dialing!ReturnDialed(d) PROVE stored = NoSource
      BY <2>i, <3>9 DEF Dialing!ReturnDialed
    <3>10. ASSUME NEW d \in Dials, Dialing!Release(d) PROVE stored = NoSource
      BY <2>i, <3>10 DEF Dialing!Release
    <3>11. ASSUME NEW u \in Dialing!Users, Dialing!Upload(u) PROVE stored = NoSource
      BY <2>i, <3>11 DEF Dialing!Upload
    <3>12. ASSUME NEW u \in Dialing!Users, Dialing!LogIn(u) PROVE stored = NoSource
      BY <2>i, <3>12 DEF Dialing!LogIn
    <3>13. ASSUME NEW u \in Dialing!Users, Dialing!LogInFails(u) PROVE stored = NoSource
      BY <2>i, <3>13 DEF Dialing!LogInFails
    <3>14. ASSUME NEW u \in Dialing!Users, Dialing!Store(u) PROVE stored = NoSource
      BY <2>i, <3>14 DEF Dialing!Store
    <3> QED
      BY <3>1, <3>2, <3>3, <3>4, <3>5, <3>6, <3>7, <3>8, <3>9, <3>10, <3>11, <3>12, <3>13,
           <3>14 DEF Dialing!Next
  <2> QED
    BY <2>i, <2>1 DEF Dialing!OneSource
<1> QED
  BY <1>1, DialInductive, PTL DEF Dialing!Spec, Dialing!vars, dialVars, Dialing!NoSecondLogin

-----------------------------------------------------------------------------
(* The process. *)

\* What Shutdown's own variables are.
ProcessTypeOK ==
  /\ command \in {"starting", "waiting", "closing", "unsubscribing", "releasing",
                  "draining", "leaving", "exited"}
  /\ result \in {"none", "start", "run", "ok"}
  /\ lock \in Locking \cup {"free", "command"}
  /\ ended \in BOOLEAN /\ failure \in BOOLEAN
  /\ worker \in [Workers -> {"none", "running", "blocked", "holding", "done"}]
  /\ counted \in SUBSET Workers
  /\ social \in {"none", "asking", "held", "gone"}
  /\ client \in {"open", "closed"}
  /\ \A w \in Workers : worker[w] = "holding" <=> lock = w
  /\ \A w \in Workers : worker[w] = "blocked" => w \in Locking

Pending(d) == caller[d] \in {"waiting", "received"}
Active(d) == Pending(d) \/ caller[d] = "got"

\* What each place of the command says of the rest: nothing runs before Start has
\* returned, the context has ended from Wait on, Close holds b.mu while it releases,
\* and nobody is registered as a handler from then on.
PhaseInv ==
  /\ command = "starting" =>
       /\ lock = "free" /\ social = "none" /\ client = "open" /\ counted = {}
       /\ worker = [w \in Workers |-> "none"]
  /\ command \in {"starting", "waiting"} <=> result = "none"
  /\ result # "none" => ended
  /\ command \in {"unsubscribing", "releasing"} <=> lock = "command"
  /\ command \in {"releasing", "draining", "leaving", "exited"} => social \in {"none", "gone"}
  /\ client = "closed" => command \in {"leaving", "exited"}

\* One dial at a time is under way or in use, it is under way only for Start or for
\* the loop under b.mu, and none is once the sessions are released.
ActiveInv ==
  /\ \A d, e \in Dials : Active(d) /\ Active(e) => d = e
  /\ \A d \in Dials : Pending(d) => command = "starting" \/ worker[Loop] = "holding"
  /\ command \in {"draining", "leaving", "exited"} => \A d \in Dials : ~Active(d)

\* Who runs is counted, and after a Close that waited only the deaf are.
CountedInv ==
  /\ \A w \in Workers : worker[w] \notin {"none", "done"} => w \in counted
  /\ command \in {"leaving", "exited"} /\ result # "start" => Counted \subseteq Deaf

IInv ==
  /\ DialInv /\ ProcessTypeOK /\ PhaseInv /\ ActiveInv /\ CountedInv
  /\ FailureIsReported

\* The kinds of steps of the dials: one begins, or what is there goes on.
Begins(d) ==
  /\ caller[d] = "idle" /\ caller' = [caller EXCEPT ![d] = "waiting"]
  /\ \A e \in Dials : e # d => dialer'[e] = dialer[e]
  /\ \/ command = "starting" /\ \A e \in Dials : caller[e] = "idle"
     \/ worker[Loop] = "holding" /\ ~ended /\ \A e \in Dials : ~Active(e)

GoesOn ==
  \A d \in Dials :
    /\ Pending(d)' => Pending(d)
    /\ Active(d)' => Active(d)
    /\ Alive(d)' => Alive(d)

\* A step of the process itself leaves the dials alone, and names what it changes.
ProcessStep ==
  \/ Start
  \/ StartFails
  \/ Wait
  \/ Close
  \/ SocialReleased
  \/ ReleaseSessions
  \/ Drained
  \/ DrainTimesOut
  \/ CloseClient
  \/ Exit
  \/ Signal
  \/ GiveUp
  \/ Subscribe
  \/ SubscribeFails
  \/ Unsubscribe
  \/ \E w \in Workers : Wants(w)
  \/ \E w \in Workers : Acquire(w)
  \/ \E w \in Workers : Release(w)
  \/ \E w \in Workers : Spawn(w)
  \/ \E w \in Workers : Finish(w)

DialStep ==
  \/ \E d \in Dials : StartReleases(d)
  \/ \E d \in Dials : StartDials(d)
  \/ \E d \in Dials : LoopReleases(d)
  \/ \E d \in Dials : LoopDials(d)
  \/ \E d \in Dials : Offer(d)
  \/ \E d \in Dials : Receive(d)
  \/ \E d \in Dials : TimeOut(d)
  \/ \E d \in Dials : ReleaseSignaling(d)
  \/ \E u \in Uploads : Asks(u)
  \/ \E u \in Dials \cup Uploads : Dialer(u)

\* The steps one by one.
LEMMA Steps == ASSUME [Next]_vars PROVE ProcessStep \/ DialStep \/ UNCHANGED vars
  BY DEF Next, Command, Subscription, ProcessStep, DialStep

\* What Shutdown does to the dials is what SignalingDial lets them do.
LEMMA DialsStep ==
  ASSUME ShutdownAssumption, [Next]_vars
  PROVE  [Dialing!Next]_dialVars
<1> USE DEF ShutdownAssumption, Dialing!DialAssumption, Dialing!Users, Dialing!Next
<1>1. ASSUME NEW d \in Dials, StartReleases(d) PROVE Dialing!Next
  BY <1>1 DEF StartReleases
<1>2. ASSUME NEW d \in Dials, StartDials(d) PROVE Dialing!Next
  BY <1>2 DEF StartDials
<1>3. ASSUME NEW d \in Dials, LoopReleases(d) PROVE Dialing!Next
  BY <1>3 DEF LoopReleases
<1>4. ASSUME NEW d \in Dials, LoopDials(d) PROVE Dialing!Next
  BY <1>4 DEF LoopDials
<1>5. ASSUME NEW d \in Dials, Offer(d) PROVE Dialing!Next
  BY <1>5 DEF Offer, Dialing!Offering
<1>6. ASSUME NEW d \in Dials, Receive(d) PROVE Dialing!Next
  BY <1>6 DEF Receive, Dialing!Receiving
<1>7. ASSUME NEW d \in Dials, TimeOut(d) PROVE Dialing!Next
  BY <1>7 DEF TimeOut
<1>8. ASSUME NEW d \in Dials, ReleaseSignaling(d) PROVE Dialing!Next
  BY <1>8 DEF ReleaseSignaling
<1>9. ASSUME NEW u \in Uploads, Asks(u) PROVE Dialing!Next
  BY <1>9 DEF Asks
<1>10. ASSUME NEW u \in Dials \cup Uploads, Dialer(u) PROVE Dialing!Next
  BY <1>10 DEF Dialer, Dialing!Working
<1>11. CASE ProcessStep
  <2>1. ASSUME Start PROVE UNCHANGED dialVars
    BY <2>1 DEF Start
  <2>2. ASSUME StartFails PROVE UNCHANGED dialVars
    BY <2>2 DEF StartFails
  <2>3. ASSUME Wait PROVE UNCHANGED dialVars
    BY <2>3 DEF Wait
  <2>4. ASSUME Close PROVE UNCHANGED dialVars
    BY <2>4 DEF Close
  <2>5. ASSUME SocialReleased PROVE UNCHANGED dialVars
    BY <2>5 DEF SocialReleased
  <2>6. ASSUME ReleaseSessions PROVE UNCHANGED dialVars
    BY <2>6 DEF ReleaseSessions
  <2>7. ASSUME Drained PROVE UNCHANGED dialVars
    BY <2>7 DEF Drained
  <2>8. ASSUME DrainTimesOut PROVE UNCHANGED dialVars
    BY <2>8 DEF DrainTimesOut
  <2>9. ASSUME CloseClient PROVE UNCHANGED dialVars
    BY <2>9 DEF CloseClient
  <2>10. ASSUME Exit PROVE UNCHANGED dialVars
    BY <2>10 DEF Exit
  <2>11. ASSUME Signal PROVE UNCHANGED dialVars
    BY <2>11 DEF Signal
  <2>12. ASSUME GiveUp PROVE UNCHANGED dialVars
    BY <2>12 DEF GiveUp
  <2>13. ASSUME Subscribe PROVE UNCHANGED dialVars
    BY <2>13 DEF Subscribe, Unsocial, Social
  <2>14. ASSUME SubscribeFails PROVE UNCHANGED dialVars
    BY <2>14 DEF SubscribeFails, Unsocial, Social
  <2>15. ASSUME Unsubscribe PROVE UNCHANGED dialVars
    BY <2>15 DEF Unsubscribe, Unsocial, Social
  <2>16. ASSUME NEW w \in Workers, Wants(w) PROVE UNCHANGED dialVars
    BY <2>16 DEF Wants
  <2>17. ASSUME NEW w \in Workers, Acquire(w) PROVE UNCHANGED dialVars
    BY <2>17 DEF Acquire
  <2>18. ASSUME NEW w \in Workers, Release(w) PROVE UNCHANGED dialVars
    BY <2>18 DEF Release
  <2>19. ASSUME NEW w \in Workers, Spawn(w) PROVE UNCHANGED dialVars
    BY <2>19 DEF Spawn
  <2>20. ASSUME NEW w \in Workers, Finish(w) PROVE UNCHANGED dialVars
    BY <2>20 DEF Finish
  <2> QED
    BY <1>11, <2>1, <2>2, <2>3, <2>4, <2>5, <2>6, <2>7, <2>8, <2>9, <2>10, <2>11, <2>12,
         <2>13, <2>14, <2>15, <2>16, <2>17, <2>18, <2>19, <2>20 DEF ProcessStep
<1>12. CASE UNCHANGED vars
  BY <1>12 DEF vars
<1> QED
  BY Steps, <1>1, <1>2, <1>3, <1>4, <1>5, <1>6, <1>7, <1>8, <1>9, <1>10, <1>11, <1>12 DEF
       DialStep

\* Of the steps of the dials, only a call of dialSignaling makes another dial active.
LEMMA DialKinds ==
  ASSUME ShutdownAssumption, IInv, DialStep
  PROVE  UNCHANGED processVars /\ ((\E d \in Dials : Begins(d)) \/ GoesOn)
<1> USE DEF ShutdownAssumption, Dialing!DialAssumption, Dialing!Caller, Dialing!Worker
<1>i. Dialing!TypeOK
  BY DEF IInv, DialInv
<1> USE DEF Dialing!Users, Dialing!TypeOK
<1>1. ASSUME NEW d \in Dials, StartReleases(d) PROVE UNCHANGED processVars /\ GoesOn
  BY <1>i, <1>1 DEF StartReleases, Dialing!Release, GoesOn, Active, Pending, Alive
<1>2. ASSUME NEW d \in Dials, StartDials(d) PROVE UNCHANGED processVars /\ Begins(d)
  BY <1>i, <1>2 DEF StartDials, Dialing!Dial, Begins, Active, Pending
<1>3. ASSUME NEW d \in Dials, LoopReleases(d) PROVE UNCHANGED processVars /\ GoesOn
  BY <1>i, <1>3 DEF LoopReleases, Dialing!Release, GoesOn, Active, Pending, Alive
<1>4. ASSUME NEW d \in Dials, LoopDials(d) PROVE UNCHANGED processVars /\ Begins(d)
  BY <1>i, <1>4 DEF LoopDials, Dialing!Dial, Dialing!InUse, Dialing!InFlight, Begins, Active,
       Pending
<1>5. ASSUME NEW d \in Dials, Offer(d) PROVE UNCHANGED processVars /\ GoesOn
  BY <1>i, <1>5 DEF Offer, Dialing!Offering, Dialing!Send, Dialing!Withdraw, GoesOn, Active,
       Pending, Alive
<1>6. ASSUME NEW d \in Dials, Receive(d) PROVE UNCHANGED processVars /\ GoesOn
  BY <1>i, <1>6 DEF Receive, Dialing!Receiving, Dialing!GiveUp, Dialing!ReceivedLate,
       Dialing!ReturnDialed, GoesOn, Active, Pending, Alive
<1>7. ASSUME NEW d \in Dials, TimeOut(d) PROVE UNCHANGED processVars /\ GoesOn
  BY <1>i, <1>7 DEF TimeOut, Dialing!End, GoesOn, Active, Pending, Alive
<1>8. ASSUME NEW d \in Dials, ReleaseSignaling(d) PROVE UNCHANGED processVars /\ GoesOn
  BY <1>i, <1>8 DEF ReleaseSignaling, Dialing!Release, GoesOn, Active, Pending, Alive
<1>9. ASSUME NEW u \in Uploads, Asks(u) PROVE UNCHANGED processVars /\ GoesOn
  BY <1>i, <1>9 DEF Asks, Dialing!Upload, GoesOn, Active, Pending, Alive
<1>10. ASSUME NEW u \in Dials \cup Uploads, Dialer(u) PROVE UNCHANGED processVars /\ GoesOn
  BY <1>i, <1>10 DEF Dialer, Dialing!Working, Dialing!LogIn, Dialing!LogInFails,
       Dialing!Store, Dialing!Connect, Dialing!ConnectFails, GoesOn, Active, Pending, Alive
<1> QED
  BY <1>1, <1>2, <1>3, <1>4, <1>5, <1>6, <1>7, <1>8, <1>9, <1>10 DEF DialStep

\* b.mu is held by who took it, and nothing else changes a type.
LEMMA TypeStep ==
  ASSUME ShutdownAssumption, IInv, [Next]_vars
  PROVE  ProcessTypeOK'
<1> USE DEF ShutdownAssumption, Locking, Workers
<1>i. ProcessTypeOK /\ PhaseInv
  BY DEF IInv
<1>1. CASE Start
  BY <1>i, <1>1 DEF Start, spawn, brokerVars, dialVars, Dialing!InUse, ProcessTypeOK, PhaseInv
<1>2. CASE StartFails
  BY <1>i, <1>2 DEF StartFails, othersVars, dialVars, Dialing!InUse, Dialing!InFlight,
       ProcessTypeOK, PhaseInv
<1>3. CASE Wait
  BY <1>i, <1>3 DEF Wait, brokerVars, othersVars, dialVars, ProcessTypeOK, PhaseInv
<1>4. CASE Close
  BY <1>i, <1>4 DEF Close, othersVars, dialVars, ProcessTypeOK, PhaseInv
<1>5. CASE SocialReleased
  BY <1>i, <1>5 DEF SocialReleased, brokerVars, othersVars, dialVars, ProcessTypeOK, PhaseInv
<1>6. CASE ReleaseSessions
  BY <1>i, <1>6 DEF ReleaseSessions, othersVars, dialVars, Dialing!InUse, ProcessTypeOK,
       PhaseInv
<1>7. CASE Drained
  BY <1>i, <1>7 DEF Drained, brokerVars, othersVars, dialVars, Counted, Alive, ProcessTypeOK,
       PhaseInv
<1>8. CASE DrainTimesOut
  BY <1>i, <1>8 DEF DrainTimesOut, brokerVars, othersVars, dialVars, Counted, Alive,
       ProcessTypeOK, PhaseInv
<1>9. CASE CloseClient
  BY <1>i, <1>9 DEF CloseClient, brokerVars, othersVars, dialVars, ProcessTypeOK, PhaseInv
<1>10. CASE Exit
  BY <1>i, <1>10 DEF Exit, brokerVars, othersVars, dialVars, ProcessTypeOK, PhaseInv
<1>11. CASE Signal
  BY <1>i, <1>11 DEF Signal, dialVars, Running, ProcessTypeOK, PhaseInv
<1>12. CASE GiveUp
  BY <1>i, <1>12 DEF GiveUp, dialVars, Running, Dialing!InUse, Dialing!InFlight,
       ProcessTypeOK, PhaseInv
<1>13. CASE Subscribe
  BY <1>i, <1>13 DEF Subscribe, Social, Unsocial, Running, brokerVars, othersVars, dialVars,
       ProcessTypeOK, PhaseInv
<1>14. CASE SubscribeFails
  BY <1>i, <1>14 DEF SubscribeFails, Social, Unsocial, Running, brokerVars, othersVars,
       dialVars, ProcessTypeOK, PhaseInv
<1>15. CASE Unsubscribe
  BY <1>i, <1>15 DEF Unsubscribe, Social, Unsocial, Running, brokerVars, othersVars, dialVars,
       ProcessTypeOK, PhaseInv
<1>16. ASSUME NEW w \in Workers, Wants(w) PROVE ProcessTypeOK'
  BY <1>i, <1>16 DEF Wants, Work, brokerVars, dialVars, Running, ProcessTypeOK, PhaseInv
<1>17. ASSUME NEW w \in Workers, Acquire(w) PROVE ProcessTypeOK'
  BY <1>i, <1>17 DEF Acquire, Work, dialVars, Running, ProcessTypeOK, PhaseInv
<1>18. ASSUME NEW w \in Workers, Release(w) PROVE ProcessTypeOK'
  BY <1>i, <1>18 DEF Release, Work, dialVars, Running, Dialing!InFlight, ProcessTypeOK, PhaseInv
<1>19. ASSUME NEW w \in Workers, Spawn(w) PROVE ProcessTypeOK'
  BY <1>i, <1>19 DEF Spawn, spawn, brokerVars, dialVars, Running, ProcessTypeOK, PhaseInv
<1>20. ASSUME NEW w \in Workers, Finish(w) PROVE ProcessTypeOK'
  BY <1>i, <1>20 DEF Finish, Work, brokerVars, dialVars, Alive, Running, ProcessTypeOK, PhaseInv
<1>21. CASE DialStep
  BY <1>i, <1>21, DialKinds DEF processVars, ProcessTypeOK, PhaseInv
<1>22. CASE UNCHANGED vars
  BY <1>i, <1>22 DEF vars, processVars, dialVars, ProcessTypeOK, PhaseInv
<1> QED
  BY Steps, <1>1, <1>2, <1>3, <1>4, <1>5, <1>6, <1>7, <1>8, <1>9, <1>10, <1>11, <1>12, <1>13,
       <1>14, <1>15, <1>16, <1>17, <1>18, <1>19, <1>20, <1>21, <1>22 DEF ProcessStep

\* The command goes through its places in order.
LEMMA PhaseStep ==
  ASSUME ShutdownAssumption, IInv, [Next]_vars
  PROVE  PhaseInv'
<1> USE DEF ShutdownAssumption, Locking, Workers
<1>i. PhaseInv /\ ProcessTypeOK
  BY DEF IInv
<1>1. CASE Start
  BY <1>i, <1>1 DEF Start, spawn, brokerVars, dialVars, Dialing!InUse, PhaseInv, ProcessTypeOK
<1>2. CASE StartFails
  BY <1>i, <1>2 DEF StartFails, othersVars, dialVars, Dialing!InUse, Dialing!InFlight,
       PhaseInv, ProcessTypeOK
<1>3. CASE Wait
  BY <1>i, <1>3 DEF Wait, brokerVars, othersVars, dialVars, PhaseInv, ProcessTypeOK
<1>4. CASE Close
  BY <1>i, <1>4 DEF Close, othersVars, dialVars, PhaseInv, ProcessTypeOK
<1>5. CASE SocialReleased
  BY <1>i, <1>5 DEF SocialReleased, brokerVars, othersVars, dialVars, PhaseInv, ProcessTypeOK
<1>6. CASE ReleaseSessions
  BY <1>i, <1>6 DEF ReleaseSessions, othersVars, dialVars, Dialing!InUse, PhaseInv,
       ProcessTypeOK
<1>7. CASE Drained
  BY <1>i, <1>7 DEF Drained, brokerVars, othersVars, dialVars, Counted, Alive, PhaseInv,
       ProcessTypeOK
<1>8. CASE DrainTimesOut
  BY <1>i, <1>8 DEF DrainTimesOut, brokerVars, othersVars, dialVars, Counted, Alive, PhaseInv,
       ProcessTypeOK
<1>9. CASE CloseClient
  BY <1>i, <1>9 DEF CloseClient, brokerVars, othersVars, dialVars, PhaseInv, ProcessTypeOK
<1>10. CASE Exit
  BY <1>i, <1>10 DEF Exit, brokerVars, othersVars, dialVars, PhaseInv, ProcessTypeOK
<1>11. CASE Signal
  BY <1>i, <1>11 DEF Signal, dialVars, Running, PhaseInv, ProcessTypeOK
<1>12. CASE GiveUp
  BY <1>i, <1>12 DEF GiveUp, dialVars, Running, Dialing!InUse, Dialing!InFlight, PhaseInv,
       ProcessTypeOK
<1>13. CASE Subscribe
  BY <1>i, <1>13 DEF Subscribe, Social, Unsocial, Running, brokerVars, othersVars, dialVars,
       PhaseInv, ProcessTypeOK
<1>14. CASE SubscribeFails
  BY <1>i, <1>14 DEF SubscribeFails, Social, Unsocial, Running, brokerVars, othersVars,
       dialVars, PhaseInv, ProcessTypeOK
<1>15. CASE Unsubscribe
  BY <1>i, <1>15 DEF Unsubscribe, Social, Unsocial, Running, brokerVars, othersVars, dialVars,
       PhaseInv, ProcessTypeOK
<1>16. ASSUME NEW w \in Workers, Wants(w) PROVE PhaseInv'
  BY <1>i, <1>16 DEF Wants, Work, brokerVars, dialVars, Running, PhaseInv, ProcessTypeOK
<1>17. ASSUME NEW w \in Workers, Acquire(w) PROVE PhaseInv'
  BY <1>i, <1>17 DEF Acquire, Work, dialVars, Running, PhaseInv, ProcessTypeOK
<1>18. ASSUME NEW w \in Workers, Release(w) PROVE PhaseInv'
  BY <1>i, <1>18 DEF Release, Work, dialVars, Running, Dialing!InFlight, PhaseInv, ProcessTypeOK
<1>19. ASSUME NEW w \in Workers, Spawn(w) PROVE PhaseInv'
  BY <1>i, <1>19 DEF Spawn, spawn, brokerVars, dialVars, Running, PhaseInv, ProcessTypeOK
<1>20. ASSUME NEW w \in Workers, Finish(w) PROVE PhaseInv'
  BY <1>i, <1>20 DEF Finish, Work, brokerVars, dialVars, Alive, Running, PhaseInv, ProcessTypeOK
<1>21. CASE DialStep
  BY <1>i, <1>21, DialKinds DEF processVars, PhaseInv, ProcessTypeOK
<1>22. CASE UNCHANGED vars
  BY <1>i, <1>22 DEF vars, processVars, dialVars, PhaseInv, ProcessTypeOK
<1> QED
  BY Steps, <1>1, <1>2, <1>3, <1>4, <1>5, <1>6, <1>7, <1>8, <1>9, <1>10, <1>11, <1>12, <1>13,
       <1>14, <1>15, <1>16, <1>17, <1>18, <1>19, <1>20, <1>21, <1>22 DEF ProcessStep

\* A dial begins only where none is active, and before the end.
LEMMA ActiveStep ==
  ASSUME ShutdownAssumption, IInv, [Next]_vars
  PROVE  ActiveInv'
<1> USE DEF ShutdownAssumption, Locking, Workers
<1>i. ActiveInv /\ PhaseInv /\ ProcessTypeOK
  BY DEF IInv
<1>1. CASE Start
  BY <1>i, <1>1 DEF Start, spawn, brokerVars, dialVars, Dialing!InUse, ActiveInv, PhaseInv,
       ProcessTypeOK, Active, Pending
<1>2. CASE StartFails
  BY <1>i, <1>2 DEF StartFails, othersVars, dialVars, Dialing!InUse, Dialing!InFlight,
       ActiveInv, PhaseInv, ProcessTypeOK, Active, Pending
<1>3. CASE Wait
  BY <1>i, <1>3 DEF Wait, brokerVars, othersVars, dialVars, ActiveInv, PhaseInv,
       ProcessTypeOK, Active, Pending
<1>4. CASE Close
  BY <1>i, <1>4 DEF Close, othersVars, dialVars, ActiveInv, PhaseInv, ProcessTypeOK, Active,
       Pending
<1>5. CASE SocialReleased
  BY <1>i, <1>5 DEF SocialReleased, brokerVars, othersVars, dialVars, ActiveInv, PhaseInv,
       ProcessTypeOK, Active, Pending
<1>6. CASE ReleaseSessions
  BY <1>i, <1>6 DEF ReleaseSessions, othersVars, dialVars, Dialing!InUse, ActiveInv, PhaseInv,
       ProcessTypeOK, Active, Pending
<1>7. CASE Drained
  BY <1>i, <1>7 DEF Drained, brokerVars, othersVars, dialVars, Counted, Alive, ActiveInv,
       PhaseInv, ProcessTypeOK, Active, Pending
<1>8. CASE DrainTimesOut
  BY <1>i, <1>8 DEF DrainTimesOut, brokerVars, othersVars, dialVars, Counted, Alive,
       ActiveInv, PhaseInv, ProcessTypeOK, Active, Pending
<1>9. CASE CloseClient
  BY <1>i, <1>9 DEF CloseClient, brokerVars, othersVars, dialVars, ActiveInv, PhaseInv,
       ProcessTypeOK, Active, Pending
<1>10. CASE Exit
  BY <1>i, <1>10 DEF Exit, brokerVars, othersVars, dialVars, ActiveInv, PhaseInv,
       ProcessTypeOK, Active, Pending
<1>11. CASE Signal
  BY <1>i, <1>11 DEF Signal, dialVars, Running, ActiveInv, PhaseInv, ProcessTypeOK, Active,
       Pending
<1>12. CASE GiveUp
  BY <1>i, <1>12 DEF GiveUp, dialVars, Running, Dialing!InUse, Dialing!InFlight, ActiveInv,
       PhaseInv, ProcessTypeOK, Active, Pending
<1>13. CASE Subscribe
  BY <1>i, <1>13 DEF Subscribe, Social, Unsocial, Running, brokerVars, othersVars, dialVars,
       ActiveInv, PhaseInv, ProcessTypeOK, Active, Pending
<1>14. CASE SubscribeFails
  BY <1>i, <1>14 DEF SubscribeFails, Social, Unsocial, Running, brokerVars, othersVars,
       dialVars, ActiveInv, PhaseInv, ProcessTypeOK, Active, Pending
<1>15. CASE Unsubscribe
  BY <1>i, <1>15 DEF Unsubscribe, Social, Unsocial, Running, brokerVars, othersVars, dialVars,
       ActiveInv, PhaseInv, ProcessTypeOK, Active, Pending
<1>16. ASSUME NEW w \in Workers, Wants(w) PROVE ActiveInv'
  BY <1>i, <1>16 DEF Wants, Work, brokerVars, dialVars, Running, ActiveInv, PhaseInv,
       ProcessTypeOK, Active, Pending
<1>17. ASSUME NEW w \in Workers, Acquire(w) PROVE ActiveInv'
  BY <1>i, <1>17 DEF Acquire, Work, dialVars, Running, ActiveInv, PhaseInv, ProcessTypeOK,
       Active, Pending
<1>18. ASSUME NEW w \in Workers, Release(w) PROVE ActiveInv'
  BY <1>i, <1>18 DEF Release, Work, dialVars, Running, Dialing!InFlight, ActiveInv, PhaseInv,
       ProcessTypeOK, Active, Pending
<1>19. ASSUME NEW w \in Workers, Spawn(w) PROVE ActiveInv'
  BY <1>i, <1>19 DEF Spawn, spawn, brokerVars, dialVars, Running, ActiveInv, PhaseInv,
       ProcessTypeOK, Active, Pending
<1>20. ASSUME NEW w \in Workers, Finish(w) PROVE ActiveInv'
  BY <1>i, <1>20 DEF Finish, Work, brokerVars, dialVars, Alive, Running, ActiveInv, PhaseInv,
       ProcessTypeOK, Active, Pending
<1>21. CASE DialStep
  <2>1. UNCHANGED processVars
    BY <1>21, DialKinds
  <2>2. ASSUME NEW d \in Dials, Begins(d) PROVE ActiveInv'
    BY <1>i, <2>1, <2>2 DEF Begins, processVars, Active, Pending, ActiveInv, PhaseInv,
         ProcessTypeOK
  <2>3. CASE GoesOn
    BY <1>i, <2>1, <2>3 DEF GoesOn, processVars, Active, Pending, ActiveInv, PhaseInv,
         ProcessTypeOK
  <2> QED
    BY <1>21, DialKinds, <2>2, <2>3
<1>22. CASE UNCHANGED vars
  BY <1>i, <1>22 DEF vars, processVars, dialVars, ActiveInv, PhaseInv, ProcessTypeOK, Active,
       Pending
<1> QED
  BY Steps, <1>1, <1>2, <1>3, <1>4, <1>5, <1>6, <1>7, <1>8, <1>9, <1>10, <1>11, <1>12, <1>13,
       <1>14, <1>15, <1>16, <1>17, <1>18, <1>19, <1>20, <1>21, <1>22 DEF ProcessStep

\* Once only the deaf are counted nothing is spawned any more.
LEMMA CountedStep ==
  ASSUME ShutdownAssumption, IInv, [Next]_vars
  PROVE  CountedInv'
<1> USE DEF ShutdownAssumption, Locking, Workers, Counted, Alive
<1>i. CountedInv /\ ActiveInv /\ PhaseInv /\ ProcessTypeOK
  BY DEF IInv
<1>1. CASE Start
  BY <1>i, <1>1 DEF Start, spawn, brokerVars, dialVars, Dialing!InUse, CountedInv, ActiveInv,
       PhaseInv, ProcessTypeOK
<1>2. CASE StartFails
  BY <1>i, <1>2 DEF StartFails, othersVars, dialVars, Dialing!InUse, Dialing!InFlight,
       CountedInv, ActiveInv, PhaseInv, ProcessTypeOK
<1>3. CASE Wait
  BY <1>i, <1>3 DEF Wait, brokerVars, othersVars, dialVars, CountedInv, ActiveInv, PhaseInv,
       ProcessTypeOK
<1>4. CASE Close
  BY <1>i, <1>4 DEF Close, othersVars, dialVars, CountedInv, ActiveInv, PhaseInv, ProcessTypeOK
<1>5. CASE SocialReleased
  BY <1>i, <1>5 DEF SocialReleased, brokerVars, othersVars, dialVars, CountedInv, ActiveInv,
       PhaseInv, ProcessTypeOK
<1>6. CASE ReleaseSessions
  BY <1>i, <1>6 DEF ReleaseSessions, othersVars, dialVars, Dialing!InUse, CountedInv,
       ActiveInv, PhaseInv, ProcessTypeOK
<1>7. CASE Drained
  BY <1>i, <1>7 DEF Drained, brokerVars, othersVars, dialVars, CountedInv, ActiveInv,
       PhaseInv, ProcessTypeOK
<1>8. CASE DrainTimesOut
  BY <1>i, <1>8 DEF DrainTimesOut, brokerVars, othersVars, dialVars, CountedInv, ActiveInv,
       PhaseInv, ProcessTypeOK
<1>9. CASE CloseClient
  BY <1>i, <1>9 DEF CloseClient, brokerVars, othersVars, dialVars, CountedInv, ActiveInv,
       PhaseInv, ProcessTypeOK
<1>10. CASE Exit
  BY <1>i, <1>10 DEF Exit, brokerVars, othersVars, dialVars, CountedInv, ActiveInv, PhaseInv,
       ProcessTypeOK
<1>11. CASE Signal
  BY <1>i, <1>11 DEF Signal, dialVars, Running, CountedInv, ActiveInv, PhaseInv, ProcessTypeOK
<1>12. CASE GiveUp
  BY <1>i, <1>12 DEF GiveUp, dialVars, Running, Dialing!InUse, Dialing!InFlight, CountedInv,
       ActiveInv, PhaseInv, ProcessTypeOK
<1>13. CASE Subscribe
  BY <1>i, <1>13 DEF Subscribe, Social, Unsocial, Running, brokerVars, othersVars, dialVars,
       CountedInv, ActiveInv, PhaseInv, ProcessTypeOK
<1>14. CASE SubscribeFails
  BY <1>i, <1>14 DEF SubscribeFails, Social, Unsocial, Running, brokerVars, othersVars,
       dialVars, CountedInv, ActiveInv, PhaseInv, ProcessTypeOK
<1>15. CASE Unsubscribe
  BY <1>i, <1>15 DEF Unsubscribe, Social, Unsocial, Running, brokerVars, othersVars, dialVars,
       CountedInv, ActiveInv, PhaseInv, ProcessTypeOK
<1>16. ASSUME NEW w \in Workers, Wants(w) PROVE CountedInv'
  BY <1>i, <1>16 DEF Wants, Work, brokerVars, dialVars, Running, CountedInv, ActiveInv,
       PhaseInv, ProcessTypeOK
<1>17. ASSUME NEW w \in Workers, Acquire(w) PROVE CountedInv'
  BY <1>i, <1>17 DEF Acquire, Work, dialVars, Running, CountedInv, ActiveInv, PhaseInv,
       ProcessTypeOK
<1>18. ASSUME NEW w \in Workers, Release(w) PROVE CountedInv'
  BY <1>i, <1>18 DEF Release, Work, dialVars, Running, Dialing!InFlight, CountedInv,
       ActiveInv, PhaseInv, ProcessTypeOK
<1>19. ASSUME NEW w \in Workers, Spawn(w) PROVE CountedInv'
  BY <1>i, <1>19 DEF Spawn, spawn, brokerVars, dialVars, Running, CountedInv, ActiveInv,
       PhaseInv, ProcessTypeOK
<1>20. ASSUME NEW w \in Workers, Finish(w) PROVE CountedInv'
  BY <1>i, <1>20 DEF Finish, Work, brokerVars, dialVars, Running, CountedInv, ActiveInv,
       PhaseInv, ProcessTypeOK
<1>21. CASE DialStep
  <2>1. UNCHANGED processVars
    BY <1>21, DialKinds
  <2>2. ASSUME NEW d \in Dials, Begins(d) PROVE CountedInv'
    BY <1>i, <2>1, <2>2 DEF Begins, processVars, Active, Pending, CountedInv, ActiveInv,
         PhaseInv, ProcessTypeOK
  <2>3. CASE GoesOn
    BY <1>i, <2>1, <2>3 DEF GoesOn, processVars, Active, Pending, CountedInv, ActiveInv,
         PhaseInv, ProcessTypeOK
  <2> QED
    BY <1>21, DialKinds, <2>2, <2>3
<1>22. CASE UNCHANGED vars
  BY <1>i, <1>22 DEF vars, processVars, dialVars, CountedInv, ActiveInv, PhaseInv, ProcessTypeOK
<1> QED
  BY Steps, <1>1, <1>2, <1>3, <1>4, <1>5, <1>6, <1>7, <1>8, <1>9, <1>10, <1>11, <1>12, <1>13,
       <1>14, <1>15, <1>16, <1>17, <1>18, <1>19, <1>20, <1>21, <1>22 DEF ProcessStep

\* The failure is not set once Wait has read it.
LEMMA FailureStep ==
  ASSUME ShutdownAssumption, IInv, [Next]_vars
  PROVE  FailureIsReported'
<1>i. FailureIsReported /\ PhaseInv /\ ProcessTypeOK
  BY DEF IInv
<1>1. CASE Start
  BY <1>i, <1>1 DEF Start, spawn, brokerVars, dialVars, Dialing!InUse, FailureIsReported,
       PhaseInv, ProcessTypeOK
<1>2. CASE StartFails
  BY <1>i, <1>2 DEF StartFails, othersVars, dialVars, Dialing!InUse, Dialing!InFlight,
       FailureIsReported, PhaseInv, ProcessTypeOK
<1>3. CASE Wait
  BY <1>i, <1>3 DEF Wait, brokerVars, othersVars, dialVars, FailureIsReported, PhaseInv,
       ProcessTypeOK
<1>4. CASE Close
  BY <1>i, <1>4 DEF Close, othersVars, dialVars, FailureIsReported, PhaseInv, ProcessTypeOK
<1>5. CASE SocialReleased
  BY <1>i, <1>5 DEF SocialReleased, brokerVars, othersVars, dialVars, FailureIsReported,
       PhaseInv, ProcessTypeOK
<1>6. CASE ReleaseSessions
  BY <1>i, <1>6 DEF ReleaseSessions, othersVars, dialVars, Dialing!InUse, FailureIsReported,
       PhaseInv, ProcessTypeOK
<1>7. CASE Drained
  BY <1>i, <1>7 DEF Drained, brokerVars, othersVars, dialVars, Counted, Alive,
       FailureIsReported, PhaseInv, ProcessTypeOK
<1>8. CASE DrainTimesOut
  BY <1>i, <1>8 DEF DrainTimesOut, brokerVars, othersVars, dialVars, Counted, Alive,
       FailureIsReported, PhaseInv, ProcessTypeOK
<1>9. CASE CloseClient
  BY <1>i, <1>9 DEF CloseClient, brokerVars, othersVars, dialVars, FailureIsReported,
       PhaseInv, ProcessTypeOK
<1>10. CASE Exit
  BY <1>i, <1>10 DEF Exit, brokerVars, othersVars, dialVars, FailureIsReported, PhaseInv,
       ProcessTypeOK
<1>11. CASE Signal
  BY <1>i, <1>11 DEF Signal, dialVars, Running, FailureIsReported, PhaseInv, ProcessTypeOK
<1>12. CASE GiveUp
  BY <1>i, <1>12 DEF GiveUp, dialVars, Running, Dialing!InUse, Dialing!InFlight,
       FailureIsReported, PhaseInv, ProcessTypeOK
<1>13. CASE Subscribe
  BY <1>i, <1>13 DEF Subscribe, Social, Unsocial, Running, brokerVars, othersVars, dialVars,
       FailureIsReported, PhaseInv, ProcessTypeOK
<1>14. CASE SubscribeFails
  BY <1>i, <1>14 DEF SubscribeFails, Social, Unsocial, Running, brokerVars, othersVars,
       dialVars, FailureIsReported, PhaseInv, ProcessTypeOK
<1>15. CASE Unsubscribe
  BY <1>i, <1>15 DEF Unsubscribe, Social, Unsocial, Running, brokerVars, othersVars, dialVars,
       FailureIsReported, PhaseInv, ProcessTypeOK
<1>16. ASSUME NEW w \in Workers, Wants(w) PROVE FailureIsReported'
  BY <1>i, <1>16 DEF Wants, Work, brokerVars, dialVars, Running, FailureIsReported, PhaseInv,
       ProcessTypeOK
<1>17. ASSUME NEW w \in Workers, Acquire(w) PROVE FailureIsReported'
  BY <1>i, <1>17 DEF Acquire, Work, dialVars, Running, FailureIsReported, PhaseInv,
       ProcessTypeOK
<1>18. ASSUME NEW w \in Workers, Release(w) PROVE FailureIsReported'
  BY <1>i, <1>18 DEF Release, Work, dialVars, Running, Dialing!InFlight, FailureIsReported,
       PhaseInv, ProcessTypeOK
<1>19. ASSUME NEW w \in Workers, Spawn(w) PROVE FailureIsReported'
  BY <1>i, <1>19 DEF Spawn, spawn, brokerVars, dialVars, Running, FailureIsReported, PhaseInv,
       ProcessTypeOK
<1>20. ASSUME NEW w \in Workers, Finish(w) PROVE FailureIsReported'
  BY <1>i, <1>20 DEF Finish, Work, brokerVars, dialVars, Alive, Running, FailureIsReported,
       PhaseInv, ProcessTypeOK
<1>21. CASE DialStep
  BY <1>i, <1>21, DialKinds DEF processVars, FailureIsReported, PhaseInv, ProcessTypeOK
<1>22. CASE UNCHANGED vars
  BY <1>i, <1>22 DEF vars, processVars, dialVars, FailureIsReported, PhaseInv, ProcessTypeOK
<1> QED
  BY Steps, <1>1, <1>2, <1>3, <1>4, <1>5, <1>6, <1>7, <1>8, <1>9, <1>10, <1>11, <1>12, <1>13,
       <1>14, <1>15, <1>16, <1>17, <1>18, <1>19, <1>20, <1>21, <1>22 DEF ProcessStep

-----------------------------------------------------------------------------
(* The theorems. *)

\* The parts hold at first, and every step keeps them.
THEOREM Inductive == Spec => []IInv
<1> USE ShutdownAssumption
<1>1. Init => IInv
  <2> SUFFICES ASSUME Init PROVE IInv
    OBVIOUS
  <2>1. DialInv
    BY DEF ShutdownAssumption, Dialing!DialAssumption, Init, Dialing!Init, DialInv,
         Dialing!TypeOK,
           HandInv, SourceInv, Dialing!NoneIsLost, Dialing!GotIsUsable, Dialing!OneSource,
           Dialing!Users, Dialing!Sources
  <2>2. ProcessTypeOK /\ PhaseInv /\ FailureIsReported
    BY DEF ShutdownAssumption, Init, ProcessTypeOK, PhaseInv, FailureIsReported, Workers,
         Locking
  <2>3. ActiveInv /\ CountedInv
    BY DEF Init, Dialing!Init, ActiveInv, CountedInv, Active, Pending
  <2> QED
    BY <2>1, <2>2, <2>3 DEF IInv
<1>2. IInv /\ [Next]_vars => IInv'
  <2> SUFFICES ASSUME IInv, [Next]_vars PROVE IInv'
    OBVIOUS
  <2>1. DialInv'
    BY DialsStep, DialTypeStep, DialHandStep, DialOwnerStep, DialUsableStep, DialOwnSourceStep,
       DialOneSourceStep DEF IInv, DialInv, ShutdownAssumption
  <2> QED
    BY <2>1, TypeStep, PhaseStep, ActiveStep, CountedStep, FailureStep DEF IInv
<1> QED
  BY <1>1, <1>2, PTL DEF Spec

\* Every variable keeps its type, and b.mu has one holder.
THEOREM TypeIsKept == Spec => []TypeOK
<1>1. IInv => TypeOK
  BY DEF IInv, DialInv, ProcessTypeOK, TypeOK
<1> QED
  BY <1>1, Inductive, PTL

\* The process, its Start, its recoveries and its end, dial as SignalingDial has it.
THEOREM DialsAsSpecified == Spec => Dialing!Spec
<1>1. Init => Dialing!Init
  BY DEF Init
<1>2. [Next]_vars => [Dialing!Next]_dialVars
  BY DialsStep, ShutdownAssumption
<1> QED
  BY <1>1, <1>2, PTL DEF Spec, Dialing!Spec, Dialing!vars, dialVars

\* Every connection has an owner up to its close, and none is left open once Close
\* has run or Start has failed (broadcaster.go:322, 475).
THEOREM OwnersToTheEnd == Spec => []ConnectionsAreOwned
<1>1. IInv => ConnectionsAreOwned
  <2> SUFFICES ASSUME IInv PROVE ConnectionsAreOwned
    OBVIOUS
  <2>1. Dialing!NoneIsLost /\ Dialing!GotIsUsable
    BY DEF IInv, DialInv
  <2>2. NothingLeftOpen
    BY <2>1 DEF IInv, ActiveInv, Active, Pending, Dialing!NoneIsLost, Dialing!InUse,
         NothingLeftOpen
  <2> QED
    BY <2>1, <2>2 DEF ConnectionsAreOwned
<1> QED
  BY <1>1, Inductive, PTL

\* When the client is closed its handler is released, and after a Close every
\* goroutine has ended but those in a call that ignores cancellation
\* (broadcaster.go:496, social_subscription.go:19).
THEOREM ClientIsClosedLast == Spec => []ClientOutlivesUsers
<1>1. IInv => ClientOutlivesUsers
  <2> SUFFICES ASSUME IInv PROVE ClientOutlivesUsers
    OBVIOUS
  <2>1. HandlersAreReleased
    BY DEF IInv, PhaseInv, HandlersAreReleased
  <2>2. Busy \subseteq Counted
    BY DEF IInv, CountedInv, Busy, Counted
  <2>3. ClientOutlivesWorkers
    BY <2>2 DEF IInv, PhaseInv, CountedInv, ClientOutlivesWorkers
  <2> QED
    BY <2>1, <2>3 DEF ClientOutlivesUsers
<1> QED
  BY <1>1, Inductive, PTL

\* The command returns a recovery's failure exactly when one stopped it
\* (session_recovery.go:171).
THEOREM FailureIsKept == Spec => []FailureIsReported
<1>1. IInv => FailureIsReported
  BY DEF IInv
<1> QED
  BY <1>1, Inductive, PTL

\* Through the whole life of the process one token source is used, and what was
\* logged in for is not logged in for again (broadcaster.go:226, 309).
THEOREM SourceOutlivesDials == Spec => SourceIsKept
<1>1. Spec => Dialing!NoSecondLogin
  BY DialsAsSpecified, LoginIsKept, ShutdownAssumption DEF ShutdownAssumption
<1>2. IInv => Dialing!OneSource
  BY DEF IInv, DialInv
<1>3. Spec => [][Dialing!OneSource']_vars
  BY <1>2, Inductive, PTL
<1> QED
  BY <1>1, <1>3 DEF SourceIsKept
=============================================================================
