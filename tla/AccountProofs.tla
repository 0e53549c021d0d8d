----------------------------- MODULE AccountProofs -----------------------------
(***************************************************************************)
(* That refreshes, logins and logouts leave an account that the Cloud      *)
(* knows, for any services and calls.                                      *)
(***************************************************************************)
EXTENDS Account, TLAPS

AtWork == {"user", "vault", "post", "reply", "saving"}
Asking == {"post", "reply", "saving"}

\* The stages of each kind of call.
StagesKnown ==
    /\ \A l \in Logins : pc[l] \in {"idle"} \cup Asking \cup Ended
    /\ \A o \in Logouts : pc[o] \in {"idle"} \cup Ended

\* A refresh at work has the lock of its service.
RefreshesHold == \A g \in Gets : pc[g] \in AtWork => lock[service[g]] = g

\* What is sent is a token, and what is saved came from the server.
TokensKnown ==
    /\ \A g \in Gets : pc[g] = "post" => token[g] \in Tokens
    /\ \A c \in Calls : pc[c] \in {"reply", "saving"} => token[c] \in Tokens

Typed ==
    /\ TypeOK
    /\ lock \in [Services -> Calls \cup {None}]
    /\ token \in [Calls -> Tokens \cup {None}] /\ name \in [Calls -> Users \cup {None}]
    /\ StagesKnown /\ RefreshesHold /\ TokensKnown

\* The calls of access_token that have begun are all of one service.
OneService == \A g, h \in Gets : pc[g] # "idle" /\ pc[h] # "idle" => service[g] = service[h]

Newest == Token(First, newest[First])

\* As long as one service refreshes and nothing is lost, every refresh sends the
\* token that the server accepts.
RefreshesFit ==
    ~lost /\ ~Started(Logins) /\ OneService =>
        /\ vault \in {None, Newest} \/ \E g \in Gets : pc[g] = "reply"
        /\ \A g \in Gets : pc[g] \in {"post", "reply"} => token[g] = Newest

\* Without logins, logouts and losses one refresh at most has been answered, the
\* vault has the token before it, and every other refresh an older one.
TokensOf(u) == [user: {u}, n: Nat]
RefreshesAlone ==
    ~(Started(Logins) \/ Started(Logouts) \/ lost) =>
        /\ vault \in TokensOf(First)
        /\ \A g \in Gets : pc[g] = "post" =>
              token[g] \in TokensOf(First) /\ token[g].n <= newest[First]
        /\ IF \E c \in Calls : pc[c] = "reply"
           THEN /\ vault.n < newest[First]
                /\ \A c \in Calls : pc[c] = "reply" => token[c] = Newest
                /\ \A g \in Gets : pc[g] = "post" => token[g].n < newest[First]
                /\ \A c, d \in Calls : pc[c] = "reply" /\ pc[d] = "reply" => c = d
           ELSE vault = Newest
        /\ user = First \/ (user = None /\ \E c \in Calls : pc[c] = "cut")
        /\ \A c \in Calls : /\ pc[c] = "vault" => name[c] \in {First, None}
                            /\ pc[c] \in Asking => name[c] = First

\* After a logout that met nobody, nobody has anything to send or to save.
NothingToSave == out => \A c \in Calls : pc[c] \notin Asking

IInv == Typed /\ RefreshesFit /\ RefreshesAlone /\ NothingToSave /\ StaysOut /\ RefusalsExplained

-----------------------------------------------------------------------------
LEMMA InitIInv == Init => IInv
<1> SUFFICES ASSUME Init PROVE IInv
  OBVIOUS
<1> USE MainAssumption, CallsAssumption
<1>1. Typed
  <2>1. vault \in Tokens \cup {None} /\ user \in Users \cup {None}
    BY DEF Init, Token, Tokens, Users
  <2>2. lock \in [Services -> {None}] /\ pc \in [Calls -> {"idle"}] /\ token \in [Calls -> {None}]
    BY DEF Init
  <2>3. TypeOK
    BY <2>1, <2>2 DEF Init, TypeOK
  <2>4. StagesKnown /\ RefreshesHold /\ TokensKnown
    BY <2>2 DEF StagesKnown, RefreshesHold, TokensKnown, Calls, AtWork
  <2> QED BY <2>1, <2>2, <2>3, <2>4 DEF Init, Typed
<1>2. RefreshesFit
  BY DEF Init, RefreshesFit, Newest, Token, Calls, Users
<1>3. RefreshesAlone
  BY DEF Init, RefreshesAlone, Newest, Token, TokensOf, Calls, Users, Asking
<1>4. NothingToSave /\ StaysOut /\ RefusalsExplained
  BY DEF Init, NothingToSave, StaysOut, RefusalsExplained, Calls, Asking
<1> QED BY <1>1, <1>2, <1>3, <1>4 DEF IInv

\* A call that gives its lock back has none; nobody else loses theirs.
LEMMA Released ==
    ASSUME Typed, NEW c \in Calls, Release(c)
    PROVE  /\ lock' \in [Services -> Calls \cup {None}]
           /\ \A s \in Services : lock'[s] # c /\ (lock'[s] # None => lock'[s] = lock[s])
           /\ \A s \in Services : lock[s] # c => lock'[s] = lock[s]
BY CallsAssumption DEF Typed, Release

-----------------------------------------------------------------------------
\* Types, stages and locks.
LEMMA TypedStep == Typed /\ [Next]_accountVars => Typed'
<1> SUFFICES ASSUME Typed, [Next]_accountVars PROVE Typed'
  OBVIOUS
<1> USE MainAssumption, CallsAssumption
    DEF AtWork, Asking, Ended, Calls, files, mind, accountVars, From, Goes
<1>1. ASSUME NEW g \in Gets, Get(g) PROVE Typed'
  BY <1>1 DEF Get, Typed, TypeOK, StagesKnown, RefreshesHold, TokensKnown
<1>2. ASSUME NEW g \in Gets, Lock(g) PROVE Typed'
  <2>1. CASE From(g, "lock", "user") /\ lock' = [lock EXCEPT ![service[g]] = g]
    <3>1. lock' \in [Services -> Calls \cup {None}]
      BY <2>1 DEF Typed
    <3>2. (RefreshesHold /\ StagesKnown /\ TokensKnown)'
      BY <1>2, <2>1 DEF Lock, Typed, TypeOK, StagesKnown, RefreshesHold, TokensKnown
    <3> QED BY <1>2, <2>1, <3>1, <3>2 DEF Lock, Typed, TypeOK
  <2>2. CASE From(g, "lock", "ok") /\ UNCHANGED lock
    BY <1>2, <2>2 DEF Lock, Typed, TypeOK, StagesKnown, RefreshesHold, TokensKnown
  <2> QED BY <1>2, <2>1, <2>2 DEF Lock
<1>3. ASSUME NEW g \in Gets, LoadUser(g) PROVE Typed'
  BY <1>3 DEF LoadUser, Typed, TypeOK, StagesKnown, RefreshesHold, TokensKnown
<1>4. ASSUME NEW g \in Gets, LoadToken(g) PROVE Typed'
  <2>1. CASE name[g] = None \/ vault = None
    BY <1>4, <2>1, Released DEF LoadToken, Typed, TypeOK, StagesKnown, RefreshesHold, TokensKnown
  <2>2. CASE ~(name[g] = None \/ vault = None)
    BY <1>4, <2>2 DEF LoadToken, Typed, TypeOK, StagesKnown, RefreshesHold, TokensKnown
  <2> QED BY <2>1, <2>2
<1>5. ASSUME NEW c \in Calls, LoginCalled(c) PROVE Typed'
  <2>0. pc' \in [Calls -> {"idle", "lock", "user", "vault", "post", "reply", "saving"} \cup Ended]
    BY <1>5 DEF LoginCalled, Typed, TypeOK
  <2>1. TypeOK'
    <3>1. \A s \in Services : lock[s] # None => lock[s] # c /\ pc'[lock[s]] = pc[lock[s]]
      BY <1>5 DEF LoginCalled, Typed, TypeOK
    <3>2. \A s \in Services : lock'[s] # None =>
             /\ service'[lock'[s]] = s
             /\ pc'[lock'[s]] \in {"user", "vault", "post", "reply", "saving"}
      BY <1>5, <3>1 DEF LoginCalled, Typed, TypeOK
    <3>3. UNCHANGED <<vault, user, access, newest, service, lost, token, name>> /\ out' = FALSE
      BY <1>5 DEF LoginCalled
    <3> QED BY <2>0, <3>2, <3>3 DEF Typed, TypeOK
  <2>2. (StagesKnown /\ RefreshesHold /\ TokensKnown)'
    BY <1>5 DEF LoginCalled, Typed, TypeOK, StagesKnown, RefreshesHold, TokensKnown
  <2> QED BY <1>5, <2>1, <2>2 DEF LoginCalled, Typed
<1>6. ASSUME NEW c \in Calls, Post(c) PROVE Typed'
  <2>1. ASSUME NEW u \in Users, Answer(c, u), c \in Gets \/ c \in Logins PROVE Typed'
    <3>1. newest' \in [Users -> Nat] /\ Token(u, newest'[u]) \in Tokens
      BY <2>1 DEF Answer, Typed, TypeOK, Token, Tokens
    <3>2. UNCHANGED <<files, access, service, lost, out>>
      BY <1>6 DEF Post
    <3> QED BY <2>1, <3>1, <3>2
            DEF Answer, Typed, TypeOK, StagesKnown, RefreshesHold, TokensKnown
  <2>2. CASE From(c, "post", "denied") /\ Release(c) /\ UNCHANGED <<newest, token, name>>
    BY <1>6, <2>2, Released DEF Post, Typed, TypeOK, StagesKnown, RefreshesHold, TokensKnown
  <2>3. c \in Gets /\ pc[c] = "post" => token[c].user \in Users
    BY DEF Typed, TokensKnown, Tokens
  <2> QED BY <1>6, <2>1, <2>2, <2>3 DEF Post, Users
<1>7. ASSUME NEW c \in Calls, PostFails(c) PROVE Typed'
  BY <1>7, Released DEF PostFails, Typed, TypeOK, StagesKnown, RefreshesHold, TokensKnown
<1>8. ASSUME NEW c \in Calls, Accept(c) PROVE Typed'
  BY <1>8 DEF Accept, SaveToken, Typed, TypeOK, StagesKnown, RefreshesHold, TokensKnown
<1>9. ASSUME NEW c \in Calls, Accepted(c) PROVE Typed'
  <2>1. pc[c] = "saving" /\ token[c].user \in Users /\ service[c] \in Services
    BY <1>9 DEF Accepted, Typed, TypeOK, TokensKnown, Tokens
  <2> QED BY <1>9, <2>1, Released
          DEF Accepted, Typed, TypeOK, StagesKnown, RefreshesHold, TokensKnown
<1>10. ASSUME NEW c \in Calls, Logout(c) \/ LogoutFails(c) PROVE Typed'
  <2>1. CASE Logout(c)
    BY <2>1 DEF Logout, OutAfter, Typed, TypeOK, StagesKnown, RefreshesHold, TokensKnown
  <2>2. CASE LogoutFails(c)
    BY <2>2 DEF LogoutFails, Typed, TypeOK, StagesKnown, RefreshesHold, TokensKnown
  <2> QED BY <1>10, <2>1, <2>2
<1>11. ASSUME NEW s \in Services, Expire(s) PROVE Typed'
  BY <1>11 DEF Expire, Typed, TypeOK, StagesKnown, RefreshesHold, TokensKnown
<1>12. ASSUME NEW c \in Calls, Cut(c) PROVE Typed'
  BY <1>12, Released DEF Cut, Typed, TypeOK, StagesKnown, RefreshesHold, TokensKnown
<1>13. CASE Kill
  BY <1>13 DEF Kill, Typed, TypeOK, StagesKnown, RefreshesHold, TokensKnown
<1>14. CASE UNCHANGED accountVars
  BY <1>14 DEF Typed, TypeOK, StagesKnown, RefreshesHold, TokensKnown
<1> QED
  BY <1>1, <1>2, <1>3, <1>4, <1>5, <1>6, <1>7, <1>8, <1>9, <1>10, <1>11, <1>12, <1>13, <1>14
     DEF Next, Step

-----------------------------------------------------------------------------
\* What no step undoes: a call that has begun, what is lost, and a call's service.
LEMMA Onward ==
    ASSUME Typed, [Next]_accountVars
    PROVE  /\ service' = service /\ (lost => lost')
           /\ \A c \in Calls : pc[c] # "idle" => pc'[c] # "idle"
           /\ \A c \in Calls : pc'[c] = "denied" => pc[c] = "denied" \/ (pc[c] = "post" /\ Post(c))
<1> USE DEF Ended, files, mind, accountVars, From, Goes
<1> pc \in [Calls -> {"idle", "lock", "user", "vault", "post", "reply", "saving"} \cup Ended]
  BY DEF Typed, TypeOK
<1>1. ASSUME NEW g \in Gets, Get(g) \/ Lock(g) \/ LoadUser(g) \/ LoadToken(g)
      PROVE  /\ service' = service /\ lost' = lost
             /\ \E there \in {"lock", "ok", "user", "vault", "post", "none"} :
                   pc' = [pc EXCEPT ![g] = there]
  BY <1>1 DEF Get, Lock, LoadUser, LoadToken
<1>2. ASSUME NEW c \in Calls, Post(c)
      PROVE  /\ service' = service /\ lost' = lost /\ pc[c] = "post"
             /\ \E there \in {"reply", "denied"} : pc' = [pc EXCEPT ![c] = there]
  BY <1>2 DEF Post, Answer
<1>3. ASSUME NEW c \in Calls, LoginCalled(c) \/ Accept(c) \/ Accepted(c) \/ Logout(c) \/ LogoutFails(c)
      PROVE  /\ service' = service /\ lost' = lost
             /\ \E there \in {"post", "saving", "ok", "failed"} : pc' = [pc EXCEPT ![c] = there]
  BY <1>3 DEF LoginCalled, Accept, Accepted, Logout, LogoutFails
<1>4. ASSUME NEW c \in Calls, PostFails(c) \/ Cut(c)
      PROVE  /\ service' = service /\ (lost => lost')
             /\ \E there \in {"failed", "cut"} : pc' = [pc EXCEPT ![c] = there]
  BY <1>4 DEF PostFails, Cut
<1>5. CASE Kill
  BY <1>5 DEF Kill
<1>6. CASE (\E s \in Services : Expire(s)) \/ UNCHANGED accountVars
  BY <1>6 DEF Expire
<1>7. CASE \E g \in Gets : Get(g) \/ Lock(g) \/ LoadUser(g) \/ LoadToken(g)
  BY <1>1, <1>7 DEF Calls
<1>8. CASE \E c \in Calls : Post(c)
  BY <1>2, <1>8
<1>9. CASE \E c \in Calls : LoginCalled(c) \/ Accept(c) \/ Accepted(c) \/ Logout(c) \/ LogoutFails(c)
  BY <1>3, <1>9
<1>10. CASE \E c \in Calls : PostFails(c) \/ Cut(c)
  BY <1>4, <1>10
<1> QED BY <1>5, <1>6, <1>7, <1>8, <1>9, <1>10 DEF Next, Step

\* Two refreshes of one service are not both at work.
LEMMA OneAtWork ==
    ASSUME Typed, NEW g \in Gets, NEW h \in Gets, pc[g] \in AtWork, pc[h] \in AtWork,
           service[g] = service[h]
    PROVE  g = h
BY DEF Typed, RefreshesHold

\* Until a login begins only refreshes are being answered or have an answer.
LEMMA OnlyGets ==
    ASSUME Typed, ~Started(Logins), NEW c \in Calls, pc[c] \in Asking
    PROVE  c \in Gets
BY DEF Typed, StagesKnown, Started, Asking, Ended, Calls

-----------------------------------------------------------------------------
\* A token that one service refreshes is the newest whenever it is shown.
LEMMA RefreshesFitStep ==
    ASSUME Typed, RefreshesFit, RefusalsExplained, [Next]_accountVars
    PROVE  RefreshesFit' /\ RefusalsExplained'
<1> USE DEF AtWork, Asking, Ended, files, mind, accountVars, From, Goes
<1> DEFINE Alone == ~lost /\ ~Started(Logins) /\ OneService
<1>1. Alone' => Alone
  BY Onward DEF Started, OneService, Calls
<1>2. ASSUME NEW g \in Gets, pc'[g] = "denied"
      PROVE  \/ lost' \/ Started(Logins)'
             \/ \E h \in Gets : pc'[h] # "idle" /\ service'[h] # service'[g]
  <2>1. ASSUME ~lost, ~Started(Logins), \A h \in Gets : pc[h] # "idle" => service[h] = service[g]
        PROVE  pc[g] # "denied" /\ ~Post(g)
    <3>1. pc[g] # "denied"
      BY <2>1 DEF RefusalsExplained
    <3>2. pc[g] = "post" => token[g] = Newest
      BY <2>1 DEF RefreshesFit, OneService
    <3>3. ASSUME Post(g) PROVE FALSE
      <4>1. token[g] = Newest /\ g \notin Logins
        BY <3>2, <3>3, CallsAssumption DEF Post
      <4>2. Answer(g, First)
        BY <3>3, <4>1 DEF Post, Newest, Token
      <4> QED BY <1>2, <4>2 DEF Answer, Calls, Typed, TypeOK
    <3> QED BY <3>1, <3>3
  <2>2. service' = service /\ (lost => lost') /\ (Started(Logins) => Started(Logins)')
    BY Onward DEF Started, Calls
  <2>3. \A h \in Gets : pc[h] # "idle" => pc'[h] # "idle"
    BY Onward DEF Calls
  <2>4. pc[g] = "denied" \/ Post(g)
    BY <1>2, Onward DEF Calls
  <2> QED BY <2>1, <2>2, <2>3, <2>4
<1>3. ASSUME Alone, Alone' PROVE
         /\ vault' \in {None, Newest'} \/ \E g \in Gets : pc'[g] = "reply"
         /\ \A g \in Gets : pc'[g] \in {"post", "reply"} => token'[g] = Newest'
  <2> USE <1>3 DEF Calls
  <2> DEFINE Fit ==
        /\ vault \in {None, Newest} \/ \E g \in Gets : pc[g] = "reply"
        /\ \A g \in Gets : pc[g] \in {"post", "reply"} => token[g] = Newest
  <2>0. Fit
    BY DEF RefreshesFit
  <2>1. ASSUME NEW g \in Gets, Get(g) \/ Lock(g) \/ LoadUser(g) PROVE Fit'
    BY <2>0, <2>1 DEF Get, Lock, LoadUser, Typed, TypeOK, Newest
  <2>2. ASSUME NEW g \in Gets, LoadToken(g) PROVE Fit'
    <3>1. pc[g] = "vault" /\ \A h \in Gets : pc[h] = "reply" => h = g
      BY <2>2, OneAtWork DEF LoadToken, OneService
    <3>2. vault \in {None, Newest}
      BY <2>0, <3>1
    <3> QED BY <2>0, <2>2, <3>2 DEF LoadToken, Typed, TypeOK, Newest
  <2>3. ASSUME NEW c \in Calls, Post(c) PROVE Fit'
    <3>1. pc[c] = "post" /\ c \in Gets
      BY <2>3, OnlyGets DEF Post
    <3>2. token[c] = Newest /\ \A h \in Gets : pc[h] \in {"post", "reply"} => h = c
      BY <2>0, <3>1, OneAtWork DEF OneService
    <3>3. c \notin Logins /\ First \in Users
      BY <3>1, CallsAssumption DEF Users
    <3>4. Answer(c, First)
      BY <2>3, <3>1, <3>2, <3>3 DEF Post, Newest, Token
    <3>5. newest \in [Users -> Nat] /\ token \in [Calls -> Tokens \cup {None}]
      BY DEF Typed, TypeOK
    <3>6. token'[c] = Newest' /\ pc'[c] = "reply" /\ \A h \in Gets \ {c} : pc'[h] = pc[h]
      BY <3>1, <3>3, <3>4, <3>5 DEF Answer, Newest, Typed, TypeOK
    <3> QED BY <3>1, <3>2, <3>6
  <2>4. ASSUME NEW c \in Calls, LoginCalled(c) PROVE FALSE
    BY <2>4 DEF LoginCalled, Started, Typed, TypeOK
  <2>5. ASSUME NEW c \in Calls, Accept(c) \/ (Cut(c) /\ pc[c] = "reply" /\ vault' = token[c])
        PROVE Fit'
    <3>1. pc[c] = "reply" /\ c \in Gets
      BY <2>5, OnlyGets DEF Accept
    <3>2. vault' = Newest /\ newest' = newest /\ token' = token
      BY <2>0, <2>5, <3>1 DEF Accept, SaveToken, Cut
    <3>3. \A g \in Gets : pc'[g] \in {"post", "reply"} => pc[g] \in {"post", "reply"}
      BY <2>5 DEF Accept, Cut, Typed, TypeOK
    <3> QED BY <2>0, <3>2, <3>3 DEF Newest
  <2>6. ASSUME NEW c \in Calls, PostFails(c) \/ (Cut(c) /\ ~(pc[c] = "reply" /\ vault' = token[c]))
        PROVE Fit'
    <3>1. pc[c] # "reply" /\ UNCHANGED <<vault, newest, token>>
      BY <2>6 DEF PostFails, Cut
    <3>2. \A g \in Gets : /\ pc[g] = "reply" => pc'[g] = "reply"
                          /\ pc'[g] \in {"post", "reply"} => pc[g] \in {"post", "reply"}
      BY <2>6, <3>1 DEF PostFails, Cut, Typed, TypeOK
    <3> QED BY <2>0, <3>1, <3>2 DEF Newest
  <2>7. ASSUME NEW c \in Calls, Accepted(c) \/ Logout(c) \/ LogoutFails(c) PROVE Fit'
    <3>1. vault' \in {None, vault} /\ newest' = newest /\ token' = token
      BY <2>7 DEF Accepted, Logout, LogoutFails
    <3>2. \A g \in Gets : /\ pc[g] = "reply" => pc'[g] = "reply"
                          /\ pc'[g] \in {"post", "reply"} => pc[g] \in {"post", "reply"}
      BY <2>7 DEF Accepted, Logout, LogoutFails, Typed, TypeOK
    <3> QED BY <2>0, <3>1, <3>2 DEF Newest
  <2>8. CASE Kill
    <3>1. \A c \in Calls : pc[c] # "reply"
      BY <2>8 DEF Kill
    <3> QED BY <2>0, <2>8, <3>1 DEF Kill, Newest
  <2>9. CASE (\E s \in Services : Expire(s)) \/ UNCHANGED accountVars
    BY <2>0, <2>9 DEF Expire, Newest
  <2> QED
    BY <2>1, <2>2, <2>3, <2>4, <2>5, <2>6, <2>7, <2>8, <2>9 DEF Next, Step
<1> QED BY <1>1, <1>2, <1>3 DEF RefreshesFit, RefusalsExplained, Typed, TypeOK

-----------------------------------------------------------------------------
\* After a logout that met nobody there is nothing to bring an account back.
LEMMA OutStep ==
    ASSUME Typed, NothingToSave, StaysOut, [Next]_accountVars
    PROVE  NothingToSave' /\ StaysOut'
<1> USE DEF AtWork, Asking, Ended, files, mind, accountVars, From, Goes, NothingToSave, StaysOut
<1> /\ pc \in [Calls -> {"idle", "lock", "user", "vault", "post", "reply", "saving"} \cup Ended]
    /\ access \in [Services -> Users \cup {None}] /\ name \in [Calls -> Users \cup {None}]
  BY DEF Typed, TypeOK
<1>1. ASSUME NEW g \in Gets, Get(g) \/ Lock(g) \/ LoadUser(g) PROVE NothingToSave' /\ StaysOut'
  BY <1>1 DEF Get, Lock, LoadUser, Calls
<1>2. ASSUME NEW g \in Gets, LoadToken(g) PROVE NothingToSave' /\ StaysOut'
  BY <1>2 DEF LoadToken, Calls
<1>3. ASSUME NEW c \in Calls, Post(c) \/ Accept(c) \/ Accepted(c) PROVE NothingToSave' /\ StaysOut'
  <2>1. pc[c] \in Asking /\ out' = out
    BY <1>3 DEF Post, Accept, Accepted
  <2> QED BY <2>1
<1>4. ASSUME NEW c \in Calls, LoginCalled(c) PROVE NothingToSave' /\ StaysOut'
  BY <1>4 DEF LoginCalled
<1>5. ASSUME NEW c \in Calls, Logout(c) \/ LogoutFails(c) PROVE NothingToSave' /\ StaysOut'
  <2>1. CASE Logout(c)
    BY <2>1, MainAssumption DEF Logout, OutAfter
  <2>2. CASE LogoutFails(c)
    BY <2>2 DEF LogoutFails
  <2> QED BY <1>5, <2>1, <2>2
<1>6. ASSUME NEW c \in Calls, PostFails(c) \/ Cut(c) PROVE NothingToSave' /\ StaysOut'
  BY <1>6 DEF PostFails, Cut
<1>7. CASE (\E s \in Services : Expire(s)) \/ UNCHANGED accountVars
  BY <1>7, MainAssumption DEF Expire
<1>8. CASE Kill
  BY <1>8, MainAssumption DEF Kill
<1> QED
  BY <1>1, <1>2, <1>3, <1>4, <1>5, <1>6, <1>7, <1>8 DEF Next, Step

-----------------------------------------------------------------------------
\* Who saves its token leaves the newest one in the vault.
LEMMA TokenTaken ==
    ASSUME Typed, RefreshesAlone, ~(Started(Logins) \/ Started(Logouts) \/ lost),
           NEW c \in Calls, pc[c] = "reply"
    PROVE  /\ token[c] = Newest /\ Newest \in TokensOf(First) /\ newest[First] \in Nat
           /\ \A d \in Calls \ {c} : pc[d] # "reply"
BY DEF Typed, TypeOK, RefreshesAlone, Newest, Token, TokensOf, Users

\* Refreshes alone keep a token that the server takes, and the user.
LEMMA RefreshesAloneStep ==
    ASSUME Typed, Typed', RefreshesAlone, [Next]_accountVars
    PROVE  RefreshesAlone'
<1> USE DEF AtWork, Asking, Ended, files, mind, accountVars, From, Goes, Newest
<1> DEFINE Alone == ~(Started(Logins) \/ Started(Logouts) \/ lost)
           Vault == /\ vault \in TokensOf(First)
                    /\ \A g \in Gets : pc[g] = "post" =>
                          token[g] \in TokensOf(First) /\ token[g].n <= newest[First]
           Answered == /\ vault.n < newest[First]
                       /\ \A c \in Calls : pc[c] = "reply" => token[c] = Newest
                       /\ \A g \in Gets : pc[g] = "post" => token[g].n < newest[First]
                       /\ \A c, d \in Calls : pc[c] = "reply" /\ pc[d] = "reply" => c = d
           Tokens1 == IF \E c \in Calls : pc[c] = "reply" THEN Answered ELSE vault = Newest
           User1 == user = First \/ (user = None /\ \E c \in Calls : pc[c] = "cut")
           Names == \A c \in Calls : /\ pc[c] = "vault" => name[c] \in {First, None}
                                     /\ pc[c] \in Asking => name[c] = First
<1>1. Alone' => Alone
  BY Onward DEF Started, Calls
<1> SUFFICES ASSUME Alone, Alone' PROVE (Vault /\ Tokens1 /\ User1 /\ Names)'
  BY <1>1 DEF RefreshesAlone
<1>0. Vault /\ Tokens1 /\ User1 /\ Names
  BY DEF RefreshesAlone
<1>2. /\ pc \in [Calls -> {"idle", "lock", "user", "vault", "post", "reply", "saving"} \cup Ended]
      /\ newest \in [Users -> Nat] /\ name \in [Calls -> Users \cup {None}]
      /\ token \in [Calls -> Tokens \cup {None}] /\ First \in Users /\ First # None
  BY CallsAssumption DEF Typed, TypeOK, Users
<1>3. ASSUME NEW c \in Calls, pc[c] \in Asking PROVE c \in Gets
  BY <1>3, OnlyGets
\* A step that leaves tokens, answers and those who ask as they are.
<1>13. ASSUME UNCHANGED <<vault, newest, token, name>>,
              \A c \in Calls : (pc'[c] = "reply") <=> (pc[c] = "reply"),
              \A c \in Calls : pc'[c] = "vault" => pc[c] = "vault",
              \A c \in Calls : pc'[c] = "post" => pc[c] = "post",
              \A c \in Calls : pc'[c] = "saving" => pc[c] = "saving"
       PROVE  Vault' /\ Tokens1' /\ Names'
  <2>0. vault' = vault /\ token' = token /\ name' = name /\ newest' = newest
    BY <1>13
  <2>1. \A g \in Gets : pc'[g] = "post" => pc[g] = "post"
    BY <1>13 DEF Calls
  <2>2. Vault'
    BY <1>0, <2>0, <2>1
  <2>3. Names'
    BY <1>0, <1>13, <2>0
  <2>4. Tokens1'
    BY <1>0, <1>13, <2>0, <2>1
  <2> QED BY <2>2, <2>3, <2>4
\* A step that saves the answer.
<1>14. ASSUME NEW c \in Calls, pc[c] = "reply", vault' = token[c],
              UNCHANGED <<newest, token, name>>, pc'[c] \in {"saving", "failed", "cut"}, \A d \in Calls \ {c} : pc'[d] = pc[d]
       PROVE  Vault' /\ Tokens1' /\ Names'
  <2>1. /\ token[c] = Newest /\ Newest \in TokensOf(First)
        /\ \A d \in Calls \ {c} : pc[d] # "reply"
    BY <1>14, TokenTaken
  <2>2. vault' = Newest' /\ \A d \in Calls : pc'[d] # "reply"
    BY <1>14, <2>1
  <2>3. Vault'
    <3>1. \A g \in Gets : pc'[g] = "post" => pc[g] = "post"
      BY <1>14 DEF Calls
    <3> QED BY <1>0, <1>14, <2>1, <3>1
  <2>4. Names'
    BY <1>0, <1>14
  <2> QED BY <2>2, <2>3, <2>4
<1>15. ASSUME user' \in {user, First}, \A c \in Calls : pc[c] = "cut" => pc'[c] = "cut" PROVE User1'
  BY <1>0, <1>15
<1>4. ASSUME NEW g \in Gets, Get(g) \/ Lock(g) \/ LoadUser(g)
      PROVE  (Vault /\ Tokens1 /\ User1 /\ Names)'
  BY <1>0, <1>2, <1>4 DEF Get, Lock, LoadUser, Calls
<1>5. ASSUME NEW g \in Gets, LoadToken(g) PROVE (Vault /\ Tokens1 /\ User1 /\ Names)'
  <2>1. CASE From(g, "vault", "none") /\ UNCHANGED token
    <3>1. \A c \in Calls \ {g} : pc'[c] = pc[c]
      BY <1>2, <2>1
    <3>2. /\ g \in Calls /\ pc[g] = "vault" /\ pc'[g] = "none"
          /\ UNCHANGED <<vault, user, newest, name, token>>
      BY <1>2, <1>5, <2>1 DEF LoadToken, Calls
    <3> QED BY <1>13, <1>15, <3>1, <3>2
  <2>2. CASE name[g] # None /\ From(g, "vault", "post") /\ token' = [token EXCEPT ![g] = vault]
    <3>1. \A c \in Calls \ {g} : pc'[c] = pc[c] /\ token'[c] = token[c]
      BY <1>2, <2>2
    <3>2. /\ g \in Calls /\ pc[g] = "vault" /\ pc'[g] = "post" /\ token'[g] = vault
          /\ UNCHANGED <<vault, user, newest, name>>
      BY <1>2, <1>5, <2>2 DEF LoadToken, Calls
    <3>3. name[g] = First /\ vault \in TokensOf(First) /\ newest[First] \in Nat
      BY <1>0, <1>2, <2>2, <3>2
    <3>4. vault.n <= newest[First] /\ (Tokens1 => vault = Newest \/ vault.n < newest[First])
      BY <1>0, <3>3 DEF TokensOf, Token
    <3>5. \A h \in Gets \ {g} : pc'[h] = pc[h] /\ token'[h] = token[h]
      BY <3>1 DEF Calls
    <3>6. Vault' /\ User1' /\ Names'
      BY <1>0, <1>15, <3>1, <3>2, <3>3, <3>4, <3>5
    <3>7. CASE \E c \in Calls : pc[c] = "reply"
      <4>1. Answered /\ vault.n < newest[First]
        BY <1>0, <3>7
      <4>2. Answered'
        BY <4>1, <3>1, <3>2, <3>5
      <4> QED BY <3>1, <3>2, <3>6, <3>7, <4>2
    <3>8. CASE ~\E c \in Calls : pc[c] = "reply"
      <4>1. vault' = Newest' /\ ~\E c \in Calls : pc'[c] = "reply"
        BY <1>0, <3>1, <3>2, <3>8
      <4> QED BY <3>6, <4>1
    <3> QED BY <3>7, <3>8
  <2> QED BY <1>5, <2>1, <2>2 DEF LoadToken
<1>6. ASSUME NEW c \in Calls, Post(c) PROVE (Vault /\ Tokens1 /\ User1 /\ Names)'
  <2>1. pc[c] = "post" /\ c \in Gets
    BY <1>3, <1>6 DEF Post
  <2>2. /\ token[c] \in TokensOf(First) /\ token[c].n <= newest[First] /\ newest[First] \in Nat
        /\ vault \in TokensOf(First) /\ token[c].user = First
    BY <1>0, <1>2, <2>1 DEF TokensOf
  <2>3. CASE token[c].n = newest[First]
    <3>1. Answer(c, First) /\ UNCHANGED <<vault, user>>
      BY <1>6, <2>1, <2>2, <2>3, CallsAssumption DEF Post
    <3>2. vault = Newest /\ \A d \in Calls : pc[d] # "reply"
      BY <1>0, <2>1, <2>2, <2>3
    <3>3. /\ \A d \in Calls \ {c} : pc'[d] = pc[d] /\ token'[d] = token[d] /\ name'[d] = name[d]
          /\ pc'[c] = "reply" /\ newest'[First] = newest[First] + 1 /\ token'[c] = Newest'
          /\ name'[c] = First
      BY <1>0, <1>2, <2>1, <3>1 DEF Answer
    <3>4. vault.n = newest[First]
      BY <3>2 DEF Token
    <3>5. Vault'
      <4>1. ASSUME NEW g \in Gets, pc'[g] = "post" 
            PROVE  token'[g] = token[g] /\ pc[g] = "post"
        BY <3>3, <4>1 DEF Calls
      <4>2. ASSUME NEW g \in Gets, pc'[g] = "post"
            PROVE  token'[g] \in TokensOf(First) /\ token'[g].n <= newest'[First]
        <5>1. token[g] \in TokensOf(First) /\ token[g].n <= newest[First]
          BY <1>0, <4>1, <4>2
        <5> QED BY <2>2, <3>3, <4>1, <4>2, <5>1 DEF TokensOf
      <4> QED BY <2>2, <3>1, <4>2
    <3>6. Answered'
      <4>1. ASSUME NEW g \in Gets, pc'[g] = "post" PROVE token'[g].n < newest'[First]
        <5>1. token'[g] = token[g] /\ pc[g] = "post"
          BY <3>3, <4>1 DEF Calls
        <5>2. token[g] \in TokensOf(First) /\ token[g].n <= newest[First]
          BY <1>0, <5>1
        <5> QED BY <2>2, <3>3, <5>1, <5>2 DEF TokensOf
      <4>2. vault'.n < newest'[First]
        BY <2>2, <3>1, <3>3, <3>4
      <4>3. \A d \in Calls : pc'[d] = "reply" => d = c
        BY <3>2, <3>3
      <4> QED BY <3>3, <4>1, <4>2, <4>3
    <3>7. Tokens1'
      BY <3>3, <3>6, <2>1 DEF Calls
    <3>8. User1' /\ Names'
      BY <1>0, <2>1, <3>1, <3>3
    <3> QED BY <3>5, <3>7, <3>8
  <2>4. CASE token[c].n # newest[First]
    <3>1. From(c, "post", "denied") /\ UNCHANGED <<vault, user, newest, token, name>>
      BY <1>6, <2>1, <2>2, <2>4, CallsAssumption DEF Post
    <3>2. /\ \A d \in Calls \ {c} : pc'[d] = pc[d]
          /\ pc'[c] = "denied" /\ pc[c] = "post"
      BY <1>2, <3>1
    <3> QED BY <1>13, <1>15, <3>1, <3>2
  <2> QED BY <2>3, <2>4
<1>7. ASSUME NEW c \in Calls, LoginCalled(c) \/ Logout(c) \/ LogoutFails(c) PROVE FALSE
  BY <1>7, <1>2 DEF LoginCalled, Logout, LogoutFails, Started
<1>8. ASSUME NEW c \in Calls, Accept(c) PROVE (Vault /\ Tokens1 /\ User1 /\ Names)'
  <2>1. /\ pc[c] = "reply" /\ pc'[c] = "saving" /\ \A d \in Calls \ {c} : pc'[d] = pc[d]
        /\ vault' = token[c] /\ UNCHANGED <<user, newest, token, name>>
    BY <1>2, <1>8 DEF Accept, SaveToken
  <2> QED BY <1>14, <1>15, <2>1
<1>9. ASSUME NEW c \in Calls, Accepted(c) PROVE (Vault /\ Tokens1 /\ User1 /\ Names)'
  BY <1>0, <1>2, <1>3, <1>9 DEF Accepted
<1>10. ASSUME NEW c \in Calls, PostFails(c) \/ Cut(c) PROVE (Vault /\ Tokens1 /\ User1 /\ Names)'
  <2>1. /\ pc[c] # "idle" /\ pc[c] \notin Ended /\ \A d \in Calls \ {c} : pc'[d] = pc[d]
        /\ pc'[c] \in {"failed", "cut"} /\ UNCHANGED <<newest, token, name>>
    BY <1>2, <1>10 DEF PostFails, Cut
  <2>2. CASE pc[c] = "reply"
    <3>1. vault' = token[c] /\ UNCHANGED user
      BY <1>10, <2>2 DEF PostFails, Cut
    <3> QED BY <1>14, <1>15, <2>1, <2>2, <3>1
  <2>3. CASE pc[c] # "reply"
    <3>1. UNCHANGED vault /\ (UNCHANGED user \/ (pc[c] = "saving" /\ user' = name[c]))
      BY <1>10, <2>3 DEF PostFails, Cut
    <3>2. User1'
      BY <1>0, <2>1, <3>1
    <3> QED BY <1>13, <2>1, <2>3, <3>1, <3>2
  <2> QED BY <2>2, <2>3
<1>11. CASE Kill
  <2>1. /\ UNCHANGED <<vault, newest, token, name>> /\ \A c \in Calls : pc[c] # "reply"
        /\ \A c \in Calls : pc'[c] = pc[c] \/ pc'[c] = "cut"
        /\ UNCHANGED user \/ (user' = None /\ \E c \in Calls : pc[c] = "saving")
    BY <1>11 DEF Kill
  <2>2. \A c \in Calls : pc[c] = "saving" \/ pc[c] = "cut" => pc'[c] = "cut"
    BY <1>11 DEF Kill
  <2>3. User1'
    BY <1>0, <2>1, <2>2
  <2> QED BY <1>13, <2>1, <2>3
<1>12. CASE (\E s \in Services : Expire(s)) \/ UNCHANGED accountVars
  BY <1>0, <1>12 DEF Expire
<1> QED
  BY <1>4, <1>5, <1>6, <1>7, <1>8, <1>9, <1>10, <1>11, <1>12 DEF Next, Step

-----------------------------------------------------------------------------
\* The strengthening is inductive and gives what a run checks.
LEMMA Step_IInv == IInv /\ [Next]_accountVars => IInv'
BY TypedStep, RefreshesFitStep, OutStep, RefreshesAloneStep DEF IInv

LEMMA IInv_Safe == IInv => AccountSafe
<1> SUFFICES ASSUME IInv PROVE AccountSafe
  OBVIOUS
<1>1. AccountHolds
  BY DEF IInv, RefreshesAlone, AccountHolds, Newest
<1> QED BY <1>1 DEF IInv, Typed, AccountSafe

\* No refresh of a service shows the Cloud a used token without cause, refreshes
\* alone never sign the user out, and a logout that met no call under way lasts
\* until the next login, for any services and calls (cloud/account.py).
THEOREM AccountIsSafe == Spec => []AccountSafe
<1>1. Init => IInv
  BY InitIInv
<1>2. IInv /\ [Next]_accountVars => IInv'
  BY Step_IInv
<1>3. IInv => AccountSafe
  BY IInv_Safe
<1> QED BY <1>1, <1>2, <1>3, PTL DEF Spec
=============================================================================
