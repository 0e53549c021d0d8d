-------------------------------- MODULE Account --------------------------------
(***************************************************************************)
(* The Aeloon Cloud account (cloud/account.py, client.py, vault.py,        *)
(* bootstrap.py): one refresh token in a vault and one user in             *)
(* cloud-account.json, shared by the account services of a process.  The   *)
(* Runtime has one for logins; every operation's ProviderManager makes its *)
(* own, and each has a lock of its own.  A refresh token is good for one   *)
(* refresh: the server answers with the next.                              *)
(***************************************************************************)
EXTENDS Naturals

CONSTANTS
    Services,       \* CloudAccountService instances on one data directory
    Main,           \* the Runtime's own
    Gets,           \* calls of access_token
    Logins,         \* calls of login, one user each
    Logouts,        \* calls of logout
    None

Calls == Gets \cup Logins \cup Logouts
First == "first"        \* the user who is signed in to begin with
Users == Logins \cup {First}

ASSUME MainAssumption == Main \in Services
\* A call is of one kind, and "first" the name of none.
ASSUME CallsAssumption ==
    /\ Gets \cap Logins = {} /\ Gets \cap Logouts = {} /\ Logins \cap Logouts = {}
    /\ None \notin Calls \cup Users /\ First \notin Logins

VARIABLES
    vault,      \* the refresh token at hand
    user,       \* the user in cloud-account.json
    access,     \* service -> whose access token it has, as long as that is good
    lock,       \* service -> who holds its lock
    newest,     \* user -> the refresh token the server accepts
    pc,
    service,    \* call -> the service it is made of
    token,      \* call -> the refresh token it has loaded or been given
    name,       \* call -> the user it has loaded or been told
    (* History, read by no action. *)
    lost,       \* a token the server has replaced did not reach the vault
    out         \* there was a logout, met no call under way, and no login since

files == <<vault, user>>
mind == <<service, token, name>>
accountVars == <<files, access, lock, newest, pc, mind, lost, out>>

Token(u, n) == [user |-> u, n |-> n]
Tokens == [user: Users, n: Nat]
Ended == {"ok", "none", "denied", "failed", "cut"}

TypeOK ==
    /\ vault \in Tokens \cup {None} /\ user \in Users \cup {None}
    /\ access \in [Services -> Users \cup {None}]
    /\ \A s \in Services : lock[s] # None =>
           service[lock[s]] = s /\ pc[lock[s]] \in {"user", "vault", "post", "reply", "saving"}
    /\ newest \in [Users -> Nat]
    /\ pc \in [Calls -> {"idle", "lock", "user", "vault", "post", "reply", "saving"} \cup Ended]
    /\ service \in [Calls -> Services] /\ lost \in BOOLEAN /\ out \in BOOLEAN
    /\ \A c \in Calls : token[c] \in Tokens \cup {None} /\ name[c] \in Users \cup {None}

Init ==
    /\ vault = Token(First, 0) /\ user = First
    /\ access = [s \in Services |-> None] /\ lock = [s \in Services |-> None]
    /\ newest = [u \in Users |-> 0]
    /\ pc = [c \in Calls |-> "idle"] /\ service \in [Calls -> Services]
    /\ \A c \in Calls \ Gets : service[c] = Main
    /\ token = [c \in Calls |-> None] /\ name = [c \in Calls |-> None] /\ lost = FALSE /\ out = FALSE

Goes(c, where) == pc' = [pc EXCEPT ![c] = where]
From(c, here, there) == pc[c] = here /\ Goes(c, there)

\* Slip: a call that fails keeps its lock.
KeepLock(c) == UNCHANGED lock

\* A call that ends in its lock gives it back.
Release(c) == lock' = [s \in Services |-> IF lock[s] = c THEN None ELSE lock[s]]

----------------------------------------------------------------------------
(* access_token.                                                           *)

\* A token that is good for a minute yet is taken, unless the server has just
\* refused it (force).
Get(g) ==
    /\ \/ From(g, "idle", "lock")
       \/ From(g, "idle", "ok") /\ access[service[g]] # None
    /\ UNCHANGED <<files, access, lock, newest, mind, lost, out>>

\* Slip: refreshes of one service do not wait for each other.
LockNobody(g) ==
    /\ \/ From(g, "lock", "user")
       \/ From(g, "lock", "ok") /\ access[service[g]] # None
    /\ UNCHANGED <<files, access, lock, newest, mind, lost, out>>

\* The same look once more, with the lock.
Lock(g) ==
    /\ lock[service[g]] = None
    /\ \/ From(g, "lock", "user") /\ lock' = [lock EXCEPT ![service[g]] = g]
       \/ From(g, "lock", "ok") /\ access[service[g]] # None /\ UNCHANGED lock
    /\ UNCHANGED <<files, access, newest, mind, lost, out>>

LoadUser(g) ==
    /\ From(g, "user", "vault") /\ name' = [name EXCEPT ![g] = user]
    /\ UNCHANGED <<files, access, lock, newest, service, token, lost, out>>

LoadToken(g) ==
    /\ IF name[g] = None \/ vault = None
       THEN From(g, "vault", "none") /\ Release(g) /\ UNCHANGED token
       ELSE From(g, "vault", "post") /\ token' = [token EXCEPT ![g] = vault] /\ UNCHANGED lock
    /\ UNCHANGED <<files, access, newest, service, name, lost, out>>

LoginCalled(l) ==
    /\ l \in Logins /\ From(l, "idle", "post") /\ out' = FALSE
    /\ UNCHANGED <<files, access, lock, newest, mind, lost>>

\* The server's side of refresh and login.  Its answer may leave out the user:
\* then the one that was loaded stays.
Answer(c, u) ==
    /\ From(c, "post", "reply")
    /\ newest' = [newest EXCEPT ![u] = @ + 1]
    /\ token' = [token EXCEPT ![c] = Token(u, newest'[u])]
    /\ \/ name' = [name EXCEPT ![c] = u]
       \/ name[c] # None /\ UNCHANGED name
    /\ UNCHANGED lock

Post(c) ==
    /\ pc[c] = "post"
    /\ \/ c \in Logins /\ Answer(c, c)
       \/ c \in Gets /\ token[c].n = newest[token[c].user] /\ Answer(c, token[c].user)
       \/ /\ c \in Gets /\ token[c].n # newest[token[c].user]
          /\ From(c, "post", "denied") /\ Release(c) /\ UNCHANGED <<newest, token, name>>
    /\ UNCHANGED <<files, access, service, lost, out>>

\* The network fails, before or after the server has got the request.
PostFails(c) ==
    /\ pc[c] \in {"post", "reply"} /\ Goes(c, "failed") /\ Release(c)
    /\ lost' = (lost \/ pc[c] = "reply")
    /\ UNCHANGED <<files, access, newest, mind, out>>

\* Slip: the first token is kept.
SaveNothing(c) == vault' = vault

\* _accept: the token goes to the vault, the user to cloud-account.json.
SaveToken(c) == vault' = token[c]

Accept(c) ==
    /\ From(c, "reply", "saving") /\ SaveToken(c)
    /\ UNCHANGED <<user, access, lock, newest, mind, lost, out>>

Accepted(c) ==
    /\ From(c, "saving", "ok") /\ user' = name[c] /\ Release(c)
    /\ access' = [access EXCEPT ![service[c]] = token[c].user]
    /\ UNCHANGED <<vault, newest, mind, lost, out>>

----------------------------------------------------------------------------
OutAfter == out' = \A c \in Calls : pc[c] \in Ended \cup {"idle"}

\* Slip: the access token stays good after a logout.
LogoutFiles(o) ==
    /\ o \in Logouts /\ From(o, "idle", "ok") /\ OutAfter
    /\ vault' = None /\ user' = None
    /\ UNCHANGED <<access, lock, newest, mind, lost>>

\* logout waits for nobody and lets no task in; of the loads and writes that
\* threads have begun, none can tell the vault's part from the rest.
Logout(o) ==
    /\ o \in Logouts /\ From(o, "idle", "ok") /\ OutAfter
    /\ vault' = None /\ user' = None /\ access' = [access EXCEPT ![Main] = None]
    /\ UNCHANGED <<lock, newest, mind, lost>>

\* The vault or the user's file cannot be removed: the access token stays as it
\* is.  So it looks, too, when the process is killed between the two.
LogoutFails(o) ==
    /\ o \in Logouts /\ From(o, "idle", "failed")
    /\ vault' \in {vault, None} /\ UNCHANGED user
    /\ UNCHANGED <<access, lock, newest, mind, lost, out>>

Expire(s) ==
    /\ access[s] # None /\ access' = [access EXCEPT ![s] = None]
    /\ UNCHANGED <<files, lock, newest, pc, mind, lost, out>>

\* The caller is cancelled; a write that its thread has begun is finished.
Cut(c) ==
    /\ pc[c] \notin Ended \cup {"idle"} /\ Goes(c, "cut") /\ Release(c)
    /\ \/ UNCHANGED files
       \/ pc[c] = "reply" /\ vault' = token[c] /\ UNCHANGED user
       \/ pc[c] = "saving" /\ user' = name[c] /\ UNCHANGED vault
    /\ lost' = (lost \/ (pc[c] = "reply" /\ vault' # token[c]))
    /\ UNCHANGED <<access, newest, mind, out>>

\* The process is killed.  A file that is being written may be left empty.
Kill ==
    /\ pc' = [c \in Calls |-> IF pc[c] \in Ended \cup {"idle"} THEN pc[c] ELSE "cut"]
    /\ \/ UNCHANGED vault
       \/ vault' = None /\ \E c \in Calls : pc[c] = "reply"
    /\ \/ UNCHANGED user
       \/ user' = None /\ \E c \in Calls : pc[c] = "saving"
    /\ access' = [s \in Services |-> None] /\ lock' = [s \in Services |-> None]
    /\ lost' = (lost \/ \E c \in Calls : pc[c] = "reply")
    /\ UNCHANGED <<newest, mind, out>>

Step(c) ==
    \/ c \in Gets /\ (Lock(c) \/ LoadUser(c) \/ LoadToken(c))
    \/ Post(c) \/ Accept(c) \/ Accepted(c)

Next ==
    \/ \E c \in Calls : Step(c) \/ LoginCalled(c) \/ Logout(c) \/ LogoutFails(c)
        \/ PostFails(c) \/ Cut(c)
    \/ (\E g \in Gets : Get(g)) \/ (\E s \in Services : Expire(s)) \/ Kill

\* The loop and the worker threads go on.
Advance == \E c \in Calls : Step(c)
Fairness == WF_accountVars(Advance)

Spec == Init /\ [][Next]_accountVars /\ Fairness

----------------------------------------------------------------------------
Started(calls) == \E c \in calls : pc[c] # "idle"

\* Refreshes of one service never show a token that is used up, forced ones
\* included: the server refuses one only after another service, a login or a
\* loss on the way has come in between.
RefusalsExplained ==
    \A g \in Gets : pc[g] = "denied" =>
        \/ lost \/ Started(Logins)
        \/ \E h \in Gets : pc[h] # "idle" /\ service[h] # service[g]

\* Refreshes alone, of however many services, never sign the user out: the
\* vault has the token the server will take, or is about to, and the user stays,
\* unless a token or a write gets lost.
AccountHolds ==
    ~(Started(Logins) \/ Started(Logouts) \/ lost) =>
        /\ vault = Token(First, newest[First]) \/ \E c \in Calls : pc[c] = "reply"
        /\ user = First \/ \E c \in Calls : pc[c] = "cut"

\* Who has logged out stays so: only a call that was under way when the logout
\* came, or a login, brings an account back.
StaysOut == out => vault = None /\ user = None /\ access[Main] = None

\* No call is under way.
AllOver == \A c \in Calls : pc[c] \in Ended \cup {"idle"}

\* No refresh of a service shows a used token without cause, the account that is
\* on disk is one the server knows, and a logout lasts.
AccountSafe == TypeOK /\ RefusalsExplained /\ AccountHolds /\ StaysOut
=============================================================================
