------------------------------- MODULE SignIn -------------------------------
(***************************************************************************)
(* The two ways to a pre-workspace session: a password, with the lock      *)
(* after too many failures (routes/auth.ts), and an OpenID provider        *)
(* (routes/oidc.ts, auth/oidc.ts, with routes/mock-idp.ts as provider).    *)
(* One e-mail address is followed through the password side.  On the other *)
(* a person is known to the provider by a subject, and the address in the  *)
(* claims may be another one each time.                                    *)
(***************************************************************************)
EXTENDS Naturals, Sequences, FiniteSets, Maps

CONSTANTS Logins,        \* password requests served at the same time
          Callbacks,     \* OpenID callbacks served at the same time
          MaxFailures,   \* LOGIN_MAX_FAILURES
          Window,        \* LOGIN_WINDOW and LOGIN_LOCK, in clock units
          MaxTries, MaxClock,
          States, Codes, \* values randomUUID may return
          Clients,       \* client ids a provider is registered with
          Subjects, Emails

ASSUME SignInAssumption ==
  MaxFailures \in Nat \ {0} /\ Window \in Nat \ {0} /\ MaxTries \in Nat /\ MaxClock \in Nat

VARIABLES attempts,    \* the login_attempts row of the address, if any
          tries,       \* failures recorded since it was last deleted: when
          login,       \* what each password request is about to do
          minute,
          provider,    \* the enabled oidc_providers row of the name: its client
          states,      \* ff:oidc:state: keys, with their nonces
          codes,       \* codes the provider issued and has not redeemed
          links,       \* callback URLs a browser holds: <<state, code>>
          identities,  \* oidc_identities: subject to user
          accounts,    \* users: e-mail to user, numbered as created
          callback,    \* what each callback is about to do
          signedIn     \* sessions opened: by which callback, for which user

passwordVars == <<attempts, tries, login, minute>>
oidcVars == <<provider, states, codes, links, identities, accounts, callback, signedIn>>
signInVars == <<attempts, tries, login, minute, provider, states, codes, links,
                identities, accounts, callback, signedIn>>

-----------------------------------------------------------------------------
(* POST /auth/login.                                                       *)
NoAttempts == [n |-> 0, start |-> 0, until |-> 0]
NoRow == attempts = NoAttempts

isLoginLocked == attempts.until > minute

AskLogin(h) ==
  /\ login[h] = "idle" /\ ~isLoginLocked
  /\ login' = [login EXCEPT ![h] = "verify"]
  /\ UNCHANGED <<attempts, tries, minute>>

(* The right password: the row is deleted, a lock in it included.          *)
clearLoginFailures(h) ==
  /\ login[h] = "verify"
  /\ attempts' = NoAttempts /\ tries' = <<>>
  /\ login' = [login EXCEPT ![h] = "idle"]
  /\ UNCHANGED minute

WindowExpired == minute - attempts.start > Window
NextCount == IF WindowExpired THEN 1 ELSE attempts.n + 1
(* Mutation: the window never expires. *)
NextCountForever == attempts.n + 1
FailureCount == NextCount

Recorded(count, row) ==
  [n |-> count,
   start |-> IF row /\ attempts.start >= minute - Window THEN attempts.start ELSE minute,
   until |-> IF count >= MaxFailures THEN minute + Window ELSE 0]

(* recordLoginFailure: FOR UPDATE holds a row that exists from its reading *)
(* to its writing; without a row nothing is held, and the upsert writes    *)
(* the count of a first failure over what was inserted meanwhile.          *)
recordLoginFailure(h) ==
  /\ login[h] = "verify" /\ Len(tries) < MaxTries
  /\ IF NoRow
     THEN login' = [login EXCEPT ![h] = "first"] /\ UNCHANGED <<attempts, tries>>
     ELSE /\ attempts' = Recorded(FailureCount, TRUE)
          /\ tries' = Append(tries, minute)
          /\ login' = [login EXCEPT ![h] = "idle"]
  /\ UNCHANGED minute

RecordFirst(h) ==
  /\ login[h] = "first"
  /\ attempts' = Recorded(1, ~NoRow)
  /\ tries' = Append(tries, minute)
  /\ login' = [login EXCEPT ![h] = "idle"]
  /\ UNCHANGED minute

MinutePasses ==
  /\ minute < MaxClock
  /\ minute' = minute + 1
  /\ UNCHANGED <<attempts, tries, login>>

PasswordNext ==
  /\ \/ \E h \in Logins : \/ AskLogin(h) \/ clearLoginFailures(h)
                          \/ recordLoginFailure(h) \/ RecordFirst(h)
     \/ MinutePasses
  /\ UNCHANGED oidcVars

-----------------------------------------------------------------------------
(* OpenID: the provider's rows, the redirect, the provider, the callback.  *)
NoClient == "no client"
NoCallback == [pc |-> "idle", state |-> NoClient, code |-> NoClient, nonce |-> NoClient,
               client |-> NoClient, sub |-> NoClient, email |-> NoClient, user |-> 0, late |-> FALSE]

Continue(c, pc) == callback' = [callback EXCEPT ![c].pc = pc]
Drop(c) == callback' = [callback EXCEPT ![c] = NoCallback]
AtCallback(c, pc) == callback[c].pc = pc
Stored == <<identities, accounts, signedIn>>

AddProvider(k) ==
  /\ provider = NoClient
  /\ provider' = k
  /\ UNCHANGED <<states, codes, links, callback, Stored>>

RemoveProvider ==
  /\ provider # NoClient
  /\ provider' = NoClient
  /\ UNCHANGED <<states, codes, links, callback, Stored>>

(* GET login: state and nonce are minted and kept for ten minutes; the     *)
(* browser fills in the provider's form, and may send it again.            *)
StartOidc(s) ==
  /\ provider # NoClient
  /\ s \notin DOMAIN states /\ ~\E l \in links : l[1] = s
  /\ states' = Extend(states, s, <<s, provider>>)
  /\ UNCHANGED <<provider, codes, links, callback, Stored>>

StateExpires(s) ==
  /\ s \in DOMAIN states
  /\ states' = Without(states, s)
  /\ UNCHANGED <<provider, codes, links, callback, Stored>>

Authorize(s, code, sub, email) ==
  /\ s \in DOMAIN states
  /\ code \notin DOMAIN codes /\ ~\E l \in links : l[2] = code
  /\ codes' = Extend(codes, code, [nonce |-> s, client |-> states[s][2], sub |-> sub, email |-> email])
  /\ links' = links \cup {<<s, code>>}
  /\ UNCHANGED <<provider, states, callback, Stored>>

CodeExpires(code) ==
  /\ code \in DOMAIN codes
  /\ codes' = Without(codes, code)
  /\ UNCHANGED <<provider, states, links, callback, Stored>>

(* Mutation: GET for GETDEL. *)
PeekState(s) == UNCHANGED states

(* GET callback.  GETDEL takes the state; without an answer from Redis the *)
(* callback is refused whether or not the state went.                      *)
UseState(s) == states' = Without(states, s)

AskCallback(c, l) ==
  /\ AtCallback(c, "idle") /\ l \in links /\ l[1] \in DOMAIN states
  /\ UseState(l[1])
  /\ \/ callback' = [callback EXCEPT ![c] = [NoCallback EXCEPT !.pc = "provider", !.state = l[1],
                                               !.code = l[2], !.nonce = states[l[1]][1]]]
     \/ UNCHANGED callback
  /\ UNCHANGED <<provider, codes, links, Stored>>

resolveLoginProvider(c) ==
  /\ AtCallback(c, "provider")
  /\ IF provider = NoClient THEN Drop(c)
     ELSE callback' = [callback EXCEPT ![c].pc = "exchange", ![c].client = provider]
  /\ UNCHANGED <<provider, states, codes, links, Stored>>

(* POST token redeems a code once, for its own client; verifyIdToken then  *)
(* compares audience and nonce.  The claims may lack an address that       *)
(* userinfo has.                                                           *)
verifyIdToken(c, granted) == granted.client = callback[c].client /\ granted.nonce = callback[c].nonce

ExchangeCode(c) ==
  LET code == callback[c].code IN
  /\ AtCallback(c, "exchange")
  /\ \/ /\ code \in DOMAIN codes /\ codes[code].client = callback[c].client
        /\ codes' = Without(codes, code)
        /\ IF verifyIdToken(c, codes[code])
           THEN callback' = [callback EXCEPT ![c].pc = "identity", ![c].sub = codes[code].sub,
                                             ![c].email = codes[code].email]
           ELSE Drop(c)
     \/ Drop(c) /\ UNCHANGED codes
  /\ UNCHANGED <<provider, states, links, Stored>>

(* The user of the identity; or else of the address; or else a new one.    *)
FindIdentity(c) ==
  IF callback[c].sub \in DOMAIN identities
  THEN callback' = [callback EXCEPT ![c].pc = "session", ![c].user = identities[callback[c].sub]]
  ELSE Continue(c, "user")

SelectIdentity(c) ==
  /\ AtCallback(c, "identity")
  /\ FindIdentity(c)
  /\ UNCHANGED <<provider, states, codes, links, Stored>>

SelectUser(c) ==
  /\ AtCallback(c, "user")
  /\ IF callback[c].email \in DOMAIN accounts
     THEN callback' = [callback EXCEPT ![c].pc = "link", ![c].user = accounts[callback[c].email]]
     ELSE Continue(c, "new user")
  /\ UNCHANGED <<provider, states, codes, links, Stored>>

(* users.email is unique: an address taken meanwhile throws.               *)
InsertUser(c) ==
  LET e == callback[c].email IN
  /\ AtCallback(c, "new user")
  /\ IF e \in DOMAIN accounts THEN Drop(c) /\ UNCHANGED accounts
     ELSE /\ accounts' = Extend(accounts, e, Cardinality(DOMAIN accounts) + 1)
          /\ callback' = [callback EXCEPT ![c].pc = "link",
                                          ![c].user = Cardinality(DOMAIN accounts) + 1]
  /\ UNCHANGED <<provider, states, codes, links, identities, signedIn>>

(* ON CONFLICT (provider, subject) DO NOTHING: a callback that comes late  *)
(* keeps the user it has.                                                  *)
LinkIdentity(c) ==
  LET late == callback[c].sub \in DOMAIN identities IN
  /\ AtCallback(c, "link")
  /\ identities' = IF late THEN identities
                   ELSE Extend(identities, callback[c].sub, callback[c].user)
  /\ callback' = [callback EXCEPT ![c].pc = "session", ![c].late = late]
  /\ UNCHANGED <<provider, states, codes, links, accounts, signedIn>>

OpenSession(c) ==
  /\ AtCallback(c, "session")
  /\ signedIn' = signedIn \cup {[state |-> callback[c].state, code |-> callback[c].code,
                                 sub |-> callback[c].sub, email |-> callback[c].email,
                                 user |-> callback[c].user, late |-> callback[c].late]}
  /\ Drop(c)
  /\ UNCHANGED <<provider, states, codes, links, identities, accounts>>

(* A statement throws, or the process dies with its callbacks.             *)
CallbackFails(c) ==
  /\ ~AtCallback(c, "idle")
  /\ Drop(c)
  /\ UNCHANGED <<provider, states, codes, links, Stored>>

(* POST /auth/register with the address, by whoever reads its mail.        *)
RegisterAddress(e) ==
  /\ e \notin DOMAIN accounts
  /\ accounts' = Extend(accounts, e, Cardinality(DOMAIN accounts) + 1)
  /\ UNCHANGED <<provider, states, codes, links, callback, identities, signedIn>>

CallbackStep(c) ==
  \/ \E l \in links : AskCallback(c, l)
  \/ resolveLoginProvider(c) \/ ExchangeCode(c) \/ SelectIdentity(c) \/ SelectUser(c)
  \/ InsertUser(c) \/ LinkIdentity(c) \/ OpenSession(c) \/ CallbackFails(c)

OidcNext ==
  /\ \/ \E k \in Clients : AddProvider(k)
     \/ RemoveProvider
     \/ \E s \in States : StartOidc(s) \/ StateExpires(s)
     \/ \E s \in States, code \in Codes, sub \in Subjects, e \in Emails : Authorize(s, code, sub, e)
     \/ \E code \in Codes : CodeExpires(code)
     \/ \E e \in Emails : RegisterAddress(e)
     \/ \E c \in Callbacks : CallbackStep(c)
  /\ UNCHANGED passwordVars

-----------------------------------------------------------------------------
SignInInit ==
  /\ attempts = NoAttempts /\ tries = <<>> /\ minute = 1
  /\ login = [h \in Logins |-> "idle"]
  /\ provider = NoClient /\ states = EmptyMap /\ codes = EmptyMap /\ links = {}
  /\ identities = EmptyMap /\ accounts = EmptyMap /\ signedIn = {}
  /\ callback = [c \in Callbacks |-> NoCallback]

SignInNext == PasswordNext \/ OidcNext

SignInSpec == SignInInit /\ [][SignInNext]_signInVars

-----------------------------------------------------------------------------
(* A lock has been earned: MaxFailures failures were recorded within the   *)
(* window before the last of them, none of them before a login that        *)
(* succeeded (recordLoginFailure with requests that overlap).              *)
LockIsEarned ==
  isLoginLocked =>
    Cardinality({i \in DOMAIN tries : tries[i] + 2 * Window >= attempts.until}) >= MaxFailures

(* One state signs in once, however often the provider's form and the      *)
(* callback URL are sent: "one-time use, deleted on read" (oidc.ts:176).   *)
OneSignInPerState ==
  \A x, y \in signedIn : x.state = y.state => x = y

(* A person keeps one account: every session of a subject is for the user  *)
(* the identity names, whatever address the provider gives this time.      *)
(* Only a callback that found no identity, and one when it came to link    *)
(* (another callback of the person ran beside it), goes on with the user   *)
(* of the address it was given.                                            *)
IdentityKeepsUser ==
  \A x \in signedIn :
    x.user = identities[x.sub] \/ (x.late /\ x.user = accounts[x.email])

(* A sign-in is one state's and one account's. *)
SignInsAreOneUsers == OneSignInPerState /\ IdentityKeepsUser

=============================================================================
