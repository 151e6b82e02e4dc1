------------------------------ MODULE Accounts ------------------------------
(***************************************************************************)
(* Accounts and web sessions (acoustid/web/views/user.py, web/utils.py,    *)
(* data/account.py and the account handlers of the API).  A person signs   *)
(* in as a MusicBrainz user, with Google or with an OpenID; the account is *)
(* made on the first sign-in.                                              *)
(*                                                                         *)
(* The session lives in a signed cookie: a request works on the copy it    *)
(* was sent with, and its answer replaces the browser's cookie when the    *)
(* request modified the session.  session["id"] is set before the commit,  *)
(* which may still fail: then the cookie names an account that never was.  *)
(*                                                                         *)
(* A MusicBrainz name is <<user, spelling>>: the API compares names        *)
(* without case, the web site and the unique index with it.  Keys and      *)
(* tokens are random strings: each is the next number.                     *)
(***************************************************************************)
EXTENDS Integers, FiniteSets

CONSTANTS
  Requests,    \* requests the server works on at a time
  Browsers,
  MbUsers, Googles, OpenIds,
  OpenIdOf,    \* the openid_id in the Google ID token, or None
  None,
  MaxIds,      \* bound: account ids drawn from the sequence
  MaxKeys,     \* bound: keys made
  MaxTokens,   \* bound: login tokens made
  MaxEvents    \* bound: requests, failures, changes by users and operators

Providers == {"musicbrainz", "google"}
Names == MbUsers \X {"old", "new"}
Identities == Names \union Googles \union OpenIds

\* The columns of the three kinds of identities are different ones.
ASSUME AccountsAssumption ==
  /\ OpenIdOf \in [Googles -> OpenIds \union {None}]
  /\ Names \intersect Googles = {} /\ Names \intersect OpenIds = {}
  /\ Googles \intersect OpenIds = {}
  /\ None \notin Identities /\ None \notin Browsers /\ None \notin Int
  /\ MaxIds \in Nat \ {0}

VARIABLES
  spelling,    \* MusicBrainz: how each user writes their name
  accounts,    \* account: a function from the ids of committed rows
  openids,     \* account_openid
  googles,     \* account_google
  nextId,      \* account_id_seq: a rollback does not give ids back
  nextKey, nextToken,
  cookie,      \* the session each browser holds
  req,         \* the requests under way
  events,      \* history: how many of these there were
  owner,       \* history: the identities each account was made for or got
  proved,      \* history: identities a browser was sent back with
  issued,      \* history: tokens made for each browser
  spent,       \* history: tokens used up by a request that was answered
  overwritten  \* history: browsers whose cookie was replaced by a stale copy

app_db == <<accounts, openids, googles, nextId, nextKey>>
history == <<owner, proved, issued, spent, overwritten>>
site == <<spelling, app_db, nextToken, cookie, req, history>>
avars == <<site, events>>

NoSession == [id |-> None, musicbrainz |-> None, google |-> None]
Idle == [pc |-> "idle", browser |-> None, copy |-> NoSession, session |-> NoSession,
         dirty |-> FALSE, who |-> None, account |-> None, fresh |-> FALSE, adds |-> FALSE]

AccountsInit ==
  /\ spelling = [u \in MbUsers |-> "old"]
  /\ accounts = [i \in {1} |-> [mbuser |-> None, apikey |-> 1]]
  /\ openids = [o \in OpenIds |-> 1] /\ googles = [g \in {} |-> None]
  /\ nextId = 2 /\ nextKey = 3 /\ nextToken = 1
  /\ cookie = [b \in Browsers |-> NoSession]
  /\ req = [r \in Requests |-> Idle]
  /\ events = 0
  /\ owner = [i \in 1 .. MaxIds |-> IF i = 1 THEN OpenIds ELSE {}]
  /\ proved = [b \in Browsers |-> {}] /\ issued = [b \in Browsers |-> {}]
  /\ spent = {} /\ overwritten = {}

Event == events < MaxEvents /\ events' = events + 1

\* A user changes the case of their name.
RenameMbUser(u) ==
  /\ spelling[u] = "old" /\ Event
  /\ spelling' = [spelling EXCEPT ![u] = "new"]
  /\ UNCHANGED <<app_db, nextToken, cookie, req, history>>

-----------------------------------------------------------------------------
(* Requests and their sessions *)

\* Request r of browser b with a session changed to s.
Sent(r, b, pc, s, dirty) ==
  /\ req[r].pc = "idle" /\ Event
  /\ req' = [req EXCEPT ![r] =
       [Idle EXCEPT !.pc = pc, !.browser = b, !.copy = cookie[b], !.session = s,
                    !.dirty = dirty]]

\* The login token of a provider goes into the session and, as the state
\* parameter, to the provider.
GenerateLoginToken(r, b, p) ==
  /\ nextToken <= MaxTokens
  /\ Sent(r, b, "answer", [cookie[b] EXCEPT ![p] = nextToken], TRUE)
  /\ nextToken' = nextToken + 1
  /\ issued' = [issued EXCEPT ![b] = @ \union {nextToken}]
  /\ UNCHANGED <<spelling, app_db, cookie, owner, proved, spent, overwritten>>

\* The token stays in the session.
LoginTokenKept(b, p, state) ==
  [session |-> cookie[b], ok |-> cookie[b][p] # None /\ cookie[b][p] = state]

\* check_login_token drops the token whether it is the right one or not.
LoginTokenChecked(b, p, state) ==
  [session |-> [cookie[b] EXCEPT ![p] = None],
   ok |-> cookie[b][p] # None /\ cookie[b][p] = state]

IdentitiesOf(p) ==
  IF p = "google" THEN Googles ELSE {<<u, spelling[u]>> : u \in MbUsers}

\* The identities a provider confirms: an ID token of Google names an OpenID too.
Claims(i) == IF i \in Googles THEN {i, OpenIdOf[i]} ELSE {i}

\* A browser comes back from the provider with a state parameter, or none.  (A
\* MusicBrainz state we did not sign is refused before the check: no change.)
\* Without a token in it the session is not modified.
LoginCallback(r, b, p, state, i) ==
  LET c == LoginTokenChecked(b, p, state) IN
  /\ i \in IdentitiesOf(p)
  /\ req[r].pc = "idle" /\ Event
  /\ req' = [req EXCEPT ![r] =
       [Idle EXCEPT !.pc = IF c.ok THEN "find" ELSE "answer", !.browser = b,
                    !.copy = cookie[b], !.session = c.session,
                    !.dirty = cookie[b][p] # None, !.who = i]]
  /\ proved' = IF c.ok THEN [proved EXCEPT ![b] = @ \union Claims(i)] ELSE proved
  /\ UNCHANGED <<spelling, app_db, nextToken, cookie, owner, issued, spent, overwritten>>

\* The OpenID library keeps its own record of the request in the session.
OpenIdCallback(r, b, o) ==
  /\ req[r].pc = "idle" /\ Event
  /\ req' = [req EXCEPT ![r] =
       [Idle EXCEPT !.pc = "find", !.browser = b, !.copy = cookie[b],
                    !.session = cookie[b], !.dirty = TRUE, !.who = o]]
  /\ proved' = [proved EXCEPT ![b] = @ \union {o}]
  /\ UNCHANGED <<spelling, app_db, nextToken, cookie, owner, issued, spent, overwritten>>

\* The API makes accounts for MusicBrainz users, without a session.
CreateMusicBrainz(r, u) ==
  /\ req[r].pc = "idle" /\ Event
  /\ req' = [req EXCEPT ![r] = [Idle EXCEPT !.pc = "find", !.who = <<u, spelling[u]>>]]
  /\ UNCHANGED <<spelling, app_db, nextToken, cookie, history>>

Logout(r, b) ==
  /\ cookie[b].id # None
  /\ Sent(r, b, "answer", [cookie[b] EXCEPT !.id = None], TRUE)
  /\ UNCHANGED <<spelling, app_db, nextToken, cookie, history>>

\* A page that needs a user drops the id of an account that does not exist.
RequireUser(r, b) ==
  /\ cookie[b].id # None /\ cookie[b].id \notin DOMAIN accounts
  /\ Sent(r, b, "answer", [cookie[b] EXCEPT !.id = None], TRUE)
  /\ UNCHANGED <<spelling, app_db, nextToken, cookie, history>>

\* The tokens a request has used up: the one a callback was tried with, right or
\* wrong, and those it has replaced.
Used(q) ==
  {q.copy[p] : p \in {x \in Providers :
     q.session[x] # q.copy[x] \/ q.who \in IF x = "google" THEN Googles ELSE Names}}

Answer(r) ==
  LET q == req[r]
      b == q.browser
  IN
  /\ q.pc = "answer"
  /\ req' = [req EXCEPT ![r] = Idle]
  /\ IF b # None /\ q.dirty
       THEN /\ cookie' = [cookie EXCEPT ![b] = q.session]
            /\ spent' = (spent \union Used(q)) \ {None}
            /\ overwritten' = IF cookie[b] # q.copy THEN overwritten \union {b}
                                                    ELSE overwritten
       ELSE UNCHANGED <<cookie, spent, overwritten>>
  /\ UNCHANGED <<spelling, app_db, nextToken, events, owner, proved, issued>>

-----------------------------------------------------------------------------
(* Finding or making the account of an identity *)

\* The accounts the lookup of request q finds.  The web site goes by the
\* spelling, the API does not.
Found(q) ==
  CASE q.who \in Names ->
         {a \in DOMAIN accounts : accounts[a].mbuser # None
            /\ IF q.browser = None THEN accounts[a].mbuser[1] = q.who[1]
                                   ELSE accounts[a].mbuser = q.who}
    [] q.who \in OpenIds -> {openids[o] : o \in DOMAIN openids \intersect {q.who}}
    [] q.who \in Googles ->
         IF q.who \in DOMAIN googles THEN {googles[q.who]}
         ELSE {openids[o] : o \in DOMAIN openids \intersect {OpenIdOf[q.who]}}

\* For a Google user, a row of account_google is added unless it was found.
SignedIn(q, a, adds) ==
  [q EXCEPT !.pc = "commit", !.account = a, !.adds = adds,
            !.session.id = IF q.browser = None THEN @ ELSE a]

FindUser(r) ==
  /\ req[r].pc = "find"
  /\ IF Found(req[r]) = {}
       THEN req' = [req EXCEPT ![r].pc = "insert"]
       ELSE \E a \in Found(req[r]) :
              req' = [req EXCEPT ![r] = SignedIn(@, a, @.who \notin DOMAIN googles)]
  /\ UNCHANGED <<spelling, app_db, nextToken, cookie, events, history>>

\* Does another transaction hold an uncommitted row with the same unique key?
\* The Google row is inserted by the commit only.
Pending(r) ==
  \E s \in Requests \ {r} :
    req[s].pc = "commit" /\ req[s].fresh /\ req[s].who = req[r].who
      /\ req[r].who \notin Googles

\* There is no unique index.
TakenNever(i) == FALSE

Taken(i) ==
  \/ i \in OpenIds /\ i \in DOMAIN openids
  \/ i \in Names /\ \E a \in DOMAIN accounts : accounts[a].mbuser = i

\* The id after those of the rows that are there.
IdAfterLast == Cardinality(DOMAIN accounts) + 1

\* The default of account.id: nextval of its sequence.
NewId == nextId

\* The INSERT waits for an uncommitted row, and fails on a committed one.
InsertAccount(r) ==
  /\ req[r].pc = "insert" /\ nextId <= MaxIds
  /\ ~ Pending(r)
  /\ nextId' = nextId + 1
  /\ req' = [req EXCEPT ![r] = IF Taken(@.who) THEN [@ EXCEPT !.pc = "answer"]
                               ELSE [SignedIn(@, NewId, TRUE) EXCEPT !.fresh = TRUE]]
  /\ UNCHANGED <<spelling, accounts, openids, googles, nextKey, nextToken, cookie,
                 events, history>>

With(f, x, y) == [z \in DOMAIN f \union {x} |-> IF z = x THEN y ELSE f[z]]

NewAccount(a, mbuser) ==
  /\ accounts' = With(accounts, a, [mbuser |-> mbuser, apikey |-> nextKey])
  /\ nextKey' = nextKey + 1

\* Has the request a row of account_google to insert?
Adds(q) == q.adds /\ q.who \in Googles

\* Is that row already there?
GoogleConflict(q) == Adds(q) /\ q.who \in DOMAIN googles

\* The new rows appear, and the OpenID of an account found by it is gone.
Commit(r) ==
  LET q == req[r] IN
  /\ q.pc = "commit" /\ ~ GoogleConflict(q)
  /\ req' = [req EXCEPT ![r].pc = "answer"]
  /\ IF q.fresh
       THEN nextKey <= MaxKeys /\ NewAccount(q.account, IF q.who \in Names THEN q.who ELSE None)
       ELSE UNCHANGED <<accounts, nextKey>>
  /\ googles' = IF Adds(q) THEN With(googles, q.who, q.account) ELSE googles
  /\ openids' = CASE q.fresh /\ q.who \in OpenIds -> With(openids, q.who, q.account)
                  [] Adds(q) /\ ~ q.fresh ->
                       [o \in DOMAIN openids \ {OpenIdOf[q.who]} |-> openids[o]]
                  [] OTHER -> openids
  /\ owner' = [owner EXCEPT ![q.account] = @ \union {q.who}]
  /\ UNCHANGED <<spelling, nextId, nextToken, cookie, events, proved, issued, spent, overwritten>>

\* A conflict of Google rows, or any other exception: the transaction is rolled
\* back, what is in the session stays there.
LoginFails(r) ==
  /\ req[r].pc \in {"find", "insert", "commit"}
  /\ req' = [req EXCEPT ![r].pc = "answer", ![r].fresh = FALSE]
  /\ IF req[r].pc = "commit" /\ GoogleConflict(req[r]) THEN UNCHANGED events ELSE Event
  /\ UNCHANGED <<spelling, app_db, nextToken, cookie, history>>

\* Anonymous accounts of the API, and those of the internal API.
CreateAccount ==
  /\ Event /\ nextId <= MaxIds /\ nextKey <= MaxKeys
  /\ nextId' = nextId + 1
  /\ NewAccount(NewId, None)
  /\ UNCHANGED <<spelling, openids, googles, nextToken, cookie, req, history>>

NewApiKey(b) ==
  LET a == cookie[b].id IN
  /\ a \in DOMAIN accounts /\ nextKey <= MaxKeys /\ Event
  /\ accounts' = [accounts EXCEPT ![a].apikey = nextKey]
  /\ nextKey' = nextKey + 1
  /\ UNCHANGED <<spelling, openids, googles, nextId, nextToken, cookie, req, history>>

-----------------------------------------------------------------------------
SessionStep(r, b) ==
  \/ \E p \in Providers : \/ GenerateLoginToken(r, b, p)
                          \/ \E t \in 1 .. nextToken - 1 \union {None}, i \in Identities :
                               LoginCallback(r, b, p, t, i)
  \/ \E o \in OpenIds : OpenIdCallback(r, b, o)
  \/ Logout(r, b) \/ RequireUser(r, b)

AccountsNext ==
  \/ \E u \in MbUsers : RenameMbUser(u)
  \/ \E r \in Requests :
       \/ \E b \in Browsers : SessionStep(r, b)
       \/ \E u \in MbUsers : CreateMusicBrainz(r, u)
       \/ FindUser(r) \/ InsertAccount(r) \/ Commit(r) \/ LoginFails(r) \/ Answer(r)
  \/ CreateAccount \/ \E b \in Browsers : NewApiKey(b)

AccountsSpec == AccountsInit /\ [][AccountsNext]_avars

-----------------------------------------------------------------------------
(* Properties *)

(* login_user_and_redirect stores the account in the session before the commit
   that may fail.  Whatever fails, whichever requests overlap: the account a
   browser's cookie names, if it exists at all, is that of an identity the
   provider confirmed for this browser; an id left behind by a rollback never
   becomes the account of somebody else. *)
SessionsBelong ==
  \A b \in Browsers :
    cookie[b].id \in DOMAIN accounts => owner[cookie[b].id] \intersect proved[b] # {}

(* Two sign-ins of one person at the same time, on the web site, by the API or
   both, make one account: lookup and insert are two steps, and only the unique
   index (for Google, only at the commit) is between them.  The API and the web
   site disagree on a MusicBrainz user who changed the case of their name. *)
OneAccountEach ==
  \A i \in Identities :
    \/ Cardinality({a \in DOMAIN accounts : i \in owner[a]}) <= 1
    \/ i \in Names /\ spelling[i[1]] = "new"
    \/ i \in OpenIds /\ \E g \in DOMAIN googles : OpenIdOf[g] = i

(* "a callback URL is good for one attempt": a sign-in goes through only with a
   token made for this very browser, and not with one that an earlier request
   has used, unless an overlapping request brought the token
   back by overwriting the cookie with its older copy. *)
TokensSpent ==
  [][\A r \in Requests, p \in Providers :
       LET t == req'[r].copy[p]
           b == req'[r].browser
       IN b # None /\ req[r].pc = "idle" /\ req'[r].pc = "find"
              /\ req'[r].who \in IdentitiesOf(p)
            => /\ t \in issued[b]
               /\ t \in spent => b \in overwritten]_avars
-----------------------------------------------------------------------------
(* The inductive invariant behind them *)

SessionType == [id : Int \union {None}, musicbrainz : Int \union {None},
                google : Int \union {None}]

RequestType ==
  [pc : {"idle", "find", "insert", "commit", "answer"}, browser : Browsers \union {None},
   copy : SessionType, session : SessionType, dirty : BOOLEAN,
   who : Identities \union {None}, account : Int \union {None}, fresh : BOOLEAN,
   adds : BOOLEAN]

AccountsTyped ==
  /\ spelling \in [MbUsers -> {"old", "new"}]
  /\ nextId \in Nat \ {0} /\ nextKey \in Nat \ {0} /\ nextToken \in Nat \ {0}
  /\ DOMAIN accounts \subseteq 1 .. MaxIds
  /\ DOMAIN accounts \subseteq 1 .. nextId - 1
  /\ accounts \in [DOMAIN accounts -> [mbuser : Names \union {None}, apikey : Int]]
  /\ DOMAIN openids \subseteq OpenIds /\ openids \in [DOMAIN openids -> DOMAIN accounts]
  /\ DOMAIN googles \subseteq Googles /\ googles \in [DOMAIN googles -> DOMAIN accounts]
  /\ cookie \in [Browsers -> SessionType]
  /\ req \in [Requests -> RequestType]
  /\ owner \in [1 .. MaxIds -> SUBSET Identities]
  /\ proved \in [Browsers -> SUBSET (Identities \union {None})]
  /\ issued \in [Browsers -> SUBSET (1 .. nextToken - 1)]
  /\ spent \subseteq Int /\ overwritten \subseteq Browsers

\* A request that signs somebody in.
Signing(q) == q.pc \in {"find", "insert", "commit"}

\* A request whose transaction has an account that is not committed.
Making(q) == q.pc = "commit" /\ q.fresh

\* What was written at a sign-in is in owner.
OwnersSound ==
  /\ \A a \in DOMAIN accounts : accounts[a].mbuser # None => accounts[a].mbuser \in owner[a]
  /\ \A o \in DOMAIN openids : o \in owner[openids[o]]
  /\ \A g \in DOMAIN googles : g \in owner[googles[g]]
  /\ \A a \in 1 .. MaxIds : a \notin DOMAIN accounts => owner[a] = {}

\* Whom a request signs in, the provider has confirmed.
SignersSound ==
  \A r \in Requests :
    Signing(req[r]) =>
      /\ req[r].who \in Identities
      /\ req[r].fresh => req[r].pc = "commit"
      /\ req[r].browser # None => Claims(req[r].who) \subseteq proved[req[r].browser]

\* An id that browser b may have: drawn already, and its own if there is such an
\* account.
IdSound(b, a) ==
  a # None => /\ a \in 1 .. nextId - 1
              /\ a \in DOMAIN accounts => owner[a] \intersect proved[b] # {}

\* The new account of a request is known to no other request and to no cookie.
IdsSound ==
  /\ \A b \in Browsers : IdSound(b, cookie[b].id)
  /\ \A r \in Requests :
       IF req[r].browser = None THEN req[r].session.id = None
                                ELSE IdSound(req[r].browser, req[r].session.id)
  /\ \A r \in Requests :
       req[r].pc = "commit" =>
         IF req[r].fresh
           THEN /\ req[r].account \in 1 .. nextId - 1 /\ req[r].account \in 1 .. MaxIds
                /\ req[r].account \notin DOMAIN accounts
                /\ \A b \in Browsers : cookie[b].id # req[r].account
                /\ \A s \in Requests \ {r} :
                     /\ req[s].session.id # req[r].account
                     /\ Making(req[s]) => req[s].account # req[r].account
           ELSE req[r].account \in DOMAIN accounts

SessionsInv == AccountsTyped /\ OwnersSound /\ SignersSound /\ IdsSound

\* A user who has not changed the case of their name is known by the old one.
AsSpelt(i) == i \in Names /\ spelling[i[1]] = "old" => i[2] = "old"

\* Was the account of OpenID o taken over by a Google user?
Migrated(o) == \E g \in DOMAIN googles : OpenIdOf[g] = o

NamesSound ==
  /\ \A a \in DOMAIN accounts : AsSpelt(accounts[a].mbuser)
  /\ \A r \in Requests : AsSpelt(req[r].who)
  /\ \A a, c \in DOMAIN accounts :
       accounts[a].mbuser = accounts[c].mbuser => a = c \/ accounts[a].mbuser = None

\* Is identity i the one that finds account a?
Leads(i, a) ==
  /\ i \in Names => spelling[i[1]] = "new" \/ accounts[a].mbuser = i
  /\ i \in OpenIds => Migrated(i) \/ (i \in DOMAIN openids /\ openids[i] = a)

OwnedOnce ==
  \A a \in DOMAIN accounts : \A i \in owner[a] :
    Leads(i, a) /\ (i \in Googles => i \in DOMAIN googles /\ googles[i] = a)

\* An account under way has an identity without an account, and it is the only
\* one; an account that was found is still the one to find.
MakersSound ==
  \A r \in Requests :
    req[r].pc = "commit" =>
      IF req[r].fresh
        THEN /\ \A a \in DOMAIN accounts : accounts[a].mbuser # req[r].who
             /\ req[r].who \notin DOMAIN openids
             /\ \A s \in Requests \ {r} :
                  Making(req[s]) /\ req[s].who = req[r].who => req[r].who \in Googles
        ELSE Leads(req[r].who, req[r].account)

\* A Google user's row is to be added, or was found and is still there.
AddersSound ==
  \A r \in Requests :
    req[r].pc = "commit" /\ req[r].who \in Googles /\ ~ req[r].adds =>
      req[r].who \in DOMAIN googles /\ googles[req[r].who] = req[r].account

OneInv == SessionsInv /\ NamesSound /\ OwnedOnce /\ MakersSound /\ AddersSound

KindOf(p) == IF p = "google" THEN Googles ELSE Names

\* A browser's tokens were made for it, each for one provider, and none is used up
\* unless an older cookie came back.
CookieTokens(b) ==
  \A p \in Providers :
    cookie[b][p] # None =>
      /\ cookie[b][p] \in issued[b]
      /\ \A x \in Providers \ {p} : cookie[b][p] # cookie[b][x]
      /\ cookie[b][p] \in spent => b \in overwritten

\* A request's tokens were made for its browser, each for one provider; one that
\* was tried is gone.
OwnTokens(q) ==
  \A p \in Providers :
    /\ q.copy[p] # None => q.browser # None /\ q.copy[p] \in issued[q.browser]
    /\ q.session[p] # None => q.browser # None /\ q.session[p] \in issued[q.browser]
    /\ q.browser # None /\ q.who \in KindOf(p) => q.session[p] = None
    /\ \A x \in Providers \ {p} :
         q.session[p] # None => q.session[p] # q.session[x] /\ q.session[p] # q.copy[x]

\* A token that request r has made is nowhere else.
NewTokens(r) ==
  \A p \in Providers :
    req[r].session[p] \notin {None, req[r].copy[p]} =>
      /\ req[r].session[p] \notin spent
      /\ \A b \in Browsers, x \in Providers : cookie[b][x] # req[r].session[p]
      /\ \A s \in Requests, x \in Providers :
           /\ req[s].copy[x] # req[r].session[p]
           /\ s # r => req[s].session[x] # req[r].session[p]

TokensSound ==
  /\ \A b, c \in Browsers : b # c => issued[b] \intersect issued[c] = {}
  /\ \A b \in Browsers : CookieTokens(b)
  /\ \A r \in Requests : OwnTokens(req[r]) /\ NewTokens(r)

\* A token is spent after it was made.
TokensInv == AccountsTyped /\ TokensSound /\ spent \subseteq 1 .. nextToken - 1
=============================================================================
