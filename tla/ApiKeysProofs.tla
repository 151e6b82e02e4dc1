---------------------------- MODULE ApiKeysProofs ----------------------------
(***************************************************************************)
(* Proofs about Accounts and ApiKeys, for any number of requests, browsers,*)
(* identities, servers and greenlets, and any times: cookies name no       *)
(* account of somebody else, an identity has one account, a login token is *)
(* good for one sign-in, and keys are honoured no longer than the caches   *)
(* and the lag of the replica allow.                                       *)
(*                                                                         *)
(* The applications and caches take no part in the first three, whose      *)
(* invariants are about Accounts alone; Quiet is what they may do to it.   *)
(***************************************************************************)
EXTENDS ApiKeys, FiniteSetTheorems, SequenceTheorems, TLAPS

-----------------------------------------------------------------------------
(* Sessions *)

\* Assigning one field of a session leaves the others.
LEMMA SessionWith ==
  ASSUME NEW s \in SessionType, NEW p \in {"id", "musicbrainz", "google"},
         NEW v \in Int \union {None}
  PROVE  /\ [s EXCEPT ![p] = v] \in SessionType
         /\ [s EXCEPT ![p] = v][p] = v
         /\ \A x \in {"id", "musicbrainz", "google"} \ {p} : [s EXCEPT ![p] = v][x] = s[x]
BY DEF SessionType

\* A session by field and by provider is the same.
LEMMA SessionAt ==
  ASSUME NEW s \in SessionType
  PROVE  /\ s["id"] = s.id /\ s["musicbrainz"] = s.musicbrainz
         /\ s["google"] = s.google
         /\ \A p \in Providers : s[p] \in Int \union {None}
BY DEF SessionType, Providers

\* A login token in a session does not touch whom it signs in.
LEMMA SessionToken ==
  ASSUME NEW s \in SessionType, NEW p \in Providers, NEW v \in Int \union {None}
  PROVE  [s EXCEPT ![p] = v] \in SessionType /\ [s EXCEPT ![p] = v].id = s.id
<1>1. p \in {"id", "musicbrainz", "google"} /\ p # "id"
  BY DEF Providers
<1>2. [s EXCEPT ![p] = v] \in SessionType
  BY <1>1, SessionWith
<1>3. [s EXCEPT ![p] = v]["id"] = s["id"]
  BY <1>1, SessionWith
<1>4. QED BY <1>2, <1>3, SessionAt

\* What a request that has found account a keeps of itself.
LEMMA SignedInAt ==
  ASSUME NEW q \in RequestType, NEW a \in Int, NEW adds \in BOOLEAN
  PROVE  /\ SignedIn(q, a, adds) \in RequestType
         /\ SignedIn(q, a, adds).pc = "commit" /\ SignedIn(q, a, adds).account = a
         /\ SignedIn(q, a, adds).fresh = q.fresh /\ SignedIn(q, a, adds).adds = adds
         /\ SignedIn(q, a, adds).browser = q.browser /\ SignedIn(q, a, adds).who = q.who
         /\ SignedIn(q, a, adds).copy = q.copy
         /\ SignedIn(q, a, adds).session.id = IF q.browser = None THEN q.session.id ELSE a
         /\ \A p \in Providers : SignedIn(q, a, adds).session[p] = q.session[p]
BY DEF RequestType, SessionType, SignedIn, Providers

\* Request r becomes q; nothing else that the invariant reads changes, but that
\* more identities may be proved.
Moves(r, q) ==
  /\ accounts' = accounts /\ openids' = openids /\ googles' = googles
  /\ nextId' = nextId /\ owner' = owner /\ cookie' = cookie
  /\ req' = [req EXCEPT ![r] = q]
  /\ \A b \in Browsers : proved[b] \subseteq proved'[b]

\* What is asked of a request by itself.
MayBecome(r, q) ==
  /\ q \in RequestType
  /\ Signing(q) => /\ q.who \in Identities
                   /\ q.fresh => q.pc = "commit"
                   /\ q.browser # None => Claims(q.who) \subseteq proved'[q.browser]
  /\ IF q.browser = None THEN q.session.id = None ELSE IdSound(q.browser, q.session.id)'
  /\ \A s \in Requests \ {r} : Making(req[s]) => q.session.id # req[s].account
  /\ q.pc = "commit" => ~ q.fresh /\ q.account \in DOMAIN accounts

\* An id that browser b may have stays one while owners and proofs only grow.
LEMMA IdSoundKept ==
  ASSUME NEW b \in Browsers, NEW a, IdSound(b, a), nextId \in Nat, nextId' \in Nat, nextId <= nextId',
         DOMAIN accounts' = DOMAIN accounts,
         \A x \in DOMAIN accounts : owner[x] \subseteq owner'[x],
         proved[b] \subseteq proved'[b]
  PROVE  IdSound(b, a)'
BY DEF IdSound

\* A step of one request that asks for no more than it may leaves the sessions right.
LEMMA MovesSound ==
  ASSUME SessionsInv, NEW r \in Requests, NEW q, Moves(r, q), MayBecome(r, q)
  PROVE  OwnersSound' /\ SignersSound' /\ IdsSound'
<1>1. /\ req \in [Requests -> RequestType] /\ q \in RequestType
      /\ \A s \in Requests : req[s].browser \in Browsers \union {None}
      /\ nextId \in Nat
  BY DEF SessionsInv, AccountsTyped, RequestType, MayBecome
<1>2. /\ req'[r] = q
      /\ \A s \in Requests \ {r} : req'[s] = req[s]
  BY <1>1 DEF Moves
<1>3. OwnersSound'
  BY DEF Moves, SessionsInv, OwnersSound
<1>4. SignersSound'
  <2> SUFFICES ASSUME NEW s \in Requests, Signing(req'[s])
               PROVE  /\ req'[s].who \in Identities
                      /\ req'[s].fresh => req'[s].pc = "commit"
                      /\ req'[s].browser # None =>
                           Claims(req'[s].who) \subseteq proved'[req'[s].browser]
    BY DEF SignersSound, Signing
  <2>1. CASE s = r
    BY <1>2, <2>1 DEF MayBecome
  <2>2. CASE s # r
    <3>1. req'[s] = req[s] /\ Signing(req[s])
      BY <1>2, <2>2
    <3>2. req[s].browser # None => Claims(req[s].who) \subseteq proved[req[s].browser]
      BY <3>1 DEF SessionsInv, SignersSound
    <3>3. req[s].browser # None => proved[req[s].browser] \subseteq proved'[req[s].browser]
      BY <1>1 DEF Moves
    <3>4. req[s].who \in Identities /\ (req[s].fresh => req[s].pc = "commit")
      BY <3>1 DEF SessionsInv, SignersSound
    <3>5. QED BY <3>1, <3>2, <3>3, <3>4
  <2>3. QED BY <2>1, <2>2
<1>5. \A b \in Browsers : \A a : IdSound(b, a) => IdSound(b, a)'
  BY <1>1, IdSoundKept DEF Moves
<1>6. \A b \in Browsers : IdSound(b, cookie[b].id)'
  BY <1>5 DEF Moves, SessionsInv, IdsSound, IdSound
<1>7. \A s \in Requests :
        IF req'[s].browser = None THEN req'[s].session.id = None
                                  ELSE IdSound(req[s].browser, req[s].session.id)'
  <2> TAKE s \in Requests
  <2>1. CASE s = r
    BY <1>2, <2>1 DEF MayBecome, IdSound
  <2>2. CASE s # r
    <3>1. IF req[s].browser = None THEN req[s].session.id = None
                                   ELSE IdSound(req[s].browser, req[s].session.id)
      BY DEF SessionsInv, IdsSound
    <3>2. QED BY <1>1, <1>2, <1>5, <2>2, <3>1 DEF IdSound
  <2>3. QED BY <2>1, <2>2
<1>8. ASSUME NEW s \in Requests, req'[s].pc = "commit"
      PROVE IF req'[s].fresh
           THEN /\ req'[s].account \in 1 .. nextId' - 1 /\ req'[s].account \in 1 .. MaxIds
                /\ req'[s].account \notin DOMAIN accounts'
                /\ \A b \in Browsers : cookie'[b].id # req'[s].account
                /\ \A x \in Requests \ {s} :
                     /\ req'[x].session.id # req'[s].account
                     /\ Making(req'[x]) => req'[x].account # req'[s].account
           ELSE req'[s].account \in DOMAIN accounts'
  <2>1. CASE s = r
    BY <1>2, <1>8, <2>1 DEF MayBecome, Moves
  <2>2. CASE s # r
    <3>1. req'[s] = req[s] /\ req[s].pc = "commit"
      BY <1>2, <1>8, <2>2
    <3>2. IF req[s].fresh
           THEN /\ req[s].account \in 1 .. nextId - 1 /\ req[s].account \in 1 .. MaxIds
                /\ req[s].account \notin DOMAIN accounts
                /\ \A b \in Browsers : cookie[b].id # req[s].account
                /\ \A x \in Requests \ {s} :
                     /\ req[x].session.id # req[s].account
                     /\ Making(req[x]) => req[x].account # req[s].account
           ELSE req[s].account \in DOMAIN accounts
      BY <3>1 DEF SessionsInv, IdsSound
    <3>3. CASE ~ req[s].fresh
      BY <3>1, <3>2, <3>3 DEF Moves
    <3>4. CASE req[s].fresh
      <4>1. ASSUME NEW x \in Requests \ {s}
            PROVE  /\ req'[x].session.id # req[s].account
                   /\ Making(req'[x]) => req'[x].account # req[s].account
        <5>1. CASE x = r
          BY <1>2, <3>1, <3>4, <5>1, <2>2 DEF MayBecome, Making
        <5>2. CASE x # r
          BY <1>2, <3>2, <3>4, <5>2
        <5>3. QED BY <5>1, <5>2
      <4>2. QED BY <3>1, <3>2, <3>4, <4>1 DEF Moves
    <3>5. QED BY <3>3, <3>4
  <2>3. QED BY <2>1, <2>2
<1>9. IdsSound'
  BY <1>6, <1>7, <1>8 DEF IdsSound, Making, IdSound
<1>10. QED BY <1>3, <1>4, <1>9

\* A browser without a cookie has no id and no token.
LEMMA NoSessionAt ==
  NoSession \in SessionType /\ NoSession.id = None /\ \A p \in Providers : NoSession[p] = None
BY DEF NoSession, SessionType, Providers

\* The requests that begin: to sign identity w in, without one, by the API.
SigningIn(b, pc, c, s, dirty, w) ==
  [Idle EXCEPT !.pc = pc, !.browser = b, !.copy = c, !.session = s, !.dirty = dirty,
               !.who = w]

Visiting(b, pc, c, s) ==
  [Idle EXCEPT !.pc = pc, !.browser = b, !.copy = c, !.session = s, !.dirty = TRUE]

Calling(w) == [Idle EXCEPT !.pc = "find", !.who = w]

\* The request of a callback: its fields.
LEMMA SigningInAt ==
  ASSUME NEW b \in Browsers, NEW c \in SessionType, NEW s \in SessionType,
         NEW w \in Identities, NEW pc \in {"find", "answer"}, NEW dirty \in BOOLEAN
  PROVE  /\ SigningIn(b, pc, c, s, dirty, w) \in RequestType
         /\ SigningIn(b, pc, c, s, dirty, w).pc = pc /\ SigningIn(b, pc, c, s, dirty, w).browser = b
         /\ SigningIn(b, pc, c, s, dirty, w).copy = c /\ SigningIn(b, pc, c, s, dirty, w).session = s
         /\ SigningIn(b, pc, c, s, dirty, w).who = w /\ ~ SigningIn(b, pc, c, s, dirty, w).fresh
BY DEF SigningIn, RequestType, Idle

\* A request that signs nobody in: its fields.
LEMMA VisitingAt ==
  ASSUME NEW b \in Browsers, NEW c \in SessionType, NEW s \in SessionType
  PROVE  /\ Visiting(b, "answer", c, s) \in RequestType
         /\ Visiting(b, "answer", c, s).pc = "answer" /\ Visiting(b, "answer", c, s).browser = b
         /\ Visiting(b, "answer", c, s).copy = c /\ Visiting(b, "answer", c, s).session = s
         /\ Visiting(b, "answer", c, s).who = None /\ ~ Visiting(b, "answer", c, s).fresh
BY DEF Visiting, RequestType, Idle

\* A call of the API: its fields.
LEMMA CallingAt ==
  ASSUME NEW w \in Identities
  PROVE  /\ Calling(w) \in RequestType
         /\ Calling(w).pc = "find" /\ Calling(w).browser = None
         /\ Calling(w).copy = NoSession /\ Calling(w).session = NoSession
         /\ Calling(w).who = w /\ ~ Calling(w).fresh
BY NoSessionAt DEF Calling, RequestType, Idle

\* A cookie names no account that a request has under way.
LEMMA CookieAt ==
  ASSUME SessionsInv, NEW b \in Browsers
  PROVE  /\ cookie[b] \in SessionType
         /\ IdSound(b, cookie[b].id)
         /\ \A s \in Requests : Making(req[s]) => cookie[b].id # req[s].account
  BY DEF SessionsInv, AccountsTyped, IdsSound, Making

\* A request begins with the session of its browser, or without its id.
LEMMA BegunSound ==
  ASSUME SessionsInv, NEW r \in Requests, NEW b \in Browsers, NEW q \in RequestType,
         Moves(r, q), q.browser = b, q.session.id \in {cookie[b].id, None},
         q.pc \in {"find", "answer"}, ~ q.fresh,
         q.pc = "find" => q.who \in Identities /\ Claims(q.who) \subseteq proved'[b]
  PROVE  OwnersSound' /\ SignersSound' /\ IdsSound'
<1>1. nextId \in Nat /\ nextId' = nextId /\ None \notin Browsers
  BY AccountsAssumption DEF SessionsInv, AccountsTyped, Moves
<1>2. IdSound(b, q.session.id)
  BY CookieAt DEF IdSound
<1>3. IdSound(b, q.session.id)'
  <2>1. proved[b] \subseteq proved'[b] /\ owner' = owner /\ accounts' = accounts
    BY DEF Moves
  <2>2. QED BY <1>1, <1>2, <2>1 DEF IdSound
<1>4. \A s \in Requests \ {r} : Making(req[s]) => q.session.id # req[s].account
  <2> TAKE s \in Requests \ {r}
  <2>1. Making(req[s]) => req[s].account \in 1 .. nextId - 1
    BY DEF SessionsInv, IdsSound, Making
  <2>2. Making(req[s]) => None # req[s].account
    BY <1>1, <2>1, AccountsAssumption
  <2>3. Making(req[s]) => cookie[b].id # req[s].account
    BY CookieAt
  <2>4. QED BY <2>2, <2>3
<1>5. MayBecome(r, q)
  BY <1>1, <1>3, <1>4 DEF MayBecome, Signing
<1>6. QED BY <1>5, MovesSound

\* generate_login_token leaves the sessions right.
LEMMA GenerateSound ==
  ASSUME SessionsInv, NEW r \in Requests, NEW b \in Browsers, NEW p \in Providers,
         GenerateLoginToken(r, b, p)
  PROVE  SessionsInv'
<1> DEFINE s == [cookie[b] EXCEPT ![p] = nextToken]
           q == Visiting(b, "answer", cookie[b], s)
<1>1. AccountsTyped
  BY DEF SessionsInv
<1>2. cookie[b] \in SessionType /\ nextToken \in Int /\ None \notin Browsers
  BY <1>1, AccountsAssumption DEF AccountsTyped
<1>3. /\ s \in SessionType /\ s.id = cookie[b].id
  <2>1. nextToken \in Int \union {None}
    BY <1>2
  <2>2. QED BY <1>2, <2>1, SessionToken
<1> HIDE DEF s
<1>4. /\ q \in RequestType /\ q.pc = "answer" /\ q.browser = b /\ q.copy = cookie[b]
      /\ q.session = s /\ q.who = None /\ ~ q.fresh
  BY <1>2, <1>3, VisitingAt
<1>5. req' = [req EXCEPT ![r] = q]
  BY DEF GenerateLoginToken, Sent, Visiting, s
<1> HIDE DEF q
<1>6. Moves(r, q)
  BY <1>5 DEF GenerateLoginToken, app_db, Moves
<1>7. OwnersSound' /\ SignersSound' /\ IdsSound'
  BY <1>3, <1>4, <1>6, BegunSound
<1>8. AccountsTyped'
  <2>1. issued' \in [Browsers -> SUBSET (1 .. nextToken' - 1)]
    <3>1. issued' = [issued EXCEPT ![b] = @ \union {nextToken}] /\ nextToken' = nextToken + 1
      BY DEF GenerateLoginToken
    <3>2. \A c \in Browsers : issued[c] \subseteq 1 .. nextToken - 1
      BY <1>1 DEF AccountsTyped
    <3>3. \A c \in Browsers : issued'[c] \subseteq 1 .. nextToken' - 1
      <4> TAKE c \in Browsers
      <4>1. \A x \in 1 .. nextToken - 1 : x \in 1 .. nextToken' - 1
        BY <1>2, <3>1
      <4>2. nextToken \in 1 .. nextToken' - 1
        BY <1>1, <3>1 DEF AccountsTyped
      <4>3. issued'[c] \subseteq issued[c] \union {nextToken}
        BY <1>1, <3>1 DEF AccountsTyped
      <4>4. QED BY <3>2, <4>1, <4>2, <4>3
    <3>4. QED BY <1>1, <3>1, <3>3 DEF AccountsTyped
  <2>2. req' \in [Requests -> RequestType] /\ nextToken' \in Nat \ {0}
    BY <1>1, <1>4, <1>5 DEF AccountsTyped, GenerateLoginToken
  <2>3. QED BY <1>1, <2>1, <2>2 DEF AccountsTyped, GenerateLoginToken, app_db
<1>9. QED BY <1>7, <1>8 DEF SessionsInv

\* The callback proves an identity for its browser and no other.
LEMMA LoginCallbackSound ==
  ASSUME SessionsInv, NEW r \in Requests, NEW b \in Browsers, NEW p \in Providers,
         NEW t, NEW i \in Identities, LoginCallback(r, b, p, t, i)
  PROVE  SessionsInv'
<1> DEFINE s == [cookie[b] EXCEPT ![p] = None]
<1> PICK ok \in BOOLEAN : ok = LoginTokenChecked(b, p, t).ok
  BY DEF LoginTokenChecked
<1>0. PICK dirty \in BOOLEAN : dirty = (cookie[b][p] # None)
  OBVIOUS
<1> DEFINE pc == IF ok THEN "find" ELSE "answer"
           q == SigningIn(b, pc, cookie[b], s, dirty, i)
<1>1. AccountsTyped
  BY DEF SessionsInv
<1>2. cookie[b] \in SessionType /\ None \notin Browsers
  BY <1>1, AccountsAssumption DEF AccountsTyped
<1>3. /\ s \in SessionType /\ s.id = cookie[b].id
  <2>1. None \in Int \union {None}
    OBVIOUS
  <2>2. QED BY <1>2, <2>1, SessionToken
<1>4. s = LoginTokenChecked(b, p, t).session
  BY DEF LoginTokenChecked
<1> HIDE DEF s
<1>5. /\ q \in RequestType /\ q.pc = pc /\ q.browser = b /\ q.copy = cookie[b]
      /\ q.session = s /\ q.who = i /\ ~ q.fresh
  BY <1>2, <1>3, SigningInAt
<1>6. req' = [req EXCEPT ![r] = q]
  BY <1>0, <1>4 DEF LoginCallback, SigningIn
<1> HIDE DEF q
<1>7. /\ proved' \in [Browsers -> SUBSET (Identities \union {None})]
      /\ \A c \in Browsers : proved[c] \subseteq proved'[c]
      /\ ok => Claims(i) \subseteq proved'[b]
  <2>1. Claims(i) \subseteq Identities \union {None}
    BY AccountsAssumption DEF Claims, Identities
  <2>2. proved' = IF ok THEN [proved EXCEPT ![b] = @ \union Claims(i)] ELSE proved
    BY DEF LoginCallback
  <2>3. QED BY <1>1, <2>1, <2>2 DEF AccountsTyped
<1>8. Moves(r, q)
  BY <1>6, <1>7 DEF LoginCallback, app_db, Moves
<1>9. OwnersSound' /\ SignersSound' /\ IdsSound'
  BY <1>3, <1>5, <1>7, <1>8, BegunSound
<1>10. AccountsTyped'
  BY <1>1, <1>5, <1>6, <1>7 DEF AccountsTyped, LoginCallback, app_db
<1>11. QED BY <1>9, <1>10 DEF SessionsInv

\* So does the one of the OpenID library.
LEMMA OpenIdCallbackSound ==
  ASSUME SessionsInv, NEW r \in Requests, NEW b \in Browsers, NEW o \in OpenIds,
         OpenIdCallback(r, b, o)
  PROVE  SessionsInv'
<1>0. PICK dirty \in BOOLEAN : dirty = TRUE
  OBVIOUS
<1> DEFINE q == SigningIn(b, "find", cookie[b], cookie[b], dirty, o)
<1>1. AccountsTyped /\ o \in Identities
  BY DEF SessionsInv, Identities
<1>2. cookie[b] \in SessionType /\ None \notin Browsers
  BY <1>1, AccountsAssumption DEF AccountsTyped
<1>3. /\ q \in RequestType /\ q.pc = "find" /\ q.browser = b /\ q.copy = cookie[b]
      /\ q.session = cookie[b] /\ q.who = o /\ ~ q.fresh
  BY <1>1, <1>2, SigningInAt
<1>4. req' = [req EXCEPT ![r] = q]
  BY <1>0 DEF OpenIdCallback, SigningIn
<1> HIDE DEF q
<1>5. /\ proved' \in [Browsers -> SUBSET (Identities \union {None})]
      /\ \A c \in Browsers : proved[c] \subseteq proved'[c]
      /\ Claims(o) \subseteq proved'[b]
  <2>1. Claims(o) = {o}
    BY AccountsAssumption DEF Claims
  <2>2. proved' = [proved EXCEPT ![b] = @ \union {o}]
    BY DEF OpenIdCallback
  <2>3. QED BY <1>1, <2>1, <2>2 DEF AccountsTyped
<1>6. Moves(r, q)
  BY <1>4, <1>5 DEF OpenIdCallback, app_db, Moves
<1>7. OwnersSound' /\ SignersSound' /\ IdsSound'
  BY <1>1, <1>3, <1>5, <1>6, BegunSound
<1>8. AccountsTyped'
  BY <1>1, <1>3, <1>4, <1>5 DEF AccountsTyped, OpenIdCallback, app_db
<1>9. QED BY <1>7, <1>8 DEF SessionsInv

\* Logout and RequireUser drop the id.
LEMMA DroppedSound ==
  ASSUME SessionsInv, NEW r \in Requests, NEW b \in Browsers,
         Sent(r, b, "answer", [cookie[b] EXCEPT !.id = None], TRUE),
         UNCHANGED <<spelling, app_db, nextToken, cookie, history>>
  PROVE  SessionsInv'
<1> DEFINE s == [cookie[b] EXCEPT !.id = None]
           q == Visiting(b, "answer", cookie[b], s)
<1>1. AccountsTyped
  BY DEF SessionsInv
<1>2. cookie[b] \in SessionType /\ None \notin Browsers
  BY <1>1, AccountsAssumption DEF AccountsTyped
<1>3. s \in SessionType /\ s.id = None
  BY <1>2 DEF SessionType
<1> HIDE DEF s
<1>4. /\ q \in RequestType /\ q.pc = "answer" /\ q.browser = b /\ q.copy = cookie[b]
      /\ q.session = s /\ q.who = None /\ ~ q.fresh
  BY <1>2, <1>3, VisitingAt
<1>5. req' = [req EXCEPT ![r] = q]
  BY DEF Sent, Visiting, s
<1> HIDE DEF q
<1>6. Moves(r, q)
  BY <1>5 DEF app_db, history, Moves
<1>7. OwnersSound' /\ SignersSound' /\ IdsSound'
  BY <1>3, <1>4, <1>6, BegunSound
<1>8. AccountsTyped'
  BY <1>1, <1>4, <1>5 DEF AccountsTyped, app_db, history
<1>9. QED BY <1>7, <1>8 DEF SessionsInv

\* A call of the API has no session.
LEMMA CreateMusicBrainzSound ==
  ASSUME SessionsInv, NEW r \in Requests, NEW u \in MbUsers, CreateMusicBrainz(r, u)
  PROVE  SessionsInv'
<1> DEFINE i == <<u, spelling[u]>>
           q == Calling(i)
<1>1. AccountsTyped
  BY DEF SessionsInv
<1>2. i \in Identities
  BY <1>1 DEF AccountsTyped, Identities, Names
<1>3. /\ q \in RequestType /\ q.pc = "find" /\ q.browser = None /\ q.copy = NoSession
      /\ q.session = NoSession /\ q.who = i /\ ~ q.fresh
  BY <1>2, NoSessionAt, CallingAt
<1>4. req' = [req EXCEPT ![r] = q]
  BY DEF CreateMusicBrainz, Calling
<1> HIDE DEF q, i
<1>5. Moves(r, q)
  BY <1>4 DEF CreateMusicBrainz, app_db, history, Moves
<1>6. \A s \in Requests \ {r} : Making(req[s]) => q.session.id # req[s].account
  <2> TAKE s \in Requests \ {r}
  <2>1. Making(req[s]) => req[s].account \in 1 .. nextId - 1
    BY DEF SessionsInv, IdsSound, Making
  <2>2. nextId \in Nat
    BY <1>1 DEF AccountsTyped
  <2>3. Making(req[s]) => None # req[s].account
    BY <2>1, <2>2, AccountsAssumption
  <2>4. QED BY <1>3, <2>3, NoSessionAt
<1>7. MayBecome(r, q)
  BY <1>2, <1>3, <1>6, NoSessionAt DEF MayBecome, Signing
<1>8. OwnersSound' /\ SignersSound' /\ IdsSound'
  BY <1>5, <1>7, MovesSound
<1>9. AccountsTyped'
  BY <1>1, <1>3, <1>4 DEF AccountsTyped, CreateMusicBrainz, app_db, history
<1>10. QED BY <1>8, <1>9 DEF SessionsInv

\* The account that is found is one of the identity the provider confirmed.
LEMMA FoundOwns ==
  ASSUME SessionsInv, NEW r \in Requests, Signing(req[r]), NEW a \in Found(req[r])
  PROVE  /\ a \in DOMAIN accounts
         /\ req[r].browser # None => owner[a] \intersect proved[req[r].browser] # {}
<1> DEFINE i == req[r].who
           b == req[r].browser
<1>1. i \in Identities /\ (b # None => Claims(i) \subseteq proved[b])
  BY DEF SessionsInv, SignersSound
<1>2. /\ openids \in [DOMAIN openids -> DOMAIN accounts]
      /\ googles \in [DOMAIN googles -> DOMAIN accounts]
  BY DEF SessionsInv, AccountsTyped
<1>3. CASE i \in Names
  <2>1. /\ a \in DOMAIN accounts /\ accounts[a].mbuser # None
        /\ b # None => accounts[a].mbuser = i
    BY <1>3, AccountsAssumption DEF Found
  <2>2. b # None => i \in owner[a] /\ i \in proved[b]
    BY <1>1, <1>3, <2>1, AccountsAssumption DEF SessionsInv, OwnersSound, Claims
  <2>3. QED BY <2>1, <2>2
<1>4. CASE i \in OpenIds
  <2>1. i \in DOMAIN openids /\ a = openids[i]
    BY <1>4, AccountsAssumption DEF Found
  <2>2. i \in owner[a]
    BY <2>1 DEF SessionsInv, OwnersSound
  <2>3. b # None => i \in proved[b]
    BY <1>1, <1>4, AccountsAssumption DEF Claims
  <2>4. QED BY <1>2, <2>1, <2>2, <2>3
<1>5. CASE i \in Googles
  <2>1. \/ i \in DOMAIN googles /\ a = googles[i]
        \/ OpenIdOf[i] \in DOMAIN openids /\ a = openids[OpenIdOf[i]]
    BY <1>5, AccountsAssumption DEF Found
  <2>2. b # None => i \in proved[b] /\ OpenIdOf[i] \in proved[b]
    BY <1>1, <1>5 DEF Claims
  <2>3. i \in owner[a] \/ OpenIdOf[i] \in owner[a]
    BY <2>1 DEF SessionsInv, OwnersSound
  <2>4. QED BY <1>2, <2>1, <2>2, <2>3
<1>6. QED BY <1>1, <1>3, <1>4, <1>5 DEF Identities

\* Request r goes on without a change of its session.
LEMMA OnwardAt ==
  ASSUME NEW q \in RequestType, NEW pc \in {"idle", "find", "insert", "commit", "answer"}
  PROVE  /\ [q EXCEPT !.pc = pc] \in RequestType
         /\ [q EXCEPT !.pc = pc].pc = pc
         /\ [q EXCEPT !.pc = pc].browser = q.browser /\ [q EXCEPT !.pc = pc].copy = q.copy
         /\ [q EXCEPT !.pc = pc].session = q.session /\ [q EXCEPT !.pc = pc].who = q.who
         /\ [q EXCEPT !.pc = pc].account = q.account /\ [q EXCEPT !.pc = pc].fresh = q.fresh
BY DEF RequestType

\* What a request has is its own.
LEMMA OwnSession ==
  ASSUME SessionsInv, NEW r \in Requests
  PROVE  /\ req[r] \in RequestType /\ req[r].browser \in Browsers \union {None}
         /\ IF req[r].browser = None THEN req[r].session.id = None
                                     ELSE IdSound(req[r].browser, req[r].session.id)
         /\ \A s \in Requests \ {r} : Making(req[s]) => req[r].session.id # req[s].account
BY DEF SessionsInv, AccountsTyped, RequestType, IdsSound, Making

\* Finding the account: the session gets the id of one that is its own.
LEMMA FindUserSound ==
  ASSUME SessionsInv, NEW r \in Requests, FindUser(r)
  PROVE  SessionsInv'
<1>1. /\ AccountsTyped /\ req[r] \in RequestType /\ Signing(req[r]) /\ ~ req[r].fresh
      /\ nextId \in Nat
  BY DEF SessionsInv, AccountsTyped, FindUser, Signing, SignersSound
<1>2. /\ req[r].who \in Identities
      /\ req[r].browser # None => Claims(req[r].who) \subseteq proved[req[r].browser]
  BY <1>1 DEF SessionsInv, SignersSound
<1>3. /\ accounts' = accounts /\ nextId' = nextId /\ owner' = owner /\ proved' = proved
  BY DEF FindUser, app_db, history
<1>4. PICK q : req' = [req EXCEPT ![r] = q] /\ MayBecome(r, q)
  <2>1. CASE Found(req[r]) = {}
    <3>0. PICK q : q = [req[r] EXCEPT !.pc = "insert"]
      OBVIOUS
    <3>1. req' = [req EXCEPT ![r] = q]
      BY <2>1, <3>0 DEF FindUser
    <3>2. /\ q \in RequestType /\ q.pc = "insert" /\ q.browser = req[r].browser
          /\ q.session = req[r].session /\ q.who = req[r].who /\ q.fresh = req[r].fresh
      BY <1>1, <3>0, OnwardAt
    <3>3. IF q.browser = None THEN q.session.id = None
                              ELSE IdSound(q.browser, q.session.id)'
      BY <1>3, <3>2, OwnSession DEF IdSound
    <3>4. MayBecome(r, q)
      BY <1>1, <1>2, <1>3, <3>2, <3>3, OwnSession DEF MayBecome
    <3>5. QED BY <3>1, <3>4
  <2>2. CASE Found(req[r]) # {}
    <3>1. PICK a \in Found(req[r]), adds \in BOOLEAN :
            /\ req' = [req EXCEPT ![r] = SignedIn(@, a, adds)]
            /\ ~ adds => req[r].who \in DOMAIN googles
      BY <2>2 DEF FindUser
    <3>2. /\ a \in DOMAIN accounts
          /\ req[r].browser # None => owner[a] \intersect proved[req[r].browser] # {}
      BY <1>1, FoundOwns
    <3>3. a \in 1 .. nextId - 1 /\ a \in Int
      BY <1>1, <3>2 DEF AccountsTyped
    <3>0. PICK q : q = SignedIn(req[r], a, adds)
      OBVIOUS
    <3>4. /\ q \in RequestType /\ q.pc = "commit" /\ q.browser = req[r].browser
          /\ q.account = a /\ q.who = req[r].who /\ q.fresh = req[r].fresh
          /\ q.session.id = IF q.browser = None THEN req[r].session.id ELSE a
      BY <1>1, <3>0, <3>3, SignedInAt
    <3>5. req' = [req EXCEPT ![r] = q]
      BY <1>1, <3>0, <3>1 DEF AccountsTyped
    <3>6. IF q.browser = None THEN q.session.id = None
                              ELSE IdSound(q.browser, q.session.id)'
      BY <1>3, <3>2, <3>3, <3>4, OwnSession DEF IdSound
    <3>7. \A s \in Requests \ {r} : Making(req[s]) => req[s].account # a
      BY <3>2 DEF SessionsInv, IdsSound, Making
    <3>8. \A s \in Requests \ {r} : Making(req[s]) => q.session.id # req[s].account
      BY <3>4, <3>7, OwnSession
    <3>9. MayBecome(r, q)
      BY <1>1, <1>2, <1>3, <3>2, <3>4, <3>6, <3>8 DEF MayBecome
    <3>10. QED BY <3>5, <3>9
  <2>3. QED BY <2>1, <2>2
<1>5. Moves(r, q)
  BY <1>4 DEF FindUser, app_db, history, Moves
<1>6. OwnersSound' /\ SignersSound' /\ IdsSound'
  BY <1>4, <1>5, MovesSound
<1>7. AccountsTyped'
  BY <1>1, <1>4 DEF MayBecome, AccountsTyped, FindUser, app_db, history
<1>8. QED BY <1>6, <1>7 DEF SessionsInv

\* A request whose transaction was rolled back keeps its session.
LEMMA FailedAt ==
  ASSUME NEW q \in RequestType
  PROVE  /\ [q EXCEPT !.pc = "answer", !.fresh = FALSE] \in RequestType
         /\ [q EXCEPT !.pc = "answer", !.fresh = FALSE].pc = "answer"
         /\ [q EXCEPT !.pc = "answer", !.fresh = FALSE].browser = q.browser
         /\ [q EXCEPT !.pc = "answer", !.fresh = FALSE].copy = q.copy
         /\ [q EXCEPT !.pc = "answer", !.fresh = FALSE].session = q.session
         /\ [q EXCEPT !.pc = "answer", !.fresh = FALSE].who = q.who
BY DEF RequestType

\* A rollback leaves an id in the session that nobody else has.
LEMMA LoginFailsSound ==
  ASSUME SessionsInv, NEW r \in Requests, LoginFails(r)
  PROVE  SessionsInv'
<1>0. PICK q : q = [req[r] EXCEPT !.pc = "answer", !.fresh = FALSE]
  OBVIOUS
<1>1. AccountsTyped /\ req[r] \in RequestType
  BY DEF SessionsInv, AccountsTyped
<1>2. /\ q \in RequestType /\ q.pc = "answer" /\ q.browser = req[r].browser
      /\ q.session = req[r].session
  BY <1>0, <1>1, FailedAt
<1>3. req' = [req EXCEPT ![r] = q]
  BY <1>0, <1>1 DEF LoginFails, AccountsTyped
<1>4. Moves(r, q)
  BY <1>3 DEF LoginFails, app_db, history, Moves
<1>5. IF q.browser = None THEN q.session.id = None ELSE IdSound(q.browser, q.session.id)'
  <2>1. accounts' = accounts /\ nextId' = nextId /\ owner' = owner /\ proved' = proved
    BY DEF LoginFails, app_db, history
  <2>2. QED BY <1>2, <2>1, OwnSession DEF IdSound
<1>6. MayBecome(r, q)
  BY <1>2, <1>5, OwnSession DEF MayBecome, Signing
<1>7. OwnersSound' /\ SignersSound' /\ IdsSound'
  BY <1>4, <1>6, MovesSound
<1>8. AccountsTyped'
  BY <1>1, <1>2, <1>3 DEF AccountsTyped, LoginFails, app_db, history
<1>9. QED BY <1>7, <1>8 DEF SessionsInv

\* Steps that leave the sessions, the requests and the accounts that there are.
LEMMA StillSound ==
  ASSUME SessionsInv, req' = req, cookie' = cookie, owner' = owner, proved' = proved,
         nextId' = nextId, openids' = openids, googles' = googles,
         DOMAIN accounts' = DOMAIN accounts,
         \A a \in DOMAIN accounts : accounts'[a].mbuser = accounts[a].mbuser
  PROVE  OwnersSound' /\ SignersSound' /\ IdsSound'
<1>1. OwnersSound'
  BY DEF SessionsInv, OwnersSound
<1>2. SignersSound'
  BY DEF SessionsInv, SignersSound
<1>3. IdsSound'
  BY DEF SessionsInv, IdsSound, IdSound, Making
<1>4. QED BY <1>1, <1>2, <1>3

\* A new spelling of a name changes no session.
LEMMA RenameSound ==
  ASSUME SessionsInv, NEW u \in MbUsers, RenameMbUser(u)
  PROVE  SessionsInv'
<1>1. OwnersSound' /\ SignersSound' /\ IdsSound'
  BY StillSound DEF RenameMbUser, app_db, history
<1>2. AccountsTyped'
  BY DEF SessionsInv, AccountsTyped, RenameMbUser, app_db, history
<1>3. QED BY <1>1, <1>2 DEF SessionsInv

\* A new key changes no session.
LEMMA NewApiKeySound ==
  ASSUME SessionsInv, NEW b \in Browsers, NewApiKey(b)
  PROVE  SessionsInv'
<1>1. PICK a \in DOMAIN accounts : accounts' = [accounts EXCEPT ![a].apikey = nextKey]
  BY DEF NewApiKey
<1>2. /\ nextKey \in Nat \ {0} /\ nextKey' = nextKey + 1
      /\ accounts \in [DOMAIN accounts -> [mbuser : Names \union {None}, apikey : Int]]
  BY DEF SessionsInv, AccountsTyped, NewApiKey
<1>3. /\ DOMAIN accounts' = DOMAIN accounts
      /\ \A c \in DOMAIN accounts : accounts'[c].mbuser = accounts[c].mbuser
      /\ accounts' \in [DOMAIN accounts -> [mbuser : Names \union {None}, apikey : Int]]
      /\ nextKey' \in Nat \ {0}
  BY <1>1, <1>2
<1>4. OwnersSound' /\ SignersSound' /\ IdsSound'
  BY <1>3, StillSound DEF NewApiKey, history
<1>5. AccountsTyped'
  BY <1>3 DEF SessionsInv, AccountsTyped, NewApiKey, history
<1>6. QED BY <1>4, <1>5 DEF SessionsInv

\* The next id of the sequence is nobody's yet.
LEMMA NextIdFree ==
  ASSUME SessionsInv
  PROVE  /\ nextId \in Nat \ {0} /\ nextId \notin DOMAIN accounts
         /\ \A b \in Browsers : cookie[b].id # nextId
         /\ \A s \in Requests :
              /\ req[s].session.id # nextId
              /\ Making(req[s]) => /\ req[s].account \in 1 .. nextId - 1
                                   /\ req[s].account # nextId
<1>1. nextId \in Nat \ {0} /\ DOMAIN accounts \subseteq 1 .. nextId - 1 /\ None # nextId
  BY AccountsAssumption DEF SessionsInv, AccountsTyped
<1>2. \A b, a : IdSound(b, a) => a # nextId
  BY <1>1 DEF IdSound
<1>3. \A s \in Requests : req[s].session.id # nextId
  BY <1>1, <1>2 DEF SessionsInv, IdsSound
<1>4. \A s \in Requests : Making(req[s]) => req[s].account \in 1 .. nextId - 1
  BY DEF SessionsInv, IdsSound, Making
<1>5. \A b \in Browsers : cookie[b].id # nextId
  BY <1>2 DEF SessionsInv, IdsSound
<1>6. QED BY <1>1, <1>3, <1>4, <1>5

\* An account that is made changes no session of before.
LEMMA IdsGrow ==
  ASSUME SessionsInv, NEW b \in Browsers, NEW x, IdSound(b, x), nextId' \in Nat, nextId <= nextId',
         proved' = proved, \A a \in DOMAIN accounts : owner[a] \subseteq owner'[a],
         x \in DOMAIN accounts' => x \in DOMAIN accounts
  PROVE  IdSound(b, x)'
<1>1. nextId \in Nat
  BY DEF SessionsInv, AccountsTyped
<1>2. QED BY <1>1 DEF IdSound

\* An account made by the API takes an id that no session has.
LEMMA CreateAccountSound ==
  ASSUME SessionsInv, CreateAccount
  PROVE  SessionsInv'
<1>1. PICK new : new = nextId /\ nextId' = nextId + 1
  BY DEF CreateAccount
<1>2. /\ accounts' = With(accounts, new, [mbuser |-> None, apikey |-> nextKey])
      /\ nextKey' = nextKey + 1 /\ new \in 1 .. MaxIds
      /\ req' = req /\ cookie' = cookie /\ owner' = owner /\ proved' = proved
      /\ openids' = openids /\ googles' = googles
  BY <1>1, AccountsAssumption, NextIdFree DEF CreateAccount, NewAccount, NewId, history
<1>3. /\ DOMAIN accounts' = DOMAIN accounts \union {new} /\ new \notin DOMAIN accounts
      /\ accounts'[new] = [mbuser |-> None, apikey |-> nextKey]
      /\ \A a \in DOMAIN accounts : accounts'[a] = accounts[a]
      /\ accounts' = [a \in DOMAIN accounts' |-> accounts'[a]]
  <2>1. PICK row : row = [mbuser |-> None, apikey |-> nextKey]
    OBVIOUS
  <2>2. accounts' = With(accounts, new, row)
    BY <1>2, <2>1
  <2>3. new \notin DOMAIN accounts
    BY <1>1, NextIdFree
  <2>4. DOMAIN accounts' = DOMAIN accounts \union {new} /\ accounts'[new] = row
    BY <2>2 DEF With
  <2>5. \A a \in DOMAIN accounts \ {new} : accounts'[a] = accounts[a]
    BY <2>2 DEF With
  <2>6. accounts' = [a \in DOMAIN accounts' |-> accounts'[a]]
    BY <2>2 DEF With
  <2>7. \A a \in DOMAIN accounts : accounts'[a] = accounts[a]
    BY <2>3, <2>5
  <2>8. QED BY <2>1, <2>3, <2>4, <2>6, <2>7
<1>4. /\ nextId' \in Nat \ {0} /\ nextId <= nextId' /\ nextId \in Nat
      /\ \A a \in 1 .. nextId - 1 : a \in 1 .. nextId' - 1
      /\ new \in 1 .. nextId' - 1
  BY <1>1, NextIdFree
<1>5. AccountsTyped'
  <2>1. DOMAIN accounts' \subseteq 1 .. MaxIds /\ DOMAIN accounts' \subseteq 1 .. nextId' - 1
    BY <1>2, <1>3, <1>4 DEF SessionsInv, AccountsTyped
  <2>2. accounts' \in [DOMAIN accounts' -> [mbuser : Names \union {None}, apikey : Int]]
    <3>1. \A a \in DOMAIN accounts : accounts[a] \in [mbuser : Names \union {None}, apikey : Int]
      BY DEF SessionsInv, AccountsTyped
    <3>2. nextKey \in Int
      BY DEF SessionsInv, AccountsTyped
    <3>3. accounts'[new] \in [mbuser : Names \union {None}, apikey : Int]
      BY <1>3, <3>2
    <3>4. \A a \in DOMAIN accounts' : accounts'[a] \in [mbuser : Names \union {None}, apikey : Int]
      BY <1>3, <3>1, <3>3
    <3>5. QED BY <1>3, <3>4
  <2>3. nextKey' \in Nat \ {0}
    BY <1>2 DEF SessionsInv, AccountsTyped
  <2>4. /\ openids' \in [DOMAIN openids' -> DOMAIN accounts']
        /\ googles' \in [DOMAIN googles' -> DOMAIN accounts']
    BY <1>2, <1>3 DEF SessionsInv, AccountsTyped
  <2>5. QED BY <1>2, <1>4, <2>1, <2>2, <2>3, <2>4 DEF SessionsInv, AccountsTyped, CreateAccount, history
<1>6. OwnersSound'
  BY <1>2, <1>3 DEF SessionsInv, AccountsTyped, OwnersSound
<1>7. SignersSound'
  BY <1>2 DEF SessionsInv, SignersSound
<1>8. \A b \in Browsers : \A x : IdSound(b, x) => IdSound(b, x)'
  <2> TAKE b \in Browsers
  <2> TAKE x
  <2> HAVE IdSound(b, x)
  <2>1. x \in DOMAIN accounts' => x \in DOMAIN accounts
    <3>1. x # new
      BY <1>1, <1>4, AccountsAssumption DEF IdSound
    <3>2. QED BY <1>3, <3>1
  <2>2. QED BY <1>2, <1>4, <2>1, IdsGrow
<1>9. IdsSound'
  <2>1. \A b \in Browsers : IdSound(b, cookie[b].id)'
    BY <1>2, <1>8 DEF SessionsInv, IdsSound, IdSound
  <2>2. \A r \in Requests :
          IF req'[r].browser = None THEN req'[r].session.id = None
                                    ELSE IdSound(req[r].browser, req[r].session.id)'
    BY <1>2, <1>8, OwnSession DEF IdSound
  <2>3. \A r \in Requests : Making(req[r]) => req[r].account # new
    BY <1>1, NextIdFree
  <2>4. QED BY <1>2, <1>3, <1>4, <2>1, <2>2, <2>3 DEF SessionsInv, IdsSound, IdSound, Making
<1>10. QED BY <1>5, <1>6, <1>7, <1>9 DEF SessionsInv

\* What a request that makes account a keeps of itself.
LEMMA FreshAt ==
  ASSUME NEW q \in RequestType, NEW a \in Int, NEW adds \in BOOLEAN
  PROVE  LET n == [SignedIn(q, a, adds) EXCEPT !.fresh = TRUE] IN
         /\ n \in RequestType /\ n.pc = "commit" /\ n.account = a /\ n.fresh /\ n.adds = adds
         /\ n.browser = q.browser /\ n.who = q.who /\ n.copy = q.copy
         /\ n.session.id = IF q.browser = None THEN q.session.id ELSE a
         /\ \A p \in Providers : n.session[p] = q.session[p]
BY DEF RequestType, SessionType, SignedIn, Providers

\* The id drawn for a new account is known to its own request only.
LEMMA InsertAccountSound ==
  ASSUME SessionsInv, NEW r \in Requests, InsertAccount(r)
  PROVE  SessionsInv'
<1>1. /\ AccountsTyped /\ req[r] \in RequestType /\ Signing(req[r])
      /\ None \notin Int
  BY AccountsAssumption DEF SessionsInv, AccountsTyped, InsertAccount, Signing
<1>2. PICK new : new = nextId /\ nextId' = nextId + 1 /\ new \in 1 .. MaxIds
  BY AccountsAssumption, NextIdFree DEF InsertAccount
<1>3. PICK q :
        /\ req' = [req EXCEPT ![r] = q]
        /\ q \in RequestType /\ q.browser = req[r].browser /\ q.who = req[r].who
        /\ \/ q.pc = "answer" /\ q.session = req[r].session
           \/ /\ q.pc = "commit" /\ q.fresh /\ q.account = new
              /\ q.session.id = IF q.browser = None THEN req[r].session.id ELSE new
  <2>1. CASE Taken(req[r].who)
    <3>1. PICK q : q = [req[r] EXCEPT !.pc = "answer"]
      OBVIOUS
    <3>2. req' = [req EXCEPT ![r] = q]
      BY <1>1, <2>1, <3>1 DEF InsertAccount, AccountsTyped
    <3>3. /\ q \in RequestType /\ q.browser = req[r].browser /\ q.who = req[r].who
          /\ q.pc = "answer" /\ q.session = req[r].session
      BY <1>1, <3>1, OnwardAt
    <3>4. QED BY <3>2, <3>3
  <2>2. CASE ~ Taken(req[r].who)
    <3>0. PICK adds \in BOOLEAN : adds = TRUE
      OBVIOUS
    <3>1. PICK q : q = [SignedIn(req[r], new, adds) EXCEPT !.fresh = TRUE]
      OBVIOUS
    <3>2. req' = [req EXCEPT ![r] = q]
      BY <1>1, <1>2, <2>2, <3>0, <3>1 DEF InsertAccount, AccountsTyped, NewId
    <3>3. new \in Int
      BY <1>2
    <3>4. /\ q \in RequestType /\ q.browser = req[r].browser /\ q.who = req[r].who
          /\ q.pc = "commit" /\ q.fresh /\ q.account = new
          /\ q.session.id = IF q.browser = None THEN req[r].session.id ELSE new
      BY <1>1, <3>1, <3>3, FreshAt
    <3>5. QED BY <3>2, <3>4
  <2>3. QED BY <2>1, <2>2
<1>4. /\ accounts' = accounts /\ openids' = openids /\ googles' = googles
      /\ owner' = owner /\ proved' = proved /\ cookie' = cookie
      /\ req'[r] = q /\ \A s \in Requests \ {r} : req'[s] = req[s]
  BY <1>1, <1>3 DEF InsertAccount, history, AccountsTyped
<1>5. /\ nextId' \in Nat \ {0} /\ nextId <= nextId' /\ nextId \in Nat
      /\ \A a \in 1 .. nextId - 1 : a \in 1 .. nextId' - 1
      /\ new \in 1 .. nextId' - 1 /\ new \notin DOMAIN accounts /\ new # None
  BY <1>1, <1>2, NextIdFree
<1>6. AccountsTyped'
  <2>1. UNCHANGED <<spelling, nextKey, nextToken, issued, spent, overwritten>>
    BY DEF InsertAccount, history
  <2>2. req' \in [Requests -> RequestType]
    BY <1>1, <1>3 DEF AccountsTyped
  <2>3. DOMAIN accounts \subseteq 1 .. nextId' - 1
    BY <1>1, <1>5 DEF AccountsTyped
  <2>4. QED BY <1>1, <1>4, <1>5, <2>1, <2>2, <2>3 DEF AccountsTyped
<1>7. OwnersSound'
  BY <1>4 DEF SessionsInv, OwnersSound
<1>8. SignersSound'
  <2> SUFFICES ASSUME NEW s \in Requests, Signing(req'[s])
               PROVE  /\ req'[s].who \in Identities
                      /\ req'[s].fresh => req'[s].pc = "commit"
                      /\ req'[s].browser # None => Claims(req'[s].who) \subseteq proved[req'[s].browser]
    BY <1>4 DEF SignersSound, Signing
  <2>1. CASE s = r
    BY <1>1, <1>3, <1>4, <2>1 DEF SessionsInv, SignersSound, Signing
  <2>2. CASE s # r
    BY <1>4, <2>2 DEF SessionsInv, SignersSound, Signing
  <2>3. QED BY <2>1, <2>2
<1>9. \A b \in Browsers : \A x : IdSound(b, x) => IdSound(b, x)'
  <2> TAKE b \in Browsers
  <2> TAKE x
  <2> HAVE IdSound(b, x)
  <2>1. QED BY <1>4, <1>5, IdsGrow
<1>10. \A b \in Browsers : IdSound(b, new)'
  BY <1>4, <1>5 DEF IdSound
<1>11. IdsSound'
  <2>1. \A b \in Browsers : IdSound(b, cookie[b].id)'
    BY <1>4, <1>9 DEF SessionsInv, IdsSound, IdSound
  <2>2. ASSUME NEW s \in Requests
        PROVE IF req'[s].browser = None THEN req'[s].session.id = None
                                    ELSE IdSound(req[s].browser, req[s].session.id)'
    <3>1. CASE s # r
      BY <1>4, <1>9, <3>1, OwnSession DEF IdSound
    <3>2. CASE s = r
      <4>1. q.session.id = req[r].session.id \/ (q.browser # None /\ q.session.id = new)
        BY <1>3
      <4>2. QED BY <1>3, <1>4, <1>9, <1>10, <3>2, <4>1, OwnSession DEF IdSound
    <3>3. QED BY <3>1, <3>2
  <2>3. /\ \A s \in Requests : Making(req[s]) => req[s].account # new
        /\ \A s \in Requests : req[s].session.id # new
        /\ \A b \in Browsers : cookie[b].id # new
    BY <1>2, NextIdFree
  <2>4. ASSUME NEW s \in Requests, req'[s].pc = "commit"
        PROVE  IF req'[s].fresh
           THEN /\ req'[s].account \in 1 .. nextId' - 1 /\ req'[s].account \in 1 .. MaxIds
                /\ req'[s].account \notin DOMAIN accounts
                /\ \A b \in Browsers : cookie[b].id # req'[s].account
                /\ \A x \in Requests \ {s} :
                     /\ req'[x].session.id # req'[s].account
                     /\ Making(req'[x]) => req'[x].account # req'[s].account
           ELSE req'[s].account \in DOMAIN accounts
    <3>1. CASE s = r
      <4>1. q.fresh /\ q.account = new /\ req'[s] = q
        BY <1>3, <1>4, <2>4, <3>1
      <4>2. \A x \in Requests \ {s} :
              /\ req'[x].session.id # new /\ (Making(req'[x]) => req'[x].account # new)
        BY <1>4, <2>3, <3>1 DEF Making
      <4>3. QED BY <1>2, <1>5, <2>3, <4>1, <4>2
    <3>2. CASE s # r
      <4>1. req'[s] = req[s] /\ req[s].pc = "commit"
        BY <1>4, <2>4, <3>2
      <4>2. CASE ~ req[s].fresh
        BY <4>1, <4>2 DEF SessionsInv, IdsSound
      <4>3. CASE req[s].fresh
        <5>1. /\ Making(req[s]) /\ req[s].account # new
          BY <2>3, <4>1, <4>3 DEF Making
        <5>2. /\ req[s].account \in 1 .. nextId - 1 /\ req[s].account \in 1 .. MaxIds
              /\ req[s].account \notin DOMAIN accounts
              /\ \A b \in Browsers : cookie[b].id # req[s].account
              /\ \A x \in Requests \ {s} :
                   /\ req[x].session.id # req[s].account
                   /\ Making(req[x]) => req[x].account # req[s].account
          BY <4>1, <4>3 DEF SessionsInv, IdsSound
        <5>3. q.session.id # req[s].account /\ (Making(q) => q.account # req[s].account)
          BY <1>3, <3>2, <5>1, <5>2 DEF Making
        <5>4. \A x \in Requests \ {s} :
                /\ req'[x].session.id # req[s].account
                /\ Making(req'[x]) => req'[x].account # req[s].account
          BY <1>4, <5>2, <5>3
        <5>5. QED BY <1>5, <4>1, <4>3, <5>2, <5>4
      <4>4. QED BY <4>2, <4>3
    <3>3. QED BY <3>1, <3>2
  <2>5. QED BY <1>4, <2>1, <2>2, <2>4 DEF IdsSound, IdSound, Making
<1>12. QED BY <1>6, <1>7, <1>8, <1>11 DEF SessionsInv

\* What a commit of request r changes, for the rest of the proofs.
LEMMA CommitChanges ==
  ASSUME SessionsInv, NEW r \in Requests, Commit(r)
  PROVE  /\ req[r].account \in 1 .. MaxIds /\ req[r].account \in 1 .. nextId - 1
         /\ req[r].who \in Identities
         /\ req[r].pc = "commit" /\ (req[r].fresh <=> req[r].account \notin DOMAIN accounts)
         /\ DOMAIN accounts' = DOMAIN accounts \union {req[r].account}
         /\ \A c \in DOMAIN accounts : accounts'[c] = accounts[c]
         /\ req[r].fresh => /\ accounts'[req[r].account].mbuser =
                                 (IF req[r].who \in Names THEN req[r].who ELSE None)
                            /\ accounts'[req[r].account].apikey = nextKey /\ nextKey' = nextKey + 1
         /\ ~ req[r].fresh => nextKey' = nextKey
         /\ owner' = [owner EXCEPT ![req[r].account] = @ \union {req[r].who}]
         /\ req' = [req EXCEPT ![r].pc = "answer"]
<1> DEFINE a == req[r].account
           w == req[r].who
<1>1. req[r].pc = "commit" /\ Signing(req[r]) /\ AccountsTyped
  BY DEF Commit, Signing, SessionsInv
<1>2. w \in Identities
  BY <1>1 DEF SessionsInv, SignersSound
<1>3. a \in 1 .. MaxIds /\ a \in 1 .. nextId - 1
  BY <1>1 DEF SessionsInv, IdsSound, AccountsTyped
<1>4. req[r].fresh <=> a \notin DOMAIN accounts
  BY <1>1 DEF SessionsInv, IdsSound
<1>5. /\ owner' = [owner EXCEPT ![a] = @ \union {w}]
      /\ req' = [req EXCEPT ![r].pc = "answer"]
  BY DEF Commit
<1>6. CASE req[r].fresh
  <2>1. PICK row : row = [mbuser |-> IF w \in Names THEN w ELSE None, apikey |-> nextKey]
    OBVIOUS
  <2>2. accounts' = With(accounts, a, row) /\ nextKey' = nextKey + 1
    BY <1>6, <2>1 DEF Commit, NewAccount
  <2>3. DOMAIN accounts' = DOMAIN accounts \union {a} /\ accounts'[a] = row
    BY <2>2 DEF With
  <2>4. \A c \in DOMAIN accounts \ {a} : accounts'[c] = accounts[c]
    BY <2>2 DEF With
  <2>5. row.mbuser = (IF w \in Names THEN w ELSE None) /\ row.apikey = nextKey
    BY <2>1
  <2>6. \A c \in DOMAIN accounts : accounts'[c] = accounts[c]
    BY <1>4, <1>6, <2>4
  <2>7. QED BY <1>1, <1>2, <1>3, <1>4, <1>5, <1>6, <2>2, <2>3, <2>5, <2>6
<1>7. CASE ~ req[r].fresh
  <2>1. accounts' = accounts /\ nextKey' = nextKey
    BY <1>7 DEF Commit
  <2>2. QED BY <1>1, <1>2, <1>3, <1>4, <1>5, <1>7, <2>1
<1>8. QED BY <1>6, <1>7

\* The tables that name accounts, after a commit.
LEMMA CommitTables ==
  ASSUME SessionsInv, NEW r \in Requests, Commit(r)
  PROVE  /\ Adds(req[r]) => req[r].who \in Googles /\ req[r].who \notin DOMAIN googles
         /\ DOMAIN googles' = IF Adds(req[r]) THEN DOMAIN googles \union {req[r].who}
                                             ELSE DOMAIN googles
         /\ \A g \in DOMAIN googles' : googles'[g] =
              IF Adds(req[r]) /\ g = req[r].who THEN req[r].account ELSE googles[g]
         /\ googles' = [g \in DOMAIN googles' |-> googles'[g]]
         /\ DOMAIN openids' \subseteq DOMAIN openids
              \union IF req[r].fresh /\ req[r].who \in OpenIds THEN {req[r].who} ELSE {}
         /\ \A o \in DOMAIN openids' :
              openids'[o] = IF req[r].fresh /\ o = req[r].who THEN req[r].account ELSE openids[o]
         /\ \A o \in DOMAIN openids :
              o \in DOMAIN openids' \/ (Adds(req[r]) /\ OpenIdOf[req[r].who] = o)
         /\ openids' = [o \in DOMAIN openids' |-> openids'[o]]
         /\ req[r].fresh /\ req[r].who \in OpenIds => req[r].who \in DOMAIN openids'
<1> DEFINE a == req[r].account
           w == req[r].who
<1> PICK adds \in BOOLEAN : adds <=> Adds(req[r])
  BY DEF Adds
<1>1. /\ googles' = IF adds THEN With(googles, w, a) ELSE googles
      /\ adds => w \in Googles /\ w \notin DOMAIN googles
  BY DEF Commit, Adds, GoogleConflict
<1>2. googles = [g \in DOMAIN googles |-> googles[g]] /\ DOMAIN googles \subseteq Googles
      /\ openids = [o \in DOMAIN openids |-> openids[o]] /\ DOMAIN openids \subseteq OpenIds
  BY DEF SessionsInv, AccountsTyped
<1>3. w \in Identities /\ (w \in Googles => w \notin OpenIds /\ w \notin Names)
  BY CommitChanges, AccountsAssumption
<1>4. /\ DOMAIN googles' = IF adds THEN DOMAIN googles \union {w} ELSE DOMAIN googles
      /\ \A g \in DOMAIN googles' : googles'[g] = IF adds /\ g = w THEN a ELSE googles[g]
      /\ googles' = [g \in DOMAIN googles' |-> googles'[g]]
  BY <1>1, <1>2 DEF With
<1>5. openids' = IF req[r].fresh /\ w \in OpenIds THEN With(openids, w, a)
                 ELSE IF adds /\ ~ req[r].fresh
                   THEN [o \in DOMAIN openids \ {OpenIdOf[w]} |-> openids[o]]
                   ELSE openids
  BY <1>1, <1>3 DEF Commit
<1>6. /\ DOMAIN openids' \subseteq DOMAIN openids
              \union IF req[r].fresh /\ w \in OpenIds THEN {w} ELSE {}
      /\ \A o \in DOMAIN openids' :
           openids'[o] = IF req[r].fresh /\ o = w THEN a ELSE openids[o]
      /\ \A o \in DOMAIN openids : o \in DOMAIN openids' \/ (adds /\ OpenIdOf[w] = o)
      /\ openids' = [o \in DOMAIN openids' |-> openids'[o]]
      /\ req[r].fresh /\ w \in OpenIds => w \in DOMAIN openids'
  <2>1. CASE req[r].fresh /\ w \in OpenIds
    <3>1. openids' = With(openids, w, a)
      BY <1>5, <2>1
    <3>2. DOMAIN openids' = DOMAIN openids \union {w}
      BY <3>1 DEF With
    <3>3. \A o \in DOMAIN openids' : openids'[o] = IF o = w THEN a ELSE openids[o]
      BY <3>1 DEF With
    <3>4. openids' = [o \in DOMAIN openids' |-> openids'[o]]
      BY <3>1 DEF With
    <3>5. QED BY <2>1, <3>2, <3>3, <3>4
  <2>2. CASE adds /\ ~ req[r].fresh
    <3>1. openids' = [o \in DOMAIN openids \ {OpenIdOf[w]} |-> openids[o]]
      BY <1>5, <2>2
    <3>2. /\ DOMAIN openids' = DOMAIN openids \ {OpenIdOf[w]}
          /\ \A o \in DOMAIN openids' : openids'[o] = openids[o]
          /\ openids' = [o \in DOMAIN openids' |-> openids'[o]]
      BY <3>1
    <3>3. \A o \in DOMAIN openids' : o # w
      BY <1>1, <1>2, <1>3, <2>2, <3>2
    <3>4. QED BY <2>2, <3>2, <3>3
  <2>3. CASE ~ (req[r].fresh /\ w \in OpenIds) /\ ~ (adds /\ ~ req[r].fresh)
    <3>1. openids' = openids
      BY <1>5, <2>3
    <3>2. req[r].fresh => \A o \in DOMAIN openids : o # w
      BY <1>2, <2>3
    <3>3. QED BY <1>2, <2>3, <3>1, <3>2
  <2>4. QED BY <2>1, <2>2, <2>3
<1>7. QED BY <1>1, <1>4, <1>6

\* The table of Google users after a commit, with short names.
LEMMA GoogleTable ==
  ASSUME SessionsInv, NEW r \in Requests, Commit(r),
         NEW a, NEW w, a = req[r].account, w = req[r].who
  PROVE  /\ Adds(req[r]) => w \in Googles
         /\ DOMAIN googles' = IF Adds(req[r]) THEN DOMAIN googles \union {w} ELSE DOMAIN googles
         /\ \A g \in DOMAIN googles' : googles'[g] = IF Adds(req[r]) /\ g = w THEN a ELSE googles[g]
         /\ googles' = [g \in DOMAIN googles' |-> googles'[g]]
<1>1. googles' = [g \in DOMAIN googles' |-> googles'[g]]
  BY CommitTables
<1>2. DOMAIN googles' = IF Adds(req[r]) THEN DOMAIN googles \union {w} ELSE DOMAIN googles
  BY CommitTables
<1>3. \A g \in DOMAIN googles' : googles'[g] = IF Adds(req[r]) /\ g = w THEN a ELSE googles[g]
  <2>1. \A g \in DOMAIN googles' :
          googles'[g] =
            IF Adds(req[r]) /\ g = req[r].who THEN req[r].account ELSE googles[g]
    BY CommitTables, Zenon
  <2>2. QED BY <2>1
<1>4. QED BY <1>1, <1>2, <1>3, CommitTables

\* A row of account_google that a request has to add is there after its commit.
LEMMA GoogleAdded ==
  ASSUME SessionsInv, NEW r \in Requests, Commit(r), Adds(req[r])
  PROVE  req[r].who \in DOMAIN googles' /\ googles'[req[r].who] = req[r].account
<1>1. DOMAIN googles' = DOMAIN googles \union {req[r].who}
  BY CommitTables
<1>2. req[r].who \in DOMAIN googles'
  BY <1>1
<1>3. QED BY <1>2, CommitTables

\* The table of OpenIDs after a commit, with short names.
LEMMA OpenIdTable ==
  ASSUME SessionsInv, NEW r \in Requests, Commit(r),
         NEW a, NEW w, a = req[r].account, w = req[r].who
  PROVE  /\ DOMAIN openids' \subseteq DOMAIN openids
               \union IF req[r].fresh /\ w \in OpenIds THEN {w} ELSE {}
         /\ \A o \in DOMAIN openids' :
              openids'[o] = IF req[r].fresh /\ o = w THEN a ELSE openids[o]
         /\ openids' = [o \in DOMAIN openids' |-> openids'[o]]
<1>1. openids' = [o \in DOMAIN openids' |-> openids'[o]]
  BY CommitTables
<1>2. DOMAIN openids' \subseteq DOMAIN openids
        \union IF req[r].fresh /\ w \in OpenIds THEN {w} ELSE {}
  BY CommitTables
<1>3. \A o \in DOMAIN openids' :
        openids'[o] = IF req[r].fresh /\ o = w THEN a ELSE openids[o]
  <2>1. \A o \in DOMAIN openids' :
          openids'[o] = IF req[r].fresh /\ o = req[r].who THEN req[r].account ELSE openids[o]
    BY CommitTables, Zenon
  <2>2. QED BY <2>1
<1>4. QED BY <1>1, <1>2, <1>3

\* A commit leaves the tables well-formed.
LEMMA CommitTyped ==
  ASSUME SessionsInv, NEW r \in Requests, Commit(r)
  PROVE  AccountsTyped'
<1>1. PICK a, w : a = req[r].account /\ w = req[r].who
  OBVIOUS
<1>2. /\ a \in 1 .. MaxIds /\ a \in 1 .. nextId - 1 /\ w \in Identities
      /\ req[r].fresh <=> a \notin DOMAIN accounts
      /\ DOMAIN accounts' = DOMAIN accounts \union {a}
      /\ \A c \in DOMAIN accounts : accounts'[c] = accounts[c]
      /\ req' = [req EXCEPT ![r].pc = "answer"]
      /\ owner' = [owner EXCEPT ![a] = @ \union {w}]
      /\ nextKey' = IF req[r].fresh THEN nextKey + 1 ELSE nextKey
  BY <1>1, CommitChanges
<1>3. AccountsTyped /\ req[r] \in RequestType
  BY DEF SessionsInv, AccountsTyped
<1>4. accounts' \in [DOMAIN accounts' -> [mbuser : Names \union {None}, apikey : Int]]
  <2>1. CASE ~ req[r].fresh
    <3>1. accounts' = accounts
      BY <2>1 DEF Commit
    <3>2. QED BY <1>3, <3>1 DEF AccountsTyped
  <2>2. CASE req[r].fresh
    <3>1. PICK row : row = [mbuser |-> IF w \in Names THEN w ELSE None, apikey |-> nextKey]
      OBVIOUS
    <3>2. row \in [mbuser : Names \union {None}, apikey : Int]
      BY <1>3, <3>1 DEF AccountsTyped
    <3>3. accounts' = With(accounts, a, row)
      BY <1>1, <2>2, <3>1 DEF Commit, NewAccount
    <3>4. \A c \in DOMAIN accounts : accounts[c] \in [mbuser : Names \union {None}, apikey : Int]
      BY <1>3 DEF AccountsTyped
    <3>5. QED BY <3>2, <3>3, <3>4 DEF With
  <2>3. QED BY <2>1, <2>2
<1>5. /\ DOMAIN googles' \subseteq Googles
      /\ googles' \in [DOMAIN googles' -> DOMAIN accounts']
  <2>1. /\ Adds(req[r]) => w \in Googles
        /\ DOMAIN googles' = IF Adds(req[r]) THEN DOMAIN googles \union {w} ELSE DOMAIN googles
        /\ \A g \in DOMAIN googles' : googles'[g] = IF Adds(req[r]) /\ g = w THEN a ELSE googles[g]
        /\ googles' = [g \in DOMAIN googles' |-> googles'[g]]
    BY <1>1, GoogleTable
  <2>2. DOMAIN googles \subseteq Googles /\ \A g \in DOMAIN googles : googles[g] \in DOMAIN accounts
    BY <1>3 DEF AccountsTyped
  <2>3. \A g \in DOMAIN googles' : googles'[g] \in DOMAIN accounts'
    BY <1>2, <2>1, <2>2
  <2>4. QED BY <2>1, <2>2, <2>3
<1>6. /\ DOMAIN openids' \subseteq OpenIds
      /\ openids' \in [DOMAIN openids' -> DOMAIN accounts']
  <2>1. /\ DOMAIN openids' \subseteq DOMAIN openids
              \union IF req[r].fresh /\ w \in OpenIds THEN {w} ELSE {}
        /\ \A o \in DOMAIN openids' :
             openids'[o] = IF req[r].fresh /\ o = w THEN a ELSE openids[o]
        /\ openids' = [o \in DOMAIN openids' |-> openids'[o]]
    BY <1>1, OpenIdTable
  <2>2. DOMAIN openids \subseteq OpenIds /\ \A o \in DOMAIN openids : openids[o] \in DOMAIN accounts
    BY <1>3 DEF AccountsTyped
  <2>3. \A o \in DOMAIN openids' : openids'[o] \in DOMAIN accounts'
    BY <1>2, <2>1, <2>2
  <2>4. DOMAIN openids' \subseteq OpenIds
    BY <2>1, <2>2
  <2>5. QED BY <2>1, <2>3, <2>4
<1>7. /\ owner' \in [1 .. MaxIds -> SUBSET Identities]
      /\ req' \in [Requests -> RequestType]
  <2>1. [req[r] EXCEPT !.pc = "answer"] \in RequestType
    BY <1>3, OnwardAt
  <2>2. req' \in [Requests -> RequestType]
    BY <1>2, <1>3, <2>1 DEF AccountsTyped
  <2>3. owner' \in [1 .. MaxIds -> SUBSET Identities]
    BY <1>2, <1>3 DEF AccountsTyped
  <2>4. QED BY <2>2, <2>3
<1>8. DOMAIN accounts' \subseteq 1 .. MaxIds /\ DOMAIN accounts' \subseteq 1 .. nextId - 1
      /\ nextKey' \in Nat \ {0}
  BY <1>2, <1>3 DEF AccountsTyped
<1>9. QED BY <1>3, <1>4, <1>5, <1>6, <1>7, <1>8 DEF AccountsTyped, Commit

\* A commit writes down whom each new row belongs to.
LEMMA CommitOwners ==
  ASSUME SessionsInv, NEW r \in Requests, Commit(r)
  PROVE  OwnersSound'
<1>1. PICK a, w : a = req[r].account /\ w = req[r].who
  OBVIOUS
<1>2. /\ a \in 1 .. MaxIds /\ w \in Identities
      /\ req[r].fresh <=> a \notin DOMAIN accounts
      /\ DOMAIN accounts' = DOMAIN accounts \union {a}
      /\ \A c \in DOMAIN accounts : accounts'[c] = accounts[c]
      /\ req[r].fresh => accounts'[a].mbuser = IF w \in Names THEN w ELSE None
      /\ owner' = [owner EXCEPT ![a] = @ \union {w}]
  BY <1>1, CommitChanges
<1>3. /\ owner \in [1 .. MaxIds -> SUBSET Identities] /\ DOMAIN accounts \subseteq 1 .. MaxIds
      /\ \A o \in DOMAIN openids : openids[o] \in 1 .. MaxIds
      /\ \A g \in DOMAIN googles : googles[g] \in 1 .. MaxIds
  BY DEF SessionsInv, AccountsTyped
<1>4. /\ w \in owner'[a] /\ \A c \in 1 .. MaxIds : owner[c] \subseteq owner'[c]
      /\ \A c \in 1 .. MaxIds \ {a} : owner'[c] = owner[c]
  BY <1>2, <1>3
<1>5. \A c \in DOMAIN accounts' : accounts'[c].mbuser # None => accounts'[c].mbuser \in owner'[c]
  <2> TAKE c \in DOMAIN accounts'
  <2>1. CASE c \in DOMAIN accounts
    BY <1>2, <1>3, <1>4, <2>1 DEF SessionsInv, OwnersSound
  <2>2. CASE c \notin DOMAIN accounts
    BY <1>2, <1>4, <2>2
  <2>3. QED BY <2>1, <2>2
<1>6. \A o \in DOMAIN openids' : o \in owner'[openids'[o]]
  <2>1. /\ DOMAIN openids' \subseteq DOMAIN openids
              \union IF req[r].fresh /\ w \in OpenIds THEN {w} ELSE {}
        /\ \A o \in DOMAIN openids' :
             openids'[o] = IF req[r].fresh /\ o = w THEN a ELSE openids[o]
    BY <1>1, OpenIdTable
  <2> TAKE o \in DOMAIN openids'
  <2>2. CASE req[r].fresh /\ o = w
    BY <1>4, <2>1, <2>2
  <2>3. CASE ~ (req[r].fresh /\ o = w)
    <3>1. o \in DOMAIN openids /\ openids'[o] = openids[o]
      BY <2>1, <2>3
    <3>2. o \in owner[openids[o]]
      BY <3>1 DEF SessionsInv, OwnersSound
    <3>3. QED BY <1>3, <1>4, <3>1, <3>2
  <2>4. QED BY <2>2, <2>3
<1>7. \A g \in DOMAIN googles' : g \in owner'[googles'[g]]
  <2>1. /\ DOMAIN googles' = IF Adds(req[r]) THEN DOMAIN googles \union {w} ELSE DOMAIN googles
        /\ \A g \in DOMAIN googles' : googles'[g] = IF Adds(req[r]) /\ g = w THEN a ELSE googles[g]
    BY <1>1, GoogleTable
  <2> TAKE g \in DOMAIN googles'
  <2>2. CASE Adds(req[r]) /\ g = w
    BY <1>4, <2>1, <2>2
  <2>3. CASE ~ (Adds(req[r]) /\ g = w)
    <3>1. g \in DOMAIN googles /\ googles'[g] = googles[g]
      BY <2>1, <2>3
    <3>2. g \in owner[googles[g]]
      BY <3>1 DEF SessionsInv, OwnersSound
    <3>3. QED BY <1>3, <1>4, <3>1, <3>2
  <2>4. QED BY <2>2, <2>3
<1>8. \A c \in 1 .. MaxIds : c \notin DOMAIN accounts' => owner'[c] = {}
  BY <1>2, <1>4 DEF SessionsInv, OwnersSound
<1>9. QED BY <1>5, <1>6, <1>7, <1>8 DEF OwnersSound

\* A commit makes an account that only its own session names.
LEMMA CommitSound ==
  ASSUME SessionsInv, NEW r \in Requests, Commit(r)
  PROVE  SessionsInv'
<1>1. PICK a, w : a = req[r].account /\ w = req[r].who
  OBVIOUS
<1>2. /\ a \in 1 .. MaxIds /\ a \in 1 .. nextId - 1 /\ req[r].pc = "commit"
      /\ req[r].fresh <=> a \notin DOMAIN accounts
      /\ DOMAIN accounts' = DOMAIN accounts \union {a}
      /\ owner' = [owner EXCEPT ![a] = @ \union {w}]
      /\ req' = [req EXCEPT ![r].pc = "answer"]
  BY <1>1, CommitChanges
<1>3. /\ nextId' = nextId /\ cookie' = cookie /\ proved' = proved /\ nextId \in Nat
      /\ req \in [Requests -> RequestType]
      /\ owner \in [1 .. MaxIds -> SUBSET Identities] /\ DOMAIN accounts \subseteq 1 .. MaxIds
  BY DEF Commit, SessionsInv, AccountsTyped
<1>4. /\ w \in owner'[a] /\ \A c \in 1 .. MaxIds : owner[c] \subseteq owner'[c]
  BY <1>2, <1>3
<1>5. \A s \in Requests :
        /\ s # r => req'[s] = req[s]
        /\ req'[s].session = req[s].session /\ req'[s].browser = req[s].browser
        /\ req'[s].account = req[s].account /\ req'[s].fresh = req[s].fresh
        /\ req'[s].who = req[s].who /\ (s = r => req'[s].pc = "answer")
  BY <1>2, <1>3 DEF RequestType
<1>6. SignersSound'
  <2> SUFFICES ASSUME NEW s \in Requests, Signing(req'[s])
               PROVE  /\ req'[s].who \in Identities
                      /\ req'[s].fresh => req'[s].pc = "commit"
                      /\ req'[s].browser # None => Claims(req'[s].who) \subseteq proved[req'[s].browser]
    BY <1>3 DEF SignersSound, Signing
  <2>1. s # r
    BY <1>5 DEF Signing
  <2>2. QED BY <1>5, <2>1 DEF SessionsInv, SignersSound, Signing
<1>7. \A b \in Browsers : \A x : (req[r].fresh => x # a) /\ IdSound(b, x) => IdSound(b, x)'
  <2> TAKE b \in Browsers
  <2> TAKE x
  <2> HAVE (req[r].fresh => x # a) /\ IdSound(b, x)
  <2>1. x \in DOMAIN accounts' => x \in DOMAIN accounts
    BY <1>2
  <2>2. QED BY <1>3, <1>4, <2>1, IdsGrow
<1>8. req[r].fresh =>
        /\ \A b \in Browsers : cookie[b].id # a
        /\ \A s \in Requests \ {r} : /\ req[s].session.id # a
                                     /\ Making(req[s]) => req[s].account # a
  BY <1>1, <1>2 DEF SessionsInv, IdsSound
<1>9. \A b \in Browsers : IdSound(b, cookie[b].id)'
  BY <1>3, <1>7, <1>8 DEF SessionsInv, IdsSound, IdSound
<1>10. ASSUME NEW s \in Requests
       PROVE  IF req'[s].browser = None THEN req'[s].session.id = None
                                    ELSE IdSound(req[s].browser, req[s].session.id)'
  <2>1. PICK b, x : b = req[s].browser /\ x = req[s].session.id
    OBVIOUS
  <2>2. b \in Browsers \union {None} /\ IF b = None THEN x = None ELSE IdSound(b, x)
    BY <2>1, OwnSession
  <2>3. req'[s].browser = b /\ req'[s].session.id = x
    BY <1>5, <2>1
  <2>4. b # None => IdSound(b, x)'
    <3>1. CASE req[r].fresh /\ x = a
      <4>1. s = r
        BY <1>8, <2>1, <3>1
      <4>2. b # None => w \in proved[b]
        BY <1>1, <1>2, <2>1, <4>1 DEF SessionsInv, SignersSound, Signing, Claims
      <4>3. QED BY <1>2, <1>3, <1>4, <3>1, <4>2 DEF IdSound
    <3>2. CASE ~ (req[r].fresh /\ x = a)
      BY <1>7, <2>2, <3>2
    <3>3. QED BY <3>1, <3>2
  <2>5. QED BY <2>2, <2>3, <2>4 DEF IdSound
<1>11. ASSUME NEW s \in Requests, req'[s].pc = "commit"
       PROVE  IF req'[s].fresh
           THEN /\ req'[s].account \in 1 .. nextId - 1 /\ req'[s].account \in 1 .. MaxIds
                /\ req'[s].account \notin DOMAIN accounts'
                /\ \A b \in Browsers : cookie[b].id # req'[s].account
                /\ \A x \in Requests \ {s} :
                     /\ req'[x].session.id # req'[s].account
                     /\ Making(req'[x]) => req'[x].account # req'[s].account
           ELSE req'[s].account \in DOMAIN accounts'
  <2>1. s # r /\ req'[s] = req[s] /\ req[s].pc = "commit"
    BY <1>5, <1>11
  <2>2. CASE ~ req[s].fresh
    BY <1>2, <2>1, <2>2 DEF SessionsInv, IdsSound
  <2>3. CASE req[s].fresh
    <3>1. /\ req[s].account \in 1 .. nextId - 1 /\ req[s].account \in 1 .. MaxIds
          /\ req[s].account \notin DOMAIN accounts
          /\ \A b \in Browsers : cookie[b].id # req[s].account
          /\ \A x \in Requests \ {s} :
               /\ req[x].session.id # req[s].account
               /\ Making(req[x]) => req[x].account # req[s].account
      BY <2>1, <2>3 DEF SessionsInv, IdsSound
    <3>2. req[s].account # a
      BY <1>2, <1>8, <2>1, <2>3, <3>1 DEF Making
    <3>3. \A x \in Requests \ {s} :
            /\ req'[x].session.id # req[s].account
            /\ Making(req'[x]) => req'[x].account # req[s].account
      <4> TAKE x \in Requests \ {s}
      <4>1. CASE x = r
        BY <1>5, <3>1, <4>1 DEF Making
      <4>2. CASE x # r
        BY <1>5, <3>1, <4>2
      <4>3. QED BY <4>1, <4>2
    <3>4. QED BY <1>2, <2>1, <2>3, <3>1, <3>2, <3>3
  <2>4. QED BY <2>2, <2>3
<1>12. IdsSound'
  BY <1>3, <1>9, <1>10, <1>11 DEF IdsSound, IdSound, Making
<1>13. QED BY <1>6, <1>12, CommitTyped, CommitOwners DEF SessionsInv

\* A server that works on nothing.
LEMMA IdleAt ==
  /\ Idle \in RequestType /\ Idle.pc = "idle" /\ Idle.browser = None /\ Idle.who = None
  /\ Idle.session = NoSession /\ Idle.copy = NoSession /\ ~ Idle.fresh
BY NoSessionAt DEF Idle, RequestType

\* A request that ends leaves its session to its browser, or nothing.
LEMMA AnswerChanges ==
  ASSUME SessionsInv, NEW r \in Requests, Answer(r)
  PROVE  /\ req' = [req EXCEPT ![r] = Idle]
         /\ cookie' \in [Browsers -> SessionType]
         /\ \A b \in Browsers :
              \/ cookie'[b] = cookie[b]
              \/ b = req[r].browser /\ cookie'[b] = req[r].session
<1>1. /\ cookie \in [Browsers -> SessionType] /\ req[r].session \in SessionType
      /\ req[r].browser \in Browsers \union {None}
  BY DEF SessionsInv, AccountsTyped, RequestType
<1>2. req' = [req EXCEPT ![r] = Idle]
  BY DEF Answer
<1>3. CASE req[r].browser # None /\ req[r].dirty
  <2>1. cookie' = [cookie EXCEPT ![req[r].browser] = req[r].session]
    BY <1>3 DEF Answer
  <2>2. QED BY <1>1, <1>2, <1>3, <2>1
<1>4. CASE ~ (req[r].browser # None /\ req[r].dirty)
  <2>1. cookie' = cookie
    BY <1>4 DEF Answer
  <2>2. QED BY <1>1, <1>2, <2>1
<1>5. QED BY <1>3, <1>4

\* The answer gives the browser the request's session, which was its own.
LEMMA AnswerSound ==
  ASSUME SessionsInv, NEW r \in Requests, Answer(r)
  PROVE  SessionsInv'
<1>1. /\ accounts' = accounts /\ openids' = openids /\ googles' = googles
      /\ owner' = owner /\ proved' = proved /\ nextId' = nextId /\ nextId \in Nat
      /\ req \in [Requests -> RequestType]
  BY DEF Answer, app_db, SessionsInv, AccountsTyped
<1>2. /\ cookie' \in [Browsers -> SessionType]
      /\ \A b \in Browsers : \/ cookie'[b] = cookie[b]
                             \/ b = req[r].browser /\ cookie'[b] = req[r].session
      /\ req' \in [Requests -> RequestType]
      /\ req'[r] = Idle /\ \A s \in Requests \ {r} : req'[s] = req[s]
  BY <1>1, AnswerChanges, IdleAt
<1>3. AccountsTyped'
  <2>1. spent' \subseteq Int /\ overwritten' \subseteq Browsers
    <3>1. /\ spent \subseteq Int /\ overwritten \subseteq Browsers /\ req[r] \in RequestType
          /\ req[r].browser \in Browsers \union {None}
      BY DEF SessionsInv, AccountsTyped, RequestType
    <3>2. Used(req[r]) \subseteq Int \union {None}
      <4>1. req[r].copy \in SessionType
        BY <3>1 DEF RequestType
      <4>2. \A p \in Providers : req[r].copy[p] \in Int \union {None}
        BY <4>1, SessionAt
      <4>3. QED BY <4>2 DEF Used
    <3>3. CASE req[r].browser # None /\ req[r].dirty
      <4>1. /\ spent' = (spent \union Used(req[r])) \ {None}
            /\ overwritten' \subseteq overwritten \union {req[r].browser}
        BY <3>3 DEF Answer
      <4>2. QED BY <3>1, <3>2, <3>3, <4>1
    <3>4. CASE ~ (req[r].browser # None /\ req[r].dirty)
      BY <3>1, <3>4 DEF Answer
    <3>5. QED BY <3>3, <3>4
  <2>2. QED BY <1>2, <2>1 DEF SessionsInv, AccountsTyped, Answer, app_db
<1>4. OwnersSound'
  BY <1>1 DEF SessionsInv, OwnersSound
<1>5. SignersSound'
  BY <1>1, <1>2, IdleAt DEF SessionsInv, SignersSound, Signing
<1>6. \A b \in Browsers : \A x : IdSound(b, x) => IdSound(b, x)'
  BY <1>1 DEF IdSound
<1>7. None \notin Browsers /\ NoSession.id = None
  BY AccountsAssumption, NoSessionAt
<1>8. ASSUME NEW b \in Browsers
      PROVE  IdSound(b, cookie[b].id)'
  <2>1. IdSound(b, cookie[b].id)
    BY DEF SessionsInv, IdsSound
  <2>2. b = req[r].browser => IdSound(b, req[r].session.id)
    BY <1>7, OwnSession
  <2>3. cookie'[b].id \in {x \in {cookie[b].id, req[r].session.id} : IdSound(b, x)}
    BY <1>2, <2>1, <2>2
  <2>4. QED BY <1>6, <2>3 DEF IdSound
<1>9. ASSUME NEW s \in Requests
      PROVE  IF req'[s].browser = None THEN req'[s].session.id = None
                                    ELSE IdSound(req[s].browser, req[s].session.id)'
  <2>1. CASE s = r
    BY <1>2, <1>7, <2>1, IdleAt
  <2>2. CASE s # r
    BY <1>2, <1>6, <2>2, OwnSession DEF IdSound
  <2>3. QED BY <2>1, <2>2
<1>10. ASSUME NEW s \in Requests, req'[s].pc = "commit"
       PROVE  IF req'[s].fresh
           THEN /\ req'[s].account \in 1 .. nextId - 1 /\ req'[s].account \in 1 .. MaxIds
                /\ req'[s].account \notin DOMAIN accounts
                /\ \A b \in Browsers : cookie'[b].id # req'[s].account
                /\ \A x \in Requests \ {s} :
                     /\ req'[x].session.id # req'[s].account
                     /\ Making(req'[x]) => req'[x].account # req'[s].account
           ELSE req'[s].account \in DOMAIN accounts
  <2>1. s # r /\ req'[s] = req[s] /\ req[s].pc = "commit"
    BY <1>2, <1>10, IdleAt
  <2>2. CASE ~ req[s].fresh
    BY <2>1, <2>2 DEF SessionsInv, IdsSound
  <2>3. CASE req[s].fresh
    <3>1. /\ req[s].account \in 1 .. nextId - 1 /\ req[s].account \in 1 .. MaxIds
          /\ req[s].account \notin DOMAIN accounts
          /\ \A b \in Browsers : cookie[b].id # req[s].account
          /\ \A x \in Requests \ {s} :
               /\ req[x].session.id # req[s].account
               /\ Making(req[x]) => req[x].account # req[s].account
      BY <2>1, <2>3 DEF SessionsInv, IdsSound
    <3>2. \A b \in Browsers : cookie'[b].id # req[s].account
      BY <1>2, <2>1, <3>1
    <3>3. req[s].account # None
      BY <1>1, <3>1, AccountsAssumption
    <3>4. \A x \in Requests \ {s} :
            /\ req'[x].session.id # req[s].account
            /\ Making(req'[x]) => req'[x].account # req[s].account
      BY <1>2, <1>7, <3>1, <3>3, IdleAt DEF Making
    <3>5. QED BY <2>1, <2>3, <3>1, <3>2, <3>4
  <2>4. QED BY <2>2, <2>3
<1>11. IdsSound'
  BY <1>1, <1>8, <1>9, <1>10 DEF IdsSound, IdSound, Making
<1>12. QED BY <1>3, <1>4, <1>5, <1>11 DEF SessionsInv

\* The invariant holds at the start.
LEMMA SessionsInit ==
  ASSUME AccountsInit
  PROVE  SessionsInv
<1>1. AccountsTyped
  <2>1. NoSession \in SessionType /\ Idle \in RequestType
    BY NoSessionAt, IdleAt
  <2>2. OpenIds \subseteq Identities /\ 1 \in 1 .. MaxIds
    BY AccountsAssumption DEF Identities
  <2>3. \A i \in 1 .. MaxIds : (IF i = 1 THEN OpenIds ELSE {}) \in SUBSET Identities
    BY <2>2
  <2>4. owner \in [1 .. MaxIds -> SUBSET Identities]
    BY <2>3 DEF AccountsInit
  <2>5. /\ DOMAIN accounts = {1} /\ DOMAIN openids = OpenIds /\ DOMAIN googles = {}
        /\ accounts \in [{1} -> [mbuser : Names \union {None}, apikey : Int]]
        /\ openids \in [OpenIds -> {1}] /\ googles \in [{} -> {1}]
    BY DEF AccountsInit
  <2>6. QED BY <2>1, <2>2, <2>4, <2>5 DEF AccountsInit, AccountsTyped
<1>2. OwnersSound
  BY AccountsAssumption DEF AccountsInit, OwnersSound
<1>3. SignersSound
  BY IdleAt DEF AccountsInit, SignersSound, Signing
<1>4. IdsSound
  BY IdleAt, NoSessionAt DEF AccountsInit, IdsSound, IdSound, Making
<1>5. QED BY <1>1, <1>2, <1>3, <1>4 DEF SessionsInv

\* Every step of the accounts keeps it.
LEMMA SessionsStep ==
  ASSUME SessionsInv, AccountsNext
  PROVE  SessionsInv'
<1>1. ASSUME NEW r \in Requests, NEW b \in Browsers, SessionStep(r, b)
      PROVE  SessionsInv'
  <2>1. CASE \E p \in Providers : GenerateLoginToken(r, b, p)
    BY <2>1, GenerateSound
  <2>2. CASE \E p \in Providers : \E t \in (1 .. nextToken - 1) \union {None}, i \in Identities :
               LoginCallback(r, b, p, t, i)
    BY <2>2, LoginCallbackSound
  <2>3. CASE \E o \in OpenIds : OpenIdCallback(r, b, o)
    BY <2>3, OpenIdCallbackSound
  <2>4. CASE Logout(r, b)
    BY <2>4, DroppedSound DEF Logout
  <2>5. CASE RequireUser(r, b)
    BY <2>5, DroppedSound DEF RequireUser
  <2>6. QED BY <1>1, <2>1, <2>2, <2>3, <2>4, <2>5 DEF SessionStep
<1>2. CASE \E u \in MbUsers : RenameMbUser(u)
  BY <1>2, RenameSound
<1>3. ASSUME NEW r \in Requests,
             \/ \E b \in Browsers : SessionStep(r, b)
             \/ \E u \in MbUsers : CreateMusicBrainz(r, u)
             \/ FindUser(r) \/ InsertAccount(r) \/ Commit(r) \/ LoginFails(r) \/ Answer(r)
      PROVE  SessionsInv'
  BY <1>1, <1>3, CreateMusicBrainzSound, FindUserSound, InsertAccountSound, CommitSound,
     LoginFailsSound, AnswerSound
<1>4. CASE CreateAccount \/ \E b \in Browsers : NewApiKey(b)
  BY <1>4, CreateAccountSound, NewApiKeySound
<1>5. QED BY <1>2, <1>3, <1>4 DEF AccountsNext

-----------------------------------------------------------------------------
(* Steps of the servers and the applications *)

\* A step that is none of the accounts: it may make a key, and no more.
Quiet ==
  /\ spelling' = spelling /\ accounts' = accounts /\ openids' = openids
  /\ googles' = googles /\ nextId' = nextId /\ nextToken' = nextToken
  /\ cookie' = cookie /\ req' = req /\ owner' = owner /\ proved' = proved
  /\ issued' = issued /\ spent' = spent /\ overwritten' = overwritten
  /\ nextKey' \in {nextKey, nextKey + 1}

\* Every other step leaves the sessions alone.
LEMMA NextCases ==
  ASSUME [Next]_vars
  PROVE  AccountsNext \/ Quiet
<1>1. CASE AccountStep
  BY <1>1 DEF AccountStep
<1>2. ASSUME NEW a, InsertApplication(a)
      PROVE  Quiet
  BY <1>2 DEF InsertApplication, Quiet, history
<1>3. ASSUME NEW a, NEW t, NEW o, UpdateApplicationStatus(a, t, o)
      PROVE  Quiet
  BY <1>3 DEF UpdateApplicationStatus, Quiet, site, app_db, history
<1>4. ASSUME NEW h, HandlerStep(h) \/ Restart(h)
      PROVE  Quiet
  <2>1. UNCHANGED site
    BY <1>4 DEF HandlerStep, KeyHit, KeyQuery, KeyStore, SubmitDone, Restart, SubmitRequest,
             avars
  <2>2. QED BY <2>1 DEF Quiet, site, app_db, history
<1>5. CASE Replay \/ Tick
  BY <1>5 DEF Replay, Tick, Quiet, avars, site, app_db, history
<1>6. CASE UNCHANGED vars
  BY <1>6 DEF vars, Quiet, avars, site, app_db, history
<1>7. QED BY <1>1, <1>2, <1>3, <1>4, <1>5, <1>6
      DEF Next, ApiStep, CreateApplication, NewApplication

\* So the whole system keeps it.
LEMMA SessionsNext ==
  ASSUME SessionsInv, [Next]_vars
  PROVE  SessionsInv'
<1>1. CASE AccountsNext
  BY <1>1, SessionsStep
<1>2. CASE Quiet
  <2>1. OwnersSound' /\ SignersSound' /\ IdsSound'
    BY <1>2, StillSound DEF Quiet
  <2>2. AccountsTyped'
    <3>1. nextKey' \in Nat \ {0}
      BY <1>2 DEF Quiet, SessionsInv, AccountsTyped
    <3>2. QED BY <1>2, <3>1 DEF Quiet, SessionsInv, AccountsTyped
  <2>3. QED BY <2>1, <2>2 DEF SessionsInv
<1>3. QED BY <1>1, <1>2, NextCases

(* login_user_and_redirect and the commit after it: the invariant behind
   SessionsBelong.  The heart of it is that an account under way is known to
   its own request only, since ids come from a sequence. *)
THEOREM SessionsInvAlways == Spec => []SessionsInv
<1>1. Init => SessionsInv
  BY SessionsInit DEF Init
<1>2. SessionsInv /\ [Next]_vars => SessionsInv'
  BY SessionsNext
<1>3. QED BY <1>1, <1>2, PTL DEF Spec

(* Whatever fails or overlaps, a cookie names no account of somebody else: the
   id that a rollback leaves in a session never becomes another's account. *)
THEOREM SessionsAreOwn == Spec => []SessionsBelong
<1>1. SessionsInv => SessionsBelong
  <2> SUFFICES ASSUME SessionsInv, NEW b \in Browsers, cookie[b].id \in DOMAIN accounts
               PROVE  owner[cookie[b].id] \intersect proved[b] # {}
    BY DEF SessionsBelong
  <2>1. cookie[b].id # None
    BY AccountsAssumption DEF SessionsInv, AccountsTyped
  <2>2. QED BY <2>1 DEF SessionsInv, IdsSound, IdSound
<1>2. QED BY <1>1, SessionsInvAlways, PTL

-----------------------------------------------------------------------------
(* One account for each identity *)

\* What is asked of the Google row of a request that commits.
AddSound(q) ==
  q.who \in Googles /\ ~ q.adds => q.who \in DOMAIN googles /\ googles[q.who] = q.account

\* Request r becomes q, and no account, row or name changes.
LEMMA OneMoves ==
  ASSUME OneInv, NEW r \in Requests, NEW q,
         req' = [req EXCEPT ![r] = q], spelling' = spelling, accounts' = accounts,
         openids' = openids, googles' = googles, owner' = owner,
         AsSpelt(q.who),
         q.pc = "commit" => ~ q.fresh /\ Leads(q.who, q.account) /\ AddSound(q)
  PROVE  NamesSound' /\ OwnedOnce' /\ MakersSound' /\ AddersSound'
<1>1. req'[r] = q /\ \A s \in Requests \ {r} : req'[s] = req[s]
  BY DEF OneInv, SessionsInv, AccountsTyped
<1>2. \A i : AsSpelt(i) => AsSpelt(i)'
  BY DEF AsSpelt
<1>3. \A i : \A a : Leads(i, a) => Leads(i, a)'
  BY DEF Leads, Migrated
<1>4. NamesSound'
  BY <1>1 DEF OneInv, NamesSound, AsSpelt
<1>5. OwnedOnce'
  BY DEF OneInv, OwnedOnce, Leads, Migrated
<1>6. ASSUME NEW s \in Requests, req'[s].pc = "commit"
      PROVE  IF req'[s].fresh
        THEN /\ \A a \in DOMAIN accounts : accounts[a].mbuser # req'[s].who
             /\ req'[s].who \notin DOMAIN openids
             /\ \A x \in Requests \ {s} :
                  Making(req'[x]) /\ req'[x].who = req'[s].who => req'[s].who \in Googles
        ELSE Leads(req[s].who, req[s].account)'
  <2>1. CASE s = r
    BY <1>1, <1>3, <1>6, <2>1 DEF Leads, Migrated
  <2>2. CASE s # r
    <3>1. req'[s] = req[s] /\ req[s].pc = "commit"
      BY <1>1, <1>6, <2>2
    <3>2. ~ Making(q)
      BY DEF Making
    <3>3. CASE req[s].fresh
      BY <1>1, <3>1, <3>2, <3>3 DEF OneInv, MakersSound
    <3>4. CASE ~ req[s].fresh
      BY <1>3, <3>1, <3>4 DEF OneInv, MakersSound, Leads, Migrated
    <3>5. QED BY <3>3, <3>4
  <2>3. QED BY <2>1, <2>2
<1>7. MakersSound'
  BY <1>6 DEF MakersSound, Leads, Migrated, Making
<1>8. AddersSound'
  BY <1>1 DEF OneInv, AddersSound, AddSound
<1>9. QED BY <1>4, <1>5, <1>7, <1>8

\* A request that begins: its identity is as the user writes it now.
LEMMA OneBegins ==
  ASSUME OneInv, NEW r \in Requests, NEW b \in Browsers, SessionStep(r, b)
  PROVE  NamesSound' /\ OwnedOnce' /\ MakersSound' /\ AddersSound'
<1>1. /\ spelling' = spelling /\ accounts' = accounts /\ openids' = openids
      /\ googles' = googles /\ owner' = owner
  BY DEF SessionStep, GenerateLoginToken, LoginCallback, OpenIdCallback, Logout, RequireUser,
         app_db, history
<1>2. PICK q : req' = [req EXCEPT ![r] = q] /\ q.pc # "commit" /\ AsSpelt(q.who)
  <2>1. None \notin Names /\ \A g \in Googles : g \notin Names /\ \A o \in OpenIds : o \notin Names
    BY AccountsAssumption DEF Identities
  <2>2. ASSUME NEW s, Sent(r, b, "answer", s, TRUE)
        PROVE  \E q : req' = [req EXCEPT ![r] = q] /\ q.pc # "commit" /\ AsSpelt(q.who)
    <3>1. PICK q : q = [Idle EXCEPT !.pc = "answer", !.browser = b, !.copy = cookie[b],
                                    !.session = s, !.dirty = TRUE]
      OBVIOUS
    <3>2. req' = [req EXCEPT ![r] = q]
      BY <2>2, <3>1 DEF Sent
    <3>3. q.pc = "answer" /\ q.who = None
      BY <3>1 DEF Idle
    <3>4. AsSpelt(q.who)
      BY <2>1, <3>3 DEF AsSpelt
    <3>5. QED BY <3>2, <3>3, <3>4
  <2>3. ASSUME NEW p \in Providers, NEW t, NEW i \in Identities, LoginCallback(r, b, p, t, i)
        PROVE  \E q : req' = [req EXCEPT ![r] = q] /\ q.pc # "commit" /\ AsSpelt(q.who)
    <3>1. PICK pc, s, dirty, q :
            /\ req' = [req EXCEPT ![r] = q] /\ pc \in {"find", "answer"}
            /\ q = [Idle EXCEPT !.pc = pc, !.browser = b, !.copy = cookie[b],
                                !.session = s, !.dirty = dirty, !.who = i]
      BY <2>3 DEF LoginCallback
    <3>2. q.pc # "commit" /\ q.who = i
      BY <3>1 DEF Idle
    <3>3. i \in Googles \/ \E u \in MbUsers : i = <<u, spelling[u]>>
      BY <2>3 DEF LoginCallback, IdentitiesOf
    <3>4. AsSpelt(i)
      BY <2>1, <3>3 DEF AsSpelt
    <3>5. QED BY <3>1, <3>2, <3>4
  <2>4. ASSUME NEW o \in OpenIds, OpenIdCallback(r, b, o)
        PROVE  \E q : req' = [req EXCEPT ![r] = q] /\ q.pc # "commit" /\ AsSpelt(q.who)
    <3>1. PICK q : q = [Idle EXCEPT !.pc = "find", !.browser = b, !.copy = cookie[b],
                                    !.session = cookie[b], !.dirty = TRUE, !.who = o]
      OBVIOUS
    <3>2. req' = [req EXCEPT ![r] = q]
      BY <2>4, <3>1 DEF OpenIdCallback
    <3>3. q.pc # "commit" /\ q.who = o
      BY <3>1 DEF Idle
    <3>4. AsSpelt(q.who)
      BY <3>3, AccountsAssumption DEF AsSpelt
    <3>5. QED BY <3>2, <3>3, <3>4
  <2>5. QED BY <2>2, <2>3, <2>4 DEF SessionStep, GenerateLoginToken, Logout, RequireUser
<1>3. QED BY <1>1, <1>2, OneMoves

\* An account made by the API has no identity.
LEMMA OneCreates ==
  ASSUME OneInv, NEW r \in Requests, NEW u \in MbUsers, CreateMusicBrainz(r, u)
  PROVE  NamesSound' /\ OwnedOnce' /\ MakersSound' /\ AddersSound'
<1>1. PICK q : q = [Idle EXCEPT !.pc = "find", !.who = <<u, spelling[u]>>]
  OBVIOUS
<1>2. req' = [req EXCEPT ![r] = q]
  BY <1>1 DEF CreateMusicBrainz
<1>3. q.pc = "find" /\ q.who = <<u, spelling[u]>>
  BY <1>1 DEF Idle
<1>4. AsSpelt(q.who)
  BY <1>3 DEF AsSpelt
<1>5. QED BY <1>2, <1>3, <1>4, OneMoves DEF CreateMusicBrainz, app_db, history

\* The account that is found is the one its identity leads to.
LEMMA FoundLeads ==
  ASSUME OneInv, NEW r \in Requests, Signing(req[r]), NEW a \in Found(req[r])
  PROVE  Leads(req[r].who, a)
<1> DEFINE i == req[r].who
<1>1. i \in Identities /\ AsSpelt(i) /\ spelling \in [MbUsers -> {"old", "new"}]
  BY DEF OneInv, SessionsInv, SignersSound, NamesSound, AccountsTyped
<1>2. CASE i \in Names
  <2>1. /\ a \in DOMAIN accounts /\ accounts[a].mbuser # None
        /\ accounts[a].mbuser = i \/ accounts[a].mbuser[1] = i[1]
    BY <1>2, AccountsAssumption DEF Found
  <2>2. accounts[a].mbuser \in Names /\ AsSpelt(accounts[a].mbuser)
    BY <2>1 DEF OneInv, SessionsInv, AccountsTyped, NamesSound
  <2>3. spelling[i[1]] = "old" => accounts[a].mbuser = i
    BY <1>1, <1>2, <2>1, <2>2 DEF AsSpelt, Names
  <2>4. i[1] \in MbUsers /\ i \notin OpenIds
    BY <1>2, AccountsAssumption DEF Names
  <2>5. QED BY <1>1, <2>3, <2>4 DEF Leads
<1>3. CASE i \in OpenIds
  BY <1>3, AccountsAssumption DEF Found, Leads
<1>4. CASE i \in Googles
  BY <1>4, AccountsAssumption DEF Leads
<1>5. QED BY <1>1, <1>2, <1>3, <1>4 DEF Identities

\* Finding the account keeps one account for each identity.
LEMMA OneFinds ==
  ASSUME OneInv, NEW r \in Requests, FindUser(r)
  PROVE  NamesSound' /\ OwnedOnce' /\ MakersSound' /\ AddersSound'
<1>1. req[r] \in RequestType /\ Signing(req[r]) /\ AsSpelt(req[r].who) /\ ~ req[r].fresh
  BY DEF OneInv, SessionsInv, AccountsTyped, FindUser, Signing, NamesSound, SignersSound
<1>2. PICK q : /\ req' = [req EXCEPT ![r] = q] /\ AsSpelt(q.who)
               /\ q.pc = "commit" => ~ q.fresh /\ Leads(q.who, q.account) /\ AddSound(q)
  <2>1. CASE Found(req[r]) = {}
    <3>1. PICK q : q = [req[r] EXCEPT !.pc = "insert"]
      OBVIOUS
    <3>2. req' = [req EXCEPT ![r] = q]
      BY <2>1, <3>1 DEF FindUser
    <3>3. q.pc = "insert" /\ q.who = req[r].who
      BY <1>1, <3>1, OnwardAt
    <3>4. QED BY <1>1, <3>2, <3>3
  <2>2. CASE Found(req[r]) # {}
    <3>1. PICK a \in Found(req[r]), adds \in BOOLEAN :
            /\ req' = [req EXCEPT ![r] = SignedIn(@, a, adds)]
            /\ ~ adds => req[r].who \in DOMAIN googles
      BY <2>2 DEF FindUser
    <3>2. Leads(req[r].who, a)
      BY <1>1, FoundLeads
    <3>3. a \in Int
      BY <1>1, FoundOwns DEF OneInv, SessionsInv, AccountsTyped
    <3>4. PICK q : q = SignedIn(req[r], a, adds)
      OBVIOUS
    <3>5. q.pc = "commit" /\ q.who = req[r].who /\ q.account = a /\ ~ q.fresh /\ q.adds = adds
      BY <1>1, <3>3, <3>4, SignedInAt
    <3>6. req' = [req EXCEPT ![r] = q]
      BY <3>1, <3>4 DEF OneInv, SessionsInv, AccountsTyped
    <3>7. ASSUME req[r].who \in Googles, req[r].who \in DOMAIN googles
          PROVE  googles[req[r].who] = a
      <4>1. req[r].who \notin Names /\ req[r].who \notin OpenIds
        BY <3>7, AccountsAssumption
      <4>2. QED BY <3>1, <3>7, <4>1 DEF Found
    <3>8. AddSound(q)
      BY <3>1, <3>5, <3>7 DEF AddSound
    <3>9. QED BY <1>1, <3>2, <3>5, <3>6, <3>8
  <2>3. QED BY <2>1, <2>2
<1>3. QED BY <1>2, OneMoves DEF FindUser, app_db, history

\* A request that fails takes its account under way with it.
LEMMA OneEnds ==
  ASSUME OneInv, NEW r \in Requests, LoginFails(r) \/ Answer(r)
  PROVE  NamesSound' /\ OwnedOnce' /\ MakersSound' /\ AddersSound'
<1>1. /\ spelling' = spelling /\ accounts' = accounts /\ openids' = openids
      /\ googles' = googles /\ owner' = owner
  BY DEF LoginFails, Answer, app_db, history
<1>2. req[r] \in RequestType /\ AsSpelt(req[r].who)
  BY DEF OneInv, SessionsInv, AccountsTyped, NamesSound
<1>3. CASE LoginFails(r)
  <2>1. PICK q : q = [req[r] EXCEPT !.pc = "answer", !.fresh = FALSE]
    OBVIOUS
  <2>2. req' = [req EXCEPT ![r] = q]
    BY <1>3, <2>1 DEF LoginFails, OneInv, SessionsInv, AccountsTyped
  <2>3. q.pc = "answer" /\ q.who = req[r].who
    BY <1>2, <2>1, FailedAt
  <2>4. QED BY <1>1, <1>2, <2>2, <2>3, OneMoves
<1>4. CASE Answer(r)
  <2>1. PICK q : q = Idle
    OBVIOUS
  <2>2. req' = [req EXCEPT ![r] = q]
    BY <1>4, <2>1 DEF Answer
  <2>3. q.pc = "idle" /\ q.who = None
    BY <2>1, IdleAt
  <2>4. AsSpelt(q.who)
    BY <2>3, AccountsAssumption DEF AsSpelt, Identities
  <2>5. QED BY <1>1, <2>2, <2>3, <2>4, OneMoves
<1>5. QED BY <1>3, <1>4

\* The INSERT goes through only if no row, committed or not, has the name.
LEMMA OneInserts ==
  ASSUME OneInv, NEW r \in Requests, InsertAccount(r)
  PROVE  NamesSound' /\ OwnedOnce' /\ MakersSound' /\ AddersSound'
<1>1. /\ req[r] \in RequestType /\ AsSpelt(req[r].who) /\ req[r].who \in Identities
      /\ req \in [Requests -> RequestType] /\ DOMAIN openids \subseteq OpenIds
  BY DEF OneInv, SessionsInv, AccountsTyped, NamesSound, SignersSound, InsertAccount, Signing
<1>2. /\ spelling' = spelling /\ accounts' = accounts /\ openids' = openids
      /\ googles' = googles /\ owner' = owner
  BY DEF InsertAccount, history
<1>3. CASE Taken(req[r].who)
  <2>1. PICK q : q = [req[r] EXCEPT !.pc = "answer"]
    OBVIOUS
  <2>2. req' = [req EXCEPT ![r] = q]
    BY <1>1, <1>3, <2>1 DEF InsertAccount
  <2>3. q.pc = "answer" /\ q.who = req[r].who
    BY <1>1, <2>1, OnwardAt
  <2>4. QED BY <1>1, <1>2, <2>2, <2>3, OneMoves
<1>4. CASE ~ Taken(req[r].who)
  <2>1. PICK w : w = req[r].who
    OBVIOUS
  <2>0. PICK adds \in BOOLEAN : adds = TRUE
    OBVIOUS
  <2>2. PICK q : q = [SignedIn(req[r], nextId, adds) EXCEPT !.fresh = TRUE]
    OBVIOUS
  <2>3. req' = [req EXCEPT ![r] = q]
    BY <1>1, <1>4, <2>0, <2>2 DEF InsertAccount, NewId
  <2>4. q.pc = "commit" /\ q.fresh /\ q.who = w /\ q.adds
    <3>1. nextId \in Int
      BY DEF OneInv, SessionsInv, AccountsTyped
    <3>2. q.pc = "commit" /\ q.fresh /\ q.who = w /\ q.adds = adds
      BY <1>1, <2>1, <2>2, <3>1, FreshAt
    <3>3. QED BY <2>0, <3>2
  <2>5. req'[r] = q /\ \A s \in Requests \ {r} : req'[s] = req[s]
    BY <1>1, <2>3
  <2>6. \A s \in Requests \ {r} : Making(req[s]) /\ req[s].who = w => w \in Googles
    BY <2>1 DEF InsertAccount, Pending, Making
  <2>7. \A a \in DOMAIN accounts : accounts[a].mbuser # w
    <3>1. w \in Names => \A a \in DOMAIN accounts : accounts[a].mbuser # w
      BY <1>4, <2>1 DEF Taken
    <3>2. w # None /\ \A a \in DOMAIN accounts : accounts[a].mbuser \in Names \union {None}
      BY <1>1, <2>1, AccountsAssumption DEF OneInv, SessionsInv, AccountsTyped
    <3>3. QED BY <3>1, <3>2
  <2>8. w \notin DOMAIN openids
    BY <1>1, <1>4, <2>1 DEF Taken
  <2>9. NamesSound'
    BY <1>1, <1>2, <2>1, <2>4, <2>5 DEF OneInv, NamesSound, AsSpelt
  <2>10. OwnedOnce'
    BY <1>2 DEF OneInv, OwnedOnce, Leads, Migrated
  <2>11. ASSUME NEW s \in Requests, req'[s].pc = "commit"
        PROVE  IF req'[s].fresh
          THEN /\ \A a \in DOMAIN accounts : accounts[a].mbuser # req'[s].who
               /\ req'[s].who \notin DOMAIN openids
               /\ \A x \in Requests \ {s} :
                    Making(req'[x]) /\ req'[x].who = req'[s].who => req'[s].who \in Googles
          ELSE Leads(req[s].who, req[s].account)'
    <3>1. CASE s = r
      BY <2>4, <2>5, <2>6, <2>7, <2>8, <3>1
    <3>2. CASE s # r
      <4>1. req'[s] = req[s] /\ req[s].pc = "commit"
        BY <2>5, <2>11, <3>2
      <4>2. CASE req[s].fresh
        <5>1. Making(req[s])
          BY <4>1, <4>2 DEF Making
        <5>2. /\ \A a \in DOMAIN accounts : accounts[a].mbuser # req[s].who
              /\ req[s].who \notin DOMAIN openids
              /\ \A x \in Requests \ {s} :
                   Making(req[x]) /\ req[x].who = req[s].who => req[s].who \in Googles
          BY <4>1, <4>2 DEF OneInv, MakersSound
        <5>3. \A x \in Requests \ {s} :
                Making(req'[x]) /\ req'[x].who = req[s].who => req[s].who \in Googles
          BY <2>4, <2>5, <2>6, <3>2, <5>1, <5>2
        <5>4. QED BY <4>1, <4>2, <5>2, <5>3
      <4>3. CASE ~ req[s].fresh
        BY <1>2, <4>1, <4>3 DEF OneInv, MakersSound, Leads, Migrated
      <4>4. QED BY <4>2, <4>3
    <3>3. QED BY <3>1, <3>2
  <2>12. MakersSound'
    BY <1>2, <2>11 DEF MakersSound, Leads, Migrated, Making
  <2>13. AddersSound'
    BY <1>2, <2>4, <2>5 DEF OneInv, AddersSound
  <2>14. QED BY <2>9, <2>10, <2>12, <2>13
<1>5. QED BY <1>3, <1>4

\* Names and keys may change, and accounts without an identity appear.
LEMMA OneKept ==
  ASSUME OneInv, req' = req, openids' = openids, googles' = googles, owner' = owner,
         \A u \in MbUsers : spelling'[u] \in {spelling[u], "new"},
         DOMAIN accounts \subseteq DOMAIN accounts',
         \A a \in DOMAIN accounts : accounts'[a].mbuser = accounts[a].mbuser,
         \A a \in DOMAIN accounts' \ DOMAIN accounts : accounts'[a].mbuser = None /\ owner[a] = {}
  PROVE  NamesSound' /\ OwnedOnce' /\ MakersSound' /\ AddersSound'
<1>1. \A i \in Names : i[1] \in MbUsers
  BY DEF Names
<1>2. None \notin Identities /\ None \notin Names
  BY AccountsAssumption DEF Identities
<1>3. NamesSound'
  <2>1. \A i : AsSpelt(i) => AsSpelt(i)'
    BY <1>1 DEF AsSpelt
  <2>2. \A r \in Requests : AsSpelt(req[r].who)'
    BY <2>1 DEF OneInv, NamesSound, AsSpelt
  <2>3. \A a \in DOMAIN accounts' : AsSpelt(accounts[a].mbuser)'
    <3> TAKE a \in DOMAIN accounts'
    <3>1. CASE a \in DOMAIN accounts
      BY <2>1, <3>1 DEF OneInv, NamesSound, AsSpelt
    <3>2. CASE a \notin DOMAIN accounts
      BY <1>2, <3>2 DEF AsSpelt
    <3>3. QED BY <3>1, <3>2
  <2>4. \A a, c \in DOMAIN accounts' :
          accounts'[a].mbuser = accounts'[c].mbuser => a = c \/ accounts'[a].mbuser = None
    BY DEF OneInv, NamesSound
  <2>5. QED BY <2>2, <2>3, <2>4 DEF NamesSound, AsSpelt
<1>4. \A a \in DOMAIN accounts : \A i : Leads(i, a) => Leads(i, a)'
  BY <1>1 DEF Leads, Migrated
<1>5. OwnedOnce'
  BY <1>4 DEF OneInv, OwnedOnce, Leads, Migrated
<1>6. ASSUME NEW s \in Requests, req[s].pc = "commit"
      PROVE  IF req[s].fresh
        THEN /\ \A a \in DOMAIN accounts' : accounts'[a].mbuser # req[s].who
             /\ req[s].who \notin DOMAIN openids
             /\ \A x \in Requests \ {s} :
                  Making(req[x]) /\ req[x].who = req[s].who => req[s].who \in Googles
        ELSE Leads(req[s].who, req[s].account)'
  <2>1. CASE req[s].fresh
    <3>1. req[s].who # None
      BY <1>2, <1>6 DEF OneInv, SessionsInv, SignersSound, Signing
    <3>2. QED BY <1>6, <2>1, <3>1 DEF OneInv, MakersSound
  <2>2. CASE ~ req[s].fresh
    <3>1. req[s].account \in DOMAIN accounts /\ Leads(req[s].who, req[s].account)
      BY <1>6, <2>2 DEF OneInv, MakersSound, SessionsInv, IdsSound
    <3>2. QED BY <1>4, <2>2, <3>1 DEF Leads, Migrated
  <2>3. QED BY <2>1, <2>2
<1>7. MakersSound'
  BY <1>6 DEF MakersSound, Leads, Migrated, Making
<1>8. AddersSound'
  BY DEF OneInv, AddersSound
<1>9. QED BY <1>3, <1>5, <1>7, <1>8

\* Steps of the servers and the applications change no identity.
LEMMA OneQuiet ==
  ASSUME OneInv,
         Quiet \/ CreateAccount \/ (\E u \in MbUsers : RenameMbUser(u))
           \/ (\E b \in Browsers : NewApiKey(b))
  PROVE  NamesSound' /\ OwnedOnce' /\ MakersSound' /\ AddersSound'
<1>1. CASE Quiet
  BY <1>1, OneKept DEF Quiet
<1>2. CASE CreateAccount
  <2>1. PICK row : row = [mbuser |-> None, apikey |-> nextKey]
    OBVIOUS
  <2>2. accounts' = With(accounts, nextId, row) /\ row.mbuser = None /\ nextId \notin DOMAIN accounts
    BY <1>2, <2>1, NextIdFree DEF CreateAccount, NewAccount, NewId, OneInv
  <2>3. /\ DOMAIN accounts' = DOMAIN accounts \union {nextId}
        /\ accounts'[nextId].mbuser = None
        /\ \A a \in DOMAIN accounts : accounts'[a].mbuser = accounts[a].mbuser
    BY <2>2 DEF With
  <2>4. owner[nextId] = {}
    <3>1. nextId \in 1 .. MaxIds
      BY <1>2, NextIdFree, AccountsAssumption DEF CreateAccount, OneInv
    <3>2. QED BY <2>2, <3>1 DEF OneInv, SessionsInv, OwnersSound
  <2>5. QED BY <1>2, <2>3, <2>4, OneKept DEF CreateAccount, history
<1>3. ASSUME NEW u \in MbUsers, RenameMbUser(u)
      PROVE  NamesSound' /\ OwnedOnce' /\ MakersSound' /\ AddersSound'
  <2>1. \A v \in MbUsers : spelling'[v] \in {spelling[v], "new"}
    BY <1>3 DEF RenameMbUser, OneInv, SessionsInv, AccountsTyped
  <2>2. QED BY <1>3, <2>1, OneKept DEF RenameMbUser, app_db, history
<1>4. ASSUME NEW b \in Browsers, NewApiKey(b)
      PROVE  NamesSound' /\ OwnedOnce' /\ MakersSound' /\ AddersSound'
  <2>1. PICK a \in DOMAIN accounts : accounts' = [accounts EXCEPT ![a].apikey = nextKey]
    BY <1>4 DEF NewApiKey
  <2>2. accounts \in [DOMAIN accounts -> [mbuser : Names \union {None}, apikey : Int]]
    BY DEF OneInv, SessionsInv, AccountsTyped
  <2>3. /\ DOMAIN accounts' = DOMAIN accounts
        /\ \A c \in DOMAIN accounts : accounts'[c].mbuser = accounts[c].mbuser
    BY <2>1, <2>2
  <2>4. QED BY <1>4, <2>3, OneKept DEF NewApiKey, history
<1>5. QED BY <1>1, <1>2, <1>3, <1>4

\* An identity that leads to an account goes on doing so when another commits.
LEMMA CommitLeads ==
  ASSUME OneInv, NEW r \in Requests, Commit(r), NEW c \in DOMAIN accounts,
         NEW i, Leads(i, c)
  PROVE  Leads(i, c)'
<1>0. SessionsInv
  BY DEF OneInv
<1>1. /\ accounts'[c] = accounts[c] /\ spelling' = spelling
  BY CommitChanges DEF OneInv, Commit
<1>2. DOMAIN googles \subseteq DOMAIN googles'
  BY CommitTables DEF OneInv
<1>3. Migrated(i) => Migrated(i)'
  BY <1>2 DEF Migrated
<1>4. ASSUME i \in DOMAIN openids /\ openids[i] = c
      PROVE  Migrated(i)' \/ (i \in DOMAIN openids' /\ openids'[i] = c)
  <2>1. i \in DOMAIN openids' \/ (Adds(req[r]) /\ OpenIdOf[req[r].who] = i)
    BY <1>4, CommitTables DEF OneInv
  <2>2. CASE i \in DOMAIN openids'
    <3>1. req[r].fresh => req[r].who # i
      BY <1>4, CommitChanges DEF OneInv, MakersSound
    <3>2. openids'[i] = IF req[r].fresh /\ i = req[r].who THEN req[r].account ELSE openids[i]
      <4>1. \A o \in DOMAIN openids' :
              openids'[o] = IF req[r].fresh /\ o = req[r].who THEN req[r].account ELSE openids[o]
        BY <1>0, CommitTables, Zenon
      <4>2. QED BY <2>2, <4>1
    <3>3. QED BY <1>4, <2>2, <3>1, <3>2
  <2>3. CASE Adds(req[r]) /\ OpenIdOf[req[r].who] = i
    <3>1. req[r].who \in DOMAIN googles'
      BY <1>0, <2>3, GoogleAdded
    <3>2. QED BY <2>3, <3>1 DEF Migrated
  <2>4. QED BY <2>1, <2>2, <2>3
<1>5. QED BY <1>1, <1>3, <1>4 DEF Leads, Migrated

\* A commit adds the only account of its identity.
LEMMA OneCommits ==
  ASSUME OneInv, NEW r \in Requests, Commit(r)
  PROVE  NamesSound' /\ OwnedOnce' /\ MakersSound' /\ AddersSound'
<1>1. PICK a, w : a = req[r].account /\ w = req[r].who
  OBVIOUS
<1>2. /\ a \in DOMAIN owner /\ w \in Identities /\ req[r].pc = "commit"
      /\ req[r].fresh <=> a \notin DOMAIN accounts
      /\ DOMAIN accounts' = DOMAIN accounts \union {a}
      /\ \A c \in DOMAIN accounts : accounts'[c] = accounts[c]
      /\ req[r].fresh => accounts'[a].mbuser = IF w \in Names THEN w ELSE None
      /\ owner' = [owner EXCEPT ![a] = @ \union {w}]
      /\ req' = [req EXCEPT ![r].pc = "answer"]
  <2>1. DOMAIN owner = 1 .. MaxIds
    BY DEF OneInv, SessionsInv, AccountsTyped
  <2>2. QED BY <1>1, <2>1, CommitChanges DEF OneInv
<1>3. /\ spelling' = spelling /\ req \in [Requests -> RequestType]
      /\ None \notin Identities
      /\ Names \subseteq Identities
      /\ \A s \in Requests : Signing(req[s]) => req[s].who \in Identities
  BY AccountsAssumption DEF Commit, OneInv, SessionsInv, AccountsTyped, SignersSound, Identities
<1>4. \A s \in Requests :
        /\ s # r => req'[s] = req[s]
        /\ req'[s].who = req[s].who /\ (s = r => req'[s].pc = "answer")
  BY <1>2, <1>3 DEF RequestType
<1>5. \A c \in DOMAIN accounts : \A i : Leads(i, c) => Leads(i, c)'
  BY CommitLeads
<1>6. req[r].fresh =>
        /\ \A c \in DOMAIN accounts : accounts[c].mbuser # w
        /\ w \notin DOMAIN openids
        /\ \A s \in Requests \ {r} : Making(req[s]) /\ req[s].who = w => w \in Googles
  BY <1>1, <1>2 DEF OneInv, MakersSound
<1>7. Leads(w, a)'
  <2>1. CASE req[r].fresh
    <3>1. w \in Names => accounts'[a].mbuser = w
      BY <1>2, <2>1
    <3>2. w \in OpenIds => w \in DOMAIN openids' /\ openids'[w] = a
      BY <1>1, <2>1, CommitTables DEF OneInv
    <3>3. QED BY <3>1, <3>2 DEF Leads, Migrated
  <2>2. CASE ~ req[r].fresh
    <3>1. Leads(w, a) /\ a \in DOMAIN accounts
      BY <1>1, <1>2, <2>2 DEF OneInv, MakersSound
    <3>2. QED BY <1>5, <3>1
  <2>3. QED BY <2>1, <2>2
<1>8. NamesSound'
  <2>1. \A s \in Requests : AsSpelt(req[s].who)'
    BY <1>3, <1>4 DEF OneInv, NamesSound, AsSpelt
  <2>2. \A c \in DOMAIN accounts' : AsSpelt(accounts[c].mbuser)'
    <3> TAKE c \in DOMAIN accounts'
    <3>1. CASE c \in DOMAIN accounts
      BY <1>2, <1>3, <3>1 DEF OneInv, NamesSound, AsSpelt
    <3>2. CASE c \notin DOMAIN accounts
      <4>1. AsSpelt(w)
        BY <1>1 DEF OneInv, NamesSound
      <4>2. accounts'[c].mbuser = w \/ accounts'[c].mbuser = None
        BY <1>2, <3>2
      <4>3. QED BY <1>3, <4>1, <4>2 DEF AsSpelt
    <3>3. QED BY <3>1, <3>2
  <2>3. ASSUME NEW c \in DOMAIN accounts', NEW d \in DOMAIN accounts',
               accounts'[c].mbuser = accounts'[d].mbuser
        PROVE  c = d \/ accounts'[c].mbuser = None
    <3>1. CASE c \in DOMAIN accounts /\ d \in DOMAIN accounts
      BY <1>2, <2>3, <3>1 DEF OneInv, NamesSound
    <3>2. CASE ~ (c \in DOMAIN accounts /\ d \in DOMAIN accounts)
      BY <1>2, <1>6, <2>3, <3>2
    <3>3. QED BY <3>1, <3>2
  <2>4. QED BY <2>1, <2>2, <2>3 DEF NamesSound, AsSpelt
<1>13. \A g \in DOMAIN googles : g \in DOMAIN googles' /\ googles'[g] = googles[g]
  BY <1>1, CommitTables, GoogleTable DEF OneInv
<1>9. OwnedOnce'
  <2> SUFFICES ASSUME NEW c \in DOMAIN accounts', NEW i \in owner'[c]
               PROVE  /\ Leads(i, c)'
                      /\ i \in Googles => i \in DOMAIN googles' /\ googles'[i] = c
    BY DEF OwnedOnce, Leads, Migrated
  <2>1. w \in Googles => w \in DOMAIN googles' /\ googles'[w] = a
    <3>1. CASE Adds(req[r])
      <4>0. SessionsInv
        BY DEF OneInv
      <4>1. req[r].who \in DOMAIN googles' /\ googles'[req[r].who] = req[r].account
        BY <3>1, <4>0, GoogleAdded
      <4>2. QED BY <1>1, <4>1
    <3>2. CASE ~ Adds(req[r]) /\ w \in Googles
      <4>1. ~ req[r].adds
        BY <1>1, <3>2 DEF Adds
      <4>2. w \in DOMAIN googles /\ googles[w] = a
        BY <1>1, <1>2, <3>2, <4>1 DEF OneInv, AddersSound
      <4>3. QED BY <1>13, <4>2
    <3>3. QED BY <3>1, <3>2
  <2>2. CASE c = a /\ i = w
    BY <1>7, <2>1, <2>2
  <2>3. CASE ~ (c = a /\ i = w)
    <3>1. i \in owner[c]
      BY <1>2, <2>3
    <3>2. c \in DOMAIN accounts
      <4>1. DOMAIN owner = 1 .. MaxIds
        BY DEF OneInv, SessionsInv, AccountsTyped
      <4>2. req[r].fresh => owner[a] = {}
        BY <1>2, <4>1 DEF OneInv, SessionsInv, OwnersSound
      <4>3. QED BY <1>2, <3>1, <4>2
    <3>3. /\ Leads(i, c) /\ (i \in Googles => i \in DOMAIN googles /\ googles[i] = c)
      BY <3>1, <3>2 DEF OneInv, OwnedOnce
    <3>4. i \in Googles => googles'[i] = c /\ i \in DOMAIN googles'
      BY <1>13, <3>3
    <3>5. QED BY <1>5, <3>2, <3>3, <3>4
  <2>4. QED BY <2>2, <2>3
<1>10. ASSUME NEW s \in Requests, req'[s].pc = "commit"
       PROVE  IF req'[s].fresh
         THEN /\ \A c \in DOMAIN accounts' : accounts'[c].mbuser # req'[s].who
              /\ req'[s].who \notin DOMAIN openids'
              /\ \A x \in Requests \ {s} :
                   Making(req'[x]) /\ req'[x].who = req'[s].who => req'[s].who \in Googles
         ELSE Leads(req[s].who, req[s].account)'
  <2>1. s # r /\ req'[s] = req[s] /\ req[s].pc = "commit"
    BY <1>4, <1>10
  <2>2. CASE ~ req[s].fresh
    <3>1. req[s].account \in DOMAIN accounts /\ Leads(req[s].who, req[s].account)
      BY <2>1, <2>2 DEF OneInv, MakersSound, SessionsInv, IdsSound
    <3>2. Leads(req[s].who, req[s].account)'
      <4>1. PICK i, c : i = req[s].who /\ c = req[s].account
        OBVIOUS
      <4>2. Leads(i, c)' /\ req'[s].who = i /\ req'[s].account = c
        BY <1>5, <2>1, <3>1, <4>1
      <4>3. QED BY <4>2 DEF Leads, Migrated
    <3>3. QED BY <2>1, <2>2, <3>2
  <2>3. CASE req[s].fresh
    <3>1. /\ \A c \in DOMAIN accounts : accounts[c].mbuser # req[s].who
          /\ req[s].who \notin DOMAIN openids /\ Making(req[s])
          /\ req[s].who \in Identities
          /\ \A x \in Requests \ {s} :
               Making(req[x]) /\ req[x].who = req[s].who => req[s].who \in Googles
      BY <1>3, <2>1, <2>3 DEF OneInv, MakersSound, Making, Signing
    <3>2. req[r].fresh /\ req[s].who = w => w \in Googles
      BY <1>6, <2>1, <3>1
    <3>3. \A c \in DOMAIN accounts' : accounts'[c].mbuser # req[s].who
      <4> TAKE c \in DOMAIN accounts'
      <4>1. CASE c \in DOMAIN accounts
        BY <1>2, <3>1, <4>1
      <4>2. CASE c \notin DOMAIN accounts
        <5>1. c = a /\ req[r].fresh /\ accounts'[c].mbuser = IF w \in Names THEN w ELSE None
          BY <1>2, <4>2
        <5>2. w \in Googles => w \notin Names
          BY AccountsAssumption
        <5>3. QED BY <1>3, <3>1, <3>2, <5>1, <5>2
      <4>3. QED BY <4>1, <4>2
    <3>4. req[s].who \notin DOMAIN openids'
      <4>1. DOMAIN openids' \subseteq DOMAIN openids
              \union IF req[r].fresh /\ w \in OpenIds THEN {w} ELSE {}
        BY <1>1, CommitTables DEF OneInv
      <4>2. w \in Googles => w \notin OpenIds
        BY AccountsAssumption
      <4>3. QED BY <3>1, <3>2, <4>1, <4>2
    <3>5. \A x \in Requests \ {s} :
            Making(req'[x]) /\ req'[x].who = req[s].who => req[s].who \in Googles
      <4> TAKE x \in Requests \ {s}
      <4>1. Making(req'[x]) => Making(req[x])
        BY <1>4 DEF Making
      <4>2. QED BY <1>4, <3>1, <4>1
    <3>6. QED BY <2>1, <2>3, <3>3, <3>4, <3>5
  <2>4. QED BY <2>2, <2>3
<1>11. MakersSound'
  BY <1>10 DEF MakersSound, Leads, Migrated, Making
<1>14. AddersSound'
  <2> SUFFICES ASSUME NEW s \in Requests, req'[s].pc = "commit", req'[s].who \in Googles,
                      ~ req'[s].adds
               PROVE  req'[s].who \in DOMAIN googles' /\ googles'[req'[s].who] = req'[s].account
    BY DEF AddersSound
  <2>1. s # r /\ req'[s] = req[s]
    BY <1>4
  <2>2. req[s].who \in DOMAIN googles /\ googles[req[s].who] = req[s].account
    BY <2>1 DEF OneInv, AddersSound
  <2>3. QED BY <1>13, <2>1, <2>2
<1>15. QED BY <1>8, <1>9, <1>11, <1>14

\* At the start every OpenID leads to the one account.
LEMMA OneInit ==
  ASSUME AccountsInit
  PROVE  OneInv
<1>1. SessionsInv
  BY SessionsInit
<1>2. None \notin Names /\ OpenIds \intersect Names = {} /\ OpenIds \intersect Googles = {}
      /\ 1 \in 1 .. MaxIds
  BY AccountsAssumption DEF Identities
<1>3. NamesSound
  BY <1>2, IdleAt DEF AccountsInit, NamesSound, AsSpelt
<1>4. OwnedOnce
  BY <1>2 DEF AccountsInit, OwnedOnce, Leads
<1>5. MakersSound
  BY IdleAt DEF AccountsInit, MakersSound
<1>6. AddersSound
  BY IdleAt DEF AccountsInit, AddersSound
<1>7. QED BY <1>1, <1>3, <1>4, <1>5, <1>6 DEF OneInv

\* Every step keeps one account for each identity.
LEMMA OneNext ==
  ASSUME OneInv, [Next]_vars
  PROVE  OneInv'
<1>1. SessionsInv'
  BY SessionsNext DEF OneInv
<1>2. CASE AccountsNext
  <2>1. ASSUME NEW r \in Requests,
               \/ \E b \in Browsers : SessionStep(r, b)
               \/ \E u \in MbUsers : CreateMusicBrainz(r, u)
               \/ FindUser(r) \/ InsertAccount(r) \/ Commit(r) \/ LoginFails(r) \/ Answer(r)
        PROVE  NamesSound' /\ OwnedOnce' /\ MakersSound' /\ AddersSound'
    BY <2>1, OneBegins, OneCreates, OneFinds, OneInserts, OneCommits, OneEnds
  <2>2. QED BY <1>1, <1>2, <2>1, OneQuiet DEF AccountsNext, OneInv
<1>3. CASE Quiet
  BY <1>1, <1>3, OneQuiet DEF OneInv
<1>4. QED BY <1>2, <1>3, NextCases

(* lookup_user and insert_account with the unique indexes: the invariant behind
   OneAccountEach, for the accounts that are there and those under way. *)
THEOREM OneInvAlways == Spec => []OneInv
<1>1. Init => OneInv
  BY OneInit DEF Init
<1>2. OneInv /\ [Next]_vars => OneInv'
  BY OneNext
<1>3. QED BY <1>1, <1>2, PTL DEF Spec

\* A finite set any two of whose members are equal has at most one.
LEMMA AtMostOne ==
  ASSUME NEW S, \A x, y \in S : x = y
  PROVE  Cardinality(S) <= 1
<1>1. CASE S = {}
  BY <1>1, FS_EmptySet
<1>2. CASE S # {}
  <2>1. PICK x \in S : TRUE
    BY <1>2
  <2>2. S = {x}
    BY <2>1
  <2>3. QED BY <2>2, FS_Singleton
<1>3. QED BY <1>1, <1>2

(* One person has one account, however many sign-ins on the web site and calls
   of the API overlap; the exceptions are those the property names. *)
THEOREM OneAccountForEach == Spec => []OneAccountEach
<1>1. OneInv => OneAccountEach
  <2> SUFFICES ASSUME OneInv, NEW i \in Identities,
                      ~ (i \in Names /\ spelling[i[1]] = "new"),
                      ~ (i \in OpenIds /\ \E g \in DOMAIN googles : OpenIdOf[g] = i)
               PROVE  Cardinality({a \in DOMAIN accounts : i \in owner[a]}) <= 1
    BY DEF OneAccountEach
  <2> DEFINE S == {a \in DOMAIN accounts : i \in owner[a]}
  <2>1. ASSUME NEW a \in S, NEW c \in S
        PROVE  a = c
    <3>1. /\ Leads(i, a) /\ (i \in Googles => i \in DOMAIN googles /\ googles[i] = a)
          /\ Leads(i, c) /\ (i \in Googles => i \in DOMAIN googles /\ googles[i] = c)
      BY <2>1 DEF OneInv, OwnedOnce
    <3>2. CASE i \in Names
      <4>1. accounts[a].mbuser = i /\ accounts[c].mbuser = i /\ i # None
        BY <3>1, <3>2, AccountsAssumption DEF Leads
      <4>2. QED BY <4>1 DEF OneInv, NamesSound
    <3>3. CASE i \in OpenIds
      BY <3>1, <3>3 DEF Leads, Migrated
    <3>4. CASE i \in Googles
      BY <3>1, <3>4
    <3>5. QED BY <3>2, <3>3, <3>4 DEF Identities
  <2>2. QED BY <2>1, AtMostOne
<1>2. QED BY <1>1, OneInvAlways, PTL

-----------------------------------------------------------------------------
(* Login tokens *)

\* The types of what holds tokens.
LEMMA TokenTypes ==
  ASSUME TokensInv
  PROVE  /\ \A b \in Browsers : cookie[b] \in SessionType
         /\ \A r \in Requests :
              /\ req[r] \in RequestType /\ req[r].copy \in SessionType
              /\ req[r].session \in SessionType
              /\ req[r].browser \in Browsers \union {None}
         /\ req \in [Requests -> RequestType] /\ issued \in [Browsers -> SUBSET Int]
         /\ \A b \in Browsers : issued[b] \subseteq 1 .. nextToken - 1
         /\ nextToken \in Nat \ {0}
         /\ None \notin Int /\ None \notin Browsers
<1>1. \A b \in Browsers : issued[b] \subseteq 1 .. nextToken - 1
  BY DEF TokensInv, AccountsTyped
<1>2. nextToken \in Nat \ {0} /\ None \notin Int /\ None \notin Browsers
  BY AccountsAssumption DEF TokensInv, AccountsTyped
<1>3. \A b \in Browsers : issued[b] \subseteq Int
  BY <1>1, <1>2
<1>4. QED BY <1>1, <1>2, <1>3 DEF TokensInv, AccountsTyped, RequestType

\* The tokens of every request, cookie and list stay as they are.
LEMMA SameTokens ==
  ASSUME TokensInv, cookie' = cookie, issued' = issued, spent' = spent,
         overwritten' = overwritten,
         \A s \in Requests :
           /\ req'[s].copy = req[s].copy /\ req'[s].browser = req[s].browser
           /\ req'[s].who = req[s].who
           /\ \A p \in Providers : req'[s].session[p] = req[s].session[p]
  PROVE  TokensSound'
<1>1. \A b \in Browsers : CookieTokens(b)'
  BY DEF TokensInv, TokensSound, CookieTokens
<1>2. ASSUME NEW s \in Requests
      PROVE  OwnTokens(req[s])'
  BY DEF TokensInv, TokensSound, OwnTokens
<1>3. ASSUME NEW s \in Requests
      PROVE  NewTokens(s)'
  BY DEF TokensInv, TokensSound, NewTokens
<1>4. \A b, c \in Browsers : b # c => issued'[b] \intersect issued'[c] = {}
  BY DEF TokensInv, TokensSound
<1>5. QED BY <1>1, <1>2, <1>3, <1>4 DEF TokensSound

\* Request r begins, with the tokens of its browser or some of them.
Begun(r, b, q) ==
  /\ req' = [req EXCEPT ![r] = q]
  /\ cookie' = cookie /\ issued' = issued /\ spent' = spent
  /\ overwritten' = overwritten
  /\ q.browser = b /\ q.copy = cookie[b]
  /\ \A p \in Providers : /\ q.session[p] \in {cookie[b][p], None}
                          /\ q.who \in KindOf(p) => q.session[p] = None

\* No token is new, and one that was tried is dropped.
LEMMA BegunTokens ==
  ASSUME TokensInv, NEW r \in Requests, NEW b \in Browsers, NEW q, Begun(r, b, q)
  PROVE  TokensSound'
<1> USE DEF Begun
<1>1. req'[r] = q /\ \A s \in Requests \ {r} : req'[s] = req[s]
  BY TokenTypes
<1>2. \A c \in Browsers : CookieTokens(c)'
  BY DEF TokensInv, TokensSound, CookieTokens
<1>3. ASSUME NEW s \in Requests
      PROVE  OwnTokens(req[s])'
  <2>1. CASE s # r
    BY <1>1, <2>1 DEF TokensInv, TokensSound, OwnTokens
  <2>2. CASE s = r
    <3>1. CookieTokens(b) /\ None \notin Browsers
      BY TokenTypes DEF TokensInv, TokensSound
    <3>2. OwnTokens(q)'
      BY <3>1 DEF CookieTokens, OwnTokens
    <3>3. QED BY <1>1, <2>2, <3>2 DEF OwnTokens
  <2>3. QED BY <2>1, <2>2
<1>4. ASSUME NEW s \in Requests
      PROVE  NewTokens(s)'
  <2>1. CASE s # r
    <3> SUFFICES ASSUME NEW p \in Providers,
                        req[s].session[p] \notin {None, req[s].copy[p]}
                 PROVE  /\ req[s].session[p] \notin spent
                        /\ \A c \in Browsers, x \in Providers : cookie[c][x] # req[s].session[p]
                        /\ \A v \in Requests, x \in Providers :
                             /\ req'[v].copy[x] # req[s].session[p]
                             /\ v # s => req'[v].session[x] # req[s].session[p]
      BY <1>1, <2>1 DEF NewTokens
    <3>1. NewTokens(s)
      BY DEF TokensInv, TokensSound
    <3>2. \A x \in Providers : /\ q.copy[x] # req[s].session[p]
                               /\ q.session[x] # req[s].session[p]
      BY <3>1 DEF NewTokens
    <3>3. QED BY <1>1, <3>1, <3>2 DEF NewTokens
  <2>2. CASE s = r
    BY <1>1, <2>2 DEF NewTokens
  <2>3. QED BY <2>1, <2>2
<1>5. \A c, d \in Browsers : c # d => issued'[c] \intersect issued'[d] = {}
  BY DEF TokensInv, TokensSound
<1>6. QED BY <1>2, <1>3, <1>4, <1>5 DEF TokensSound

\* Every token there is was made before.
LEMMA TokensKnown ==
  ASSUME TokensInv
  PROVE  \A p \in Providers :
           /\ \A b \in Browsers : cookie[b][p] \in (1 .. nextToken - 1) \union {None}
           /\ \A r \in Requests :
                /\ req[r].copy[p] \in (1 .. nextToken - 1) \union {None}
                /\ req[r].session[p] \in (1 .. nextToken - 1) \union {None}
<1>1. \A b \in Browsers : issued[b] \subseteq 1 .. nextToken - 1
  BY TokenTypes
<1>2. \A r \in Requests : req[r].browser \in Browsers \union {None}
  BY TokenTypes
<1>3. ASSUME NEW p \in Providers, NEW b \in Browsers
      PROVE  cookie[b][p] \in (1 .. nextToken - 1) \union {None}
  BY <1>1 DEF TokensInv, TokensSound, CookieTokens
<1>4. ASSUME NEW p \in Providers, NEW r \in Requests
      PROVE  /\ req[r].copy[p] \in (1 .. nextToken - 1) \union {None}
             /\ req[r].session[p] \in (1 .. nextToken - 1) \union {None}
  BY <1>1, <1>2 DEF TokensInv, TokensSound, OwnTokens
<1>5. QED BY <1>3, <1>4

\* generate_login_token makes a token that is nowhere yet.
LEMMA GenerateTokens ==
  ASSUME TokensInv, NEW r \in Requests, NEW b \in Browsers, NEW p \in Providers,
         GenerateLoginToken(r, b, p)
  PROVE  TokensSound' /\ spent' = spent /\ nextToken <= nextToken'
<1> PICK n : n = nextToken
  OBVIOUS
<1> PICK s : s = [cookie[b] EXCEPT ![p] = n]
  OBVIOUS
<1> PICK q : q = Visiting(b, "answer", cookie[b], s)
  OBVIOUS
<1>1. /\ n \in Int /\ n # None /\ None \notin Identities /\ cookie[b] \in SessionType
      /\ nextToken' = n + 1 /\ nextToken <= nextToken'
  BY TokenTypes, AccountsAssumption DEF GenerateLoginToken
<1>2. /\ s \in SessionType /\ s[p] = n
      /\ \A x \in Providers \ {p} : s[x] = cookie[b][x]
  BY <1>1, SessionWith DEF Providers
<1>3. /\ q.browser = b /\ q.copy = cookie[b] /\ q.session = s /\ q.who = None
  BY <1>1, <1>2, VisitingAt
<1>4. req' = [req EXCEPT ![r] = q]
  BY DEF GenerateLoginToken, Sent, Visiting
<1>5. req'[r] = q /\ \A v \in Requests \ {r} : req'[v] = req[v]
  BY <1>4, TokenTypes
<1>6. /\ cookie' = cookie /\ spent' = spent /\ overwritten' = overwritten
      /\ issued' = [issued EXCEPT ![b] = @ \union {n}]
  BY DEF GenerateLoginToken
<1>7. /\ issued'[b] = issued[b] \union {n}
      /\ \A c \in Browsers \ {b} : issued'[c] = issued[c]
      /\ \A c \in Browsers : issued[c] \subseteq issued'[c] /\ n \notin issued[c]
      /\ n \notin spent
  <2>1. n \notin 1 .. nextToken - 1
    BY <1>1
  <2>2. issued'[b] = issued[b] \union {n} /\ \A c \in Browsers \ {b} : issued'[c] = issued[c]
    BY <1>6, TokenTypes
  <2>3. \A c \in Browsers : n \notin issued[c]
    BY <2>1, TokenTypes
  <2>4. n \notin spent
    BY <2>1 DEF TokensInv
  <2>5. QED BY <2>2, <2>3, <2>4
<1>8. \A x \in Providers :
        /\ \A c \in Browsers : cookie[c][x] # n
        /\ \A v \in Requests : req[v].copy[x] # n /\ req[v].session[x] # n
  <2>1. n \notin (1 .. nextToken - 1) \union {None}
    BY <1>1
  <2>2. QED BY <2>1, TokensKnown
<1>9. \A c \in Browsers : CookieTokens(c)'
  BY <1>6, <1>7 DEF TokensInv, TokensSound, CookieTokens
<1>10. ASSUME NEW v \in Requests
       PROVE  OwnTokens(req[v])'
  <2>1. CASE v # r
    <3>1. OwnTokens(req[v]) /\ req[v].browser \in Browsers \union {None}
      BY TokenTypes DEF TokensInv, TokensSound
    <3>2. QED BY <1>5, <1>7, <2>1, <3>1 DEF OwnTokens
  <2>2. CASE v = r
    <3>1. CookieTokens(b) /\ None \notin Browsers
      BY TokenTypes DEF TokensInv, TokensSound
    <3>2. \A x \in Providers : q.who \notin KindOf(x)
      BY <1>1, <1>3 DEF KindOf, Identities
    <3>3. ASSUME NEW x \in Providers
          PROVE  /\ cookie[b][x] # None => cookie[b][x] \in issued'[b]
                 /\ s[x] # None => s[x] \in issued'[b]
      <4>1. cookie[b][x] # None => cookie[b][x] \in issued'[b]
        BY <1>7, <3>1 DEF CookieTokens
      <4>2. s[x] \in {n, cookie[b][x]}
        BY <1>2
      <4>3. QED BY <1>7, <4>1, <4>2
    <3>4. ASSUME NEW x \in Providers, NEW y \in Providers \ {x}, s[x] # None
          PROVE  s[x] # s[y] /\ s[x] # cookie[b][y]
      <4>1. CASE x = p
        <5>1. s[x] = n /\ s[y] = cookie[b][y]
          BY <1>2, <4>1
        <5>2. QED BY <1>8, <5>1
      <4>2. CASE x # p
        <5>1. s[x] = cookie[b][x] /\ s[y] \in {n, cookie[b][y]}
          BY <1>2, <4>2
        <5>2. cookie[b][x] # cookie[b][y]
          BY <3>1, <3>4, <5>1 DEF CookieTokens
        <5>3. QED BY <1>8, <5>1, <5>2
      <4>3. QED BY <4>1, <4>2
    <3>5. OwnTokens(q)'
      <4>1. \A x \in Providers : q.copy[x] = cookie[b][x] /\ q.session[x] = s[x]
        BY <1>3
      <4>2. q.browser = b /\ b # None
        BY <1>3, <3>1
      <4>3. QED BY <3>2, <3>3, <3>4, <4>1, <4>2 DEF OwnTokens
    <3>6. QED BY <1>5, <2>2, <3>5 DEF OwnTokens
  <2>3. QED BY <2>1, <2>2
<1>11. ASSUME NEW v \in Requests
       PROVE  NewTokens(v)'
  <2>1. CASE v # r
    <3> SUFFICES ASSUME NEW x \in Providers,
                        req[v].session[x] \notin {None, req[v].copy[x]}
                 PROVE  /\ req[v].session[x] \notin spent
                        /\ \A c \in Browsers, y \in Providers : cookie[c][y] # req[v].session[x]
                        /\ \A w \in Requests, y \in Providers :
                             /\ req'[w].copy[y] # req[v].session[x]
                             /\ w # v => req'[w].session[y] # req[v].session[x]
      BY <1>5, <1>6, <2>1 DEF NewTokens
    <3>1. NewTokens(v)
      BY DEF TokensInv, TokensSound
    <3>2. ASSUME NEW y \in Providers
          PROVE  q.copy[y] # req[v].session[x] /\ q.session[y] # req[v].session[x]
      <4>1. cookie[b][y] # req[v].session[x] /\ n # req[v].session[x]
        BY <1>8, <3>1 DEF NewTokens
      <4>2. q.session[y] \in {n, cookie[b][y]} /\ q.copy[y] = cookie[b][y]
        BY <1>2, <1>3
      <4>3. QED BY <4>1, <4>2
    <3>3. QED BY <1>5, <3>1, <3>2 DEF NewTokens
  <2>2. CASE v = r
    <3> SUFFICES ASSUME NEW x \in Providers, q.session[x] \notin {None, q.copy[x]}
                 PROVE  /\ q.session[x] \notin spent
                        /\ \A c \in Browsers, y \in Providers : cookie[c][y] # q.session[x]
                        /\ \A w \in Requests, y \in Providers :
                             /\ req'[w].copy[y] # q.session[x]
                             /\ w # r => req'[w].session[y] # q.session[x]
      BY <1>5, <1>6, <2>2 DEF NewTokens
    <3>1. q.session[x] = n
      BY <1>2, <1>3
    <3>2. \A y \in Providers : q.copy[y] # n
      BY <1>3, <1>8
    <3>3. QED BY <1>5, <1>7, <1>8, <3>1, <3>2
  <2>3. QED BY <2>1, <2>2
<1>12. \A c, d \in Browsers : c # d => issued'[c] \intersect issued'[d] = {}
  <2>1. \A c, d \in Browsers : c # d => issued[c] \intersect issued[d] = {}
    BY DEF TokensInv, TokensSound
  <2>2. QED BY <1>7, <2>1
<1>13. QED BY <1>1, <1>6, <1>9, <1>10, <1>11, <1>12 DEF TokensSound

\* check_login_token drops the token of its provider.
LEMMA LoginCallbackTokens ==
  ASSUME TokensInv, NEW r \in Requests, NEW b \in Browsers, NEW p \in Providers,
         NEW t, NEW i \in Identities, LoginCallback(r, b, p, t, i)
  PROVE  TokensSound' /\ spent' = spent /\ nextToken' = nextToken
<1> PICK s : s = [cookie[b] EXCEPT ![p] = None]
  OBVIOUS
<1> PICK ok \in BOOLEAN : ok = LoginTokenChecked(b, p, t).ok
  BY DEF LoginTokenChecked
<1> PICK pc \in {"find", "answer"} : pc = IF ok THEN "find" ELSE "answer"
  OBVIOUS
<1>0. PICK dirty \in BOOLEAN : dirty = (cookie[b][p] # None)
  OBVIOUS
<1> PICK q : q = SigningIn(b, pc, cookie[b], s, dirty, i)
  OBVIOUS
<1>1. cookie[b] \in SessionType
  BY TokenTypes
<1>2. /\ s \in SessionType /\ s[p] = None
      /\ \A x \in Providers \ {p} : s[x] = cookie[b][x]
  <2>1. PICK c \in SessionType : c = cookie[b]
    BY <1>1
  <2>2. PICK v \in Int \union {None} : v = None
    OBVIOUS
  <2>3. p \in {"id", "musicbrainz", "google"}
    BY DEF Providers
  <2>4. s = [c EXCEPT ![p] = v]
    BY <2>1, <2>2
  <2>5. /\ s \in SessionType /\ s[p] = v
        /\ \A x \in {"id", "musicbrainz", "google"} \ {p} : s[x] = c[x]
    BY <2>1, <2>2, <2>3, <2>4, SessionWith
  <2>6. QED BY <2>1, <2>2, <2>5 DEF Providers
<1>3. q.browser = b /\ q.copy = cookie[b] /\ q.session = s /\ q.who = i
  BY <1>1, <1>2, SigningInAt
<1>4. req' = [req EXCEPT ![r] = q]
  <2>1. s = LoginTokenChecked(b, p, t).session
    BY DEF LoginTokenChecked
  <2>2. QED BY <1>0, <2>1 DEF LoginCallback, SigningIn
<1>5. \A x \in Providers : i \in KindOf(x) => x = p
  <2>1. i \in KindOf(p)
    BY TokenTypes DEF LoginCallback, IdentitiesOf, KindOf, Names, TokensInv, AccountsTyped
  <2>2. Names \intersect Googles = {}
    BY AccountsAssumption
  <2>3. QED BY <2>1, <2>2 DEF KindOf, Providers
<1>6. \A x \in Providers : /\ q.session[x] \in {cookie[b][x], None}
                           /\ q.who \in KindOf(x) => q.session[x] = None
  <2> TAKE x \in Providers
  <2>1. s[x] \in {cookie[b][x], None} /\ (x = p => s[x] = None)
    BY <1>2
  <2>2. q.session[x] = s[x] /\ q.who = i
    BY <1>3
  <2>3. QED BY <1>5, <2>1, <2>2
<1>7. /\ cookie' = cookie /\ issued' = issued /\ spent' = spent
      /\ overwritten' = overwritten /\ nextToken' = nextToken
  BY DEF LoginCallback
<1>8. TokensSound'
  <2>1. Begun(r, b, q)
    BY <1>3, <1>4, <1>6, <1>7 DEF Begun
  <2>2. QED BY <2>1, BegunTokens
<1>9. QED BY <1>7, <1>8

\* A callback of the OpenID library leaves the tokens.
LEMMA OpenIdCallbackTokens ==
  ASSUME TokensInv, NEW r \in Requests, NEW b \in Browsers, NEW o \in OpenIds,
         OpenIdCallback(r, b, o)
  PROVE  TokensSound' /\ spent' = spent /\ nextToken' = nextToken
<1>0. PICK dirty \in BOOLEAN : dirty = TRUE
  OBVIOUS
<1> PICK q : q = SigningIn(b, "find", cookie[b], cookie[b], dirty, o)
  OBVIOUS
<1>1. cookie[b] \in SessionType /\ o \in Identities
  BY TokenTypes DEF Identities
<1>2. q.browser = b /\ q.copy = cookie[b] /\ q.session = cookie[b] /\ q.who = o
  BY <1>1, SigningInAt
<1>3. req' = [req EXCEPT ![r] = q]
  BY <1>0 DEF OpenIdCallback, SigningIn
<1>4. \A x \in Providers : o \notin KindOf(x)
  BY AccountsAssumption DEF KindOf
<1>5. \A x \in Providers : /\ q.session[x] \in {cookie[b][x], None}
                           /\ q.who \in KindOf(x) => q.session[x] = None
  BY <1>2, <1>4
<1>6. /\ cookie' = cookie /\ issued' = issued /\ spent' = spent
      /\ overwritten' = overwritten /\ nextToken' = nextToken
  BY DEF OpenIdCallback
<1>7. TokensSound'
  <2>1. Begun(r, b, q)
    BY <1>2, <1>3, <1>5, <1>6 DEF Begun
  <2>2. QED BY <2>1, BegunTokens
<1>8. QED BY <1>6, <1>7

\* Logout and a missing account drop the id, not the tokens.
LEMMA DroppedTokens ==
  ASSUME TokensInv, NEW r \in Requests, NEW b \in Browsers,
         Sent(r, b, "answer", [cookie[b] EXCEPT !.id = None], TRUE),
         UNCHANGED <<spelling, app_db, nextToken, cookie, history>>
  PROVE  TokensSound' /\ spent' = spent /\ nextToken' = nextToken
<1> PICK s : s = [cookie[b] EXCEPT !.id = None]
  OBVIOUS
<1> PICK q : q = Visiting(b, "answer", cookie[b], s)
  OBVIOUS
<1>1. cookie[b] \in SessionType /\ None \notin Identities
  BY TokenTypes, AccountsAssumption
<1>2. s \in SessionType /\ \A x \in Providers : s[x] = cookie[b][x]
  BY <1>1 DEF SessionType, Providers
<1>3. q.browser = b /\ q.copy = cookie[b] /\ q.session = s /\ q.who = None
  BY <1>1, <1>2, VisitingAt
<1>4. req' = [req EXCEPT ![r] = q]
  BY DEF Sent, Visiting
<1>5. \A x \in Providers : None \notin KindOf(x)
  BY <1>1 DEF KindOf, Identities
<1>6. \A x \in Providers : /\ q.session[x] \in {cookie[b][x], None}
                           /\ q.who \in KindOf(x) => q.session[x] = None
  BY <1>2, <1>3, <1>5
<1>7. /\ cookie' = cookie /\ issued' = issued /\ spent' = spent
      /\ overwritten' = overwritten /\ nextToken' = nextToken
  BY DEF history
<1>8. TokensSound'
  <2>1. Begun(r, b, q)
    BY <1>3, <1>4, <1>6, <1>7 DEF Begun
  <2>2. QED BY <2>1, BegunTokens
<1>9. QED BY <1>7, <1>8

\* Request r becomes one without a browser and without tokens.
Tokenless(r, q) ==
  /\ req' = [req EXCEPT ![r] = q]
  /\ cookie' = cookie /\ issued' = issued /\ spent' = spent
  /\ overwritten' = overwritten
  /\ q.browser = None
  /\ \A x \in Providers : q.copy[x] = None /\ q.session[x] = None

\* A request that ends or has no browser has no token.
LEMMA NoTokens ==
  ASSUME TokensInv, NEW r \in Requests, NEW q, Tokenless(r, q)
  PROVE  TokensSound'
<1> USE DEF Tokenless
<1>1. req'[r] = q /\ \A v \in Requests \ {r} : req'[v] = req[v]
  BY TokenTypes
<1>2. \A c \in Browsers : CookieTokens(c)'
  BY DEF TokensInv, TokensSound, CookieTokens
<1>3. ASSUME NEW v \in Requests
      PROVE  OwnTokens(req[v])'
  <2>1. CASE v # r
    BY <1>1, <2>1 DEF TokensInv, TokensSound, OwnTokens
  <2>2. CASE v = r
    BY <1>1, <2>2 DEF OwnTokens
  <2>3. QED BY <2>1, <2>2
<1>4. ASSUME NEW v \in Requests
      PROVE  NewTokens(v)'
  <2>1. CASE v # r
    <3> SUFFICES ASSUME NEW x \in Providers,
                        req[v].session[x] \notin {None, req[v].copy[x]}
                 PROVE  /\ req[v].session[x] \notin spent
                        /\ \A c \in Browsers, y \in Providers : cookie[c][y] # req[v].session[x]
                        /\ \A w \in Requests, y \in Providers :
                             /\ req'[w].copy[y] # req[v].session[x]
                             /\ w # v => req'[w].session[y] # req[v].session[x]
      BY <1>1, <2>1 DEF NewTokens
    <3>1. NewTokens(v)
      BY DEF TokensInv, TokensSound
    <3>2. \A y \in Providers : /\ q.copy[y] # req[v].session[x]
                               /\ q.session[y] # req[v].session[x]
      BY <3>1
    <3>3. QED BY <1>1, <3>1, <3>2 DEF NewTokens
  <2>2. CASE v = r
    BY <1>1, <2>2 DEF NewTokens
  <2>3. QED BY <2>1, <2>2
<1>5. \A c, d \in Browsers : c # d => issued'[c] \intersect issued'[d] = {}
  BY DEF TokensInv, TokensSound
<1>6. QED BY <1>2, <1>3, <1>4, <1>5 DEF TokensSound

\* A call of the API has none.
LEMMA CreateMusicBrainzTokens ==
  ASSUME TokensInv, NEW r \in Requests, NEW u \in MbUsers, CreateMusicBrainz(r, u)
  PROVE  TokensSound' /\ spent' = spent /\ nextToken' = nextToken
<1> PICK i : i = <<u, spelling[u]>>
  OBVIOUS
<1> PICK q : q = Calling(i)
  OBVIOUS
<1>1. i \in Identities
  BY DEF TokensInv, AccountsTyped, Identities, Names
<1>2. /\ q.browser = None
      /\ \A x \in Providers : q.copy[x] = None /\ q.session[x] = None
  BY <1>1, CallingAt, NoSessionAt
<1>3. req' = [req EXCEPT ![r] = q]
  BY DEF CreateMusicBrainz, Calling
<1>4. /\ cookie' = cookie /\ issued' = issued /\ spent' = spent
      /\ overwritten' = overwritten /\ nextToken' = nextToken
  BY DEF CreateMusicBrainz, history
<1>5. TokensSound'
  BY <1>2, <1>3, <1>4, NoTokens DEF Tokenless
<1>6. QED BY <1>4, <1>5

\* Request r becomes q, with the same tokens.
SameRequest(r, q) ==
  /\ req' = [req EXCEPT ![r] = q]
  /\ cookie' = cookie /\ issued' = issued /\ spent' = spent
  /\ overwritten' = overwritten
  /\ q.copy = req[r].copy /\ q.browser = req[r].browser /\ q.who = req[r].who
  /\ \A p \in Providers : q.session[p] = req[r].session[p]

\* A request that goes on keeps its tokens.
LEMMA SameRequestTokens ==
  ASSUME TokensInv, NEW r \in Requests, NEW q, SameRequest(r, q)
  PROVE  TokensSound'
<1>1. req'[r] = q /\ \A s \in Requests \ {r} : req'[s] = req[s]
  BY TokenTypes DEF SameRequest
<1>2. ASSUME NEW s \in Requests
      PROVE  /\ req'[s].copy = req[s].copy /\ req'[s].browser = req[s].browser
             /\ req'[s].who = req[s].who
             /\ \A p \in Providers : req'[s].session[p] = req[s].session[p]
  <2>1. CASE s = r
    BY <1>1, <2>1 DEF SameRequest
  <2>2. CASE s # r
    BY <1>1, <2>2
  <2>3. QED BY <2>1, <2>2
<1>3. cookie' = cookie /\ issued' = issued /\ spent' = spent /\ overwritten' = overwritten
  BY DEF SameRequest
<1>4. QED BY <1>2, <1>3, SameTokens

\* Finding the account leaves the tokens.
LEMMA FindUserTokens ==
  ASSUME SessionsInv, TokensInv, NEW r \in Requests, FindUser(r)
  PROVE  TokensSound' /\ spent' = spent /\ nextToken' = nextToken
<1>1. req[r] \in RequestType
  BY TokenTypes
<1>2. /\ cookie' = cookie /\ issued' = issued /\ spent' = spent
      /\ overwritten' = overwritten /\ nextToken' = nextToken
  BY DEF FindUser, history
<1>3. PICK q : SameRequest(r, q)
  <2>1. CASE Found(req[r]) = {}
    <3> PICK q : q = [req[r] EXCEPT !.pc = "insert"]
      OBVIOUS
    <3>1. req' = [req EXCEPT ![r] = q]
      BY <2>1 DEF FindUser
    <3>2. /\ q.copy = req[r].copy /\ q.browser = req[r].browser /\ q.who = req[r].who
          /\ q.session = req[r].session
      BY <1>1, OnwardAt
    <3>3. SameRequest(r, q)
      BY <1>2, <3>1, <3>2 DEF SameRequest
    <3>4. QED BY <3>3
  <2>2. CASE Found(req[r]) # {}
    <3>1. PICK a \in Found(req[r]), adds \in BOOLEAN :
            /\ req' = [req EXCEPT ![r] = SignedIn(@, a, adds)]
            /\ ~ adds => req[r].who \in DOMAIN googles
      BY <2>2 DEF FindUser
    <3>2. a \in Int
      <4>1. Signing(req[r])
        BY DEF FindUser, Signing
      <4>2. a \in DOMAIN accounts /\ DOMAIN accounts \subseteq 1 .. MaxIds
        BY <4>1, FoundOwns DEF SessionsInv, AccountsTyped
      <4>3. QED BY <4>2
    <3> PICK q : q = SignedIn(req[r], a, adds)
      OBVIOUS
    <3>3. /\ q.copy = req[r].copy /\ q.browser = req[r].browser /\ q.who = req[r].who
          /\ \A p \in Providers : q.session[p] = req[r].session[p]
      BY <1>1, <3>2, SignedInAt
    <3>4. req' = [req EXCEPT ![r] = q]
      BY <3>1, TokenTypes
    <3>5. SameRequest(r, q)
      BY <1>2, <3>3, <3>4 DEF SameRequest
    <3>6. QED BY <3>5
  <2>3. QED BY <2>1, <2>2
<1>4. QED BY <1>2, <1>3, SameRequestTokens

\* Making the account leaves the tokens.
LEMMA InsertAccountTokens ==
  ASSUME SessionsInv, TokensInv, NEW r \in Requests, InsertAccount(r)
  PROVE  TokensSound' /\ spent' = spent /\ nextToken' = nextToken
<1>1. req[r] \in RequestType
  BY TokenTypes
<1>2. /\ cookie' = cookie /\ issued' = issued /\ spent' = spent
      /\ overwritten' = overwritten /\ nextToken' = nextToken
  BY DEF InsertAccount, history
<1>3. PICK q : SameRequest(r, q)
  <2>1. CASE Taken(req[r].who)
    <3> PICK q : q = [req[r] EXCEPT !.pc = "answer"]
      OBVIOUS
    <3>1. req' = [req EXCEPT ![r] = q]
      BY <2>1, TokenTypes DEF InsertAccount
    <3>2. /\ q.copy = req[r].copy /\ q.browser = req[r].browser /\ q.who = req[r].who
          /\ q.session = req[r].session
      BY <1>1, OnwardAt
    <3>3. SameRequest(r, q)
      BY <1>2, <3>1, <3>2 DEF SameRequest
    <3>4. QED BY <3>3
  <2>2. CASE ~ Taken(req[r].who)
    <3>1. nextId \in Int
      BY NextIdFree
    <3>0. PICK adds \in BOOLEAN : adds = TRUE
      OBVIOUS
    <3> PICK q : q = [SignedIn(req[r], nextId, adds) EXCEPT !.fresh = TRUE]
      OBVIOUS
    <3>2. /\ q.copy = req[r].copy /\ q.browser = req[r].browser /\ q.who = req[r].who
          /\ \A p \in Providers : q.session[p] = req[r].session[p]
      BY <1>1, <3>1, FreshAt
    <3>3. req' = [req EXCEPT ![r] = q]
      BY <2>2, <3>0, TokenTypes DEF InsertAccount, NewId
    <3>4. SameRequest(r, q)
      BY <1>2, <3>2, <3>3 DEF SameRequest
    <3>5. QED BY <3>4
  <2>3. QED BY <2>1, <2>2
<1>4. QED BY <1>2, <1>3, SameRequestTokens

\* Commit and rollback leave the tokens.
LEMMA EndedTokens ==
  ASSUME TokensInv, NEW r \in Requests, Commit(r) \/ LoginFails(r)
  PROVE  TokensSound' /\ spent' = spent /\ nextToken' = nextToken
<1>1. req[r] \in RequestType
  BY TokenTypes
<1>2. /\ cookie' = cookie /\ issued' = issued /\ spent' = spent
      /\ overwritten' = overwritten /\ nextToken' = nextToken
  BY DEF Commit, LoginFails, history
<1>3. PICK q : SameRequest(r, q)
  <2>1. PICK q : req' = [req EXCEPT ![r] = q]
                 /\ q \in {[req[r] EXCEPT !.pc = "answer"],
                           [req[r] EXCEPT !.pc = "answer", !.fresh = FALSE]}
    BY TokenTypes DEF Commit, LoginFails
  <2>2. /\ q.copy = req[r].copy /\ q.browser = req[r].browser /\ q.who = req[r].who
        /\ q.session = req[r].session
    <3>1. CASE q = [req[r] EXCEPT !.pc = "answer"]
      BY <1>1, <3>1, OnwardAt
    <3>2. CASE q = [req[r] EXCEPT !.pc = "answer", !.fresh = FALSE]
      BY <1>1, <3>2, FailedAt
    <3>3. QED BY <2>1, <3>1, <3>2
  <2>3. SameRequest(r, q)
    BY <1>2, <2>1, <2>2 DEF SameRequest
  <2>4. QED BY <2>3
<1>4. QED BY <1>2, <1>3, SameRequestTokens

\* Steps that leave the requests.
LEMMA StillTokens ==
  ASSUME TokensInv,
         \/ \E u \in MbUsers : RenameMbUser(u)
         \/ CreateAccount \/ \E b \in Browsers : NewApiKey(b)
         \/ Quiet
  PROVE  TokensSound' /\ spent' = spent /\ nextToken' = nextToken
<1>1. /\ cookie' = cookie /\ issued' = issued /\ spent' = spent /\ req' = req
      /\ overwritten' = overwritten /\ nextToken' = nextToken
  BY DEF RenameMbUser, CreateAccount, NewApiKey, Quiet, history
<1>2. QED BY <1>1, SameTokens

\* A used token was in the copy the request was sent with.
LEMMA UsedTokens ==
  ASSUME NEW q, NEW t, t \in Used(q)
  PROVE  \E p \in Providers :
           t = q.copy[p] /\ (q.session[p] # q.copy[p] \/ q.who \in KindOf(p))
BY DEF Used, KindOf

\* An answer brings a used token back only by overwriting a newer cookie.
LEMMA AnswerTokens ==
  ASSUME TokensInv, NEW r \in Requests, Answer(r)
  PROVE  TokensSound' /\ spent' \subseteq 1 .. nextToken - 1 /\ nextToken' = nextToken
<1> PICK b : b = req[r].browser
  OBVIOUS
<1>1. req' = [req EXCEPT ![r] = Idle] /\ issued' = issued /\ nextToken' = nextToken
  BY DEF Answer
<1>2. /\ Idle.browser = None
      /\ \A x \in Providers : Idle.copy[x] = None /\ Idle.session[x] = None
  BY IdleAt, NoSessionAt
<1>3. req'[r] = Idle /\ \A v \in Requests \ {r} : req'[v] = req[v]
  BY <1>1, TokenTypes
<1>4. CASE b # None /\ req[r].dirty
  <2>1. /\ cookie' = [cookie EXCEPT ![b] = req[r].session]
        /\ spent' = (spent \union Used(req[r])) \ {None}
        /\ overwritten' = IF cookie[b] # req[r].copy THEN overwritten \union {b}
                                                    ELSE overwritten
    BY <1>4 DEF Answer
  <2>2. b \in Browsers /\ b # None
    BY <1>4, TokenTypes
  <2>3. /\ cookie'[b] = req[r].session
        /\ \A c \in Browsers \ {b} : cookie'[c] = cookie[c]
    BY <2>1, <2>2 DEF TokensInv, AccountsTyped
  <2>4. OwnTokens(req[r]) /\ NewTokens(r)
    BY DEF TokensInv, TokensSound
  <2>5. \A t \in Used(req[r]) :
          /\ t # None => t \in issued[b]
          /\ \E x \in Providers : t = req[r].copy[x]
    BY <2>4, UsedTokens DEF OwnTokens
  <2>6. ASSUME NEW c \in Browsers \ {b}
        PROVE  CookieTokens(c)'
    <3>1. CookieTokens(c) /\ issued[b] \intersect issued[c] = {}
      BY <2>2 DEF TokensInv, TokensSound
    <3>2. ASSUME NEW p \in Providers, cookie[c][p] # None, cookie[c][p] \in spent'
          PROVE  c \in overwritten'
      <4>1. cookie[c][p] \in issued[c]
        BY <3>1, <3>2 DEF CookieTokens
      <4>2. cookie[c][p] \in spent
        BY <2>1, <2>5, <3>1, <3>2, <4>1
      <4>3. c \in overwritten
        BY <3>1, <3>2, <4>2 DEF CookieTokens
      <4>4. QED BY <2>1, <4>3
    <3>3. QED BY <1>1, <2>3, <3>1, <3>2 DEF CookieTokens
  <2>7. CookieTokens(b)'
    <3> DEFINE s == req[r].session
    <3>1. ASSUME NEW p \in Providers, s[p] # None, s[p] \in spent'
          PROVE  b \in overwritten'
      <4>1. CASE cookie[b] # req[r].copy
        BY <2>1, <4>1
      <4>2. CASE cookie[b] = req[r].copy
        <5>1. s[p] \notin Used(req[r])
          <6> SUFFICES ASSUME NEW x \in Providers, s[p] = req[r].copy[x],
                              s[x] # req[r].copy[x] \/ req[r].who \in KindOf(x)
                       PROVE  FALSE
            BY UsedTokens
          <6>1. x = p
            BY <2>4, <3>1 DEF OwnTokens
          <6>2. req[r].who \in KindOf(p)
            BY <6>1
          <6>3. QED BY <2>2, <2>4, <3>1, <6>2 DEF OwnTokens
        <5>2. s[p] \in spent
          BY <2>1, <3>1, <5>1
        <5>3. s[p] = req[r].copy[p]
          BY <2>4, <3>1, <5>2 DEF NewTokens
        <5>4. CookieTokens(b)
          BY <2>2 DEF TokensInv, TokensSound
        <5>5. b \in overwritten
          BY <3>1, <4>2, <5>2, <5>3, <5>4 DEF CookieTokens
        <5>6. QED BY <2>1, <5>5
      <4>3. QED BY <4>1, <4>2
    <3>2. ASSUME NEW p \in Providers, s[p] # None
          PROVE  s[p] \in issued[b] /\ \A x \in Providers \ {p} : s[p] # s[x]
      BY <2>4, <3>2 DEF OwnTokens
    <3>3. QED BY <1>1, <2>3, <3>1, <3>2 DEF CookieTokens
  <2>8. ASSUME NEW v \in Requests
        PROVE  OwnTokens(req[v])'
    <3>1. CASE v = r
      BY <1>2, <1>3, <3>1 DEF OwnTokens
    <3>2. CASE v # r
      BY <1>1, <1>3, <3>2 DEF TokensInv, TokensSound, OwnTokens
    <3>3. QED BY <3>1, <3>2
  <2>9. ASSUME NEW v \in Requests
        PROVE  NewTokens(v)'
    <3>1. CASE v = r
      BY <1>2, <1>3, <3>1 DEF NewTokens
    <3>2. CASE v # r
      <4> SUFFICES ASSUME NEW p \in Providers,
                          req[v].session[p] \notin {None, req[v].copy[p]}
                   PROVE  /\ req[v].session[p] \notin spent'
                          /\ \A c \in Browsers, x \in Providers : cookie'[c][x] # req[v].session[p]
                          /\ \A w \in Requests, x \in Providers :
                               /\ req'[w].copy[x] # req[v].session[p]
                               /\ w # v => req'[w].session[x] # req[v].session[p]
        BY <1>3, <3>2 DEF NewTokens
      <4>1. NewTokens(v)
        BY DEF TokensInv, TokensSound
      <4>2. /\ req[v].session[p] \notin spent
            /\ \A c \in Browsers, x \in Providers : cookie[c][x] # req[v].session[p]
            /\ \A w \in Requests, x \in Providers :
                 /\ req[w].copy[x] # req[v].session[p]
                 /\ w # v => req[w].session[x] # req[v].session[p]
        BY <4>1 DEF NewTokens
      <4>3. req[v].session[p] \notin spent'
        BY <2>1, <2>5, <4>2
      <4>4. \A c \in Browsers, x \in Providers : cookie'[c][x] # req[v].session[p]
        BY <2>3, <3>2, <4>2
      <4>5. ASSUME NEW w \in Requests, NEW x \in Providers
            PROVE  /\ req'[w].copy[x] # req[v].session[p]
                   /\ w # v => req'[w].session[x] # req[v].session[p]
        <5>1. CASE w = r
          BY <1>2, <1>3, <5>1
        <5>2. CASE w # r
          BY <1>3, <4>2, <5>2
        <5>3. QED BY <5>1, <5>2
      <4>6. QED BY <4>3, <4>4, <4>5
    <3>3. QED BY <3>1, <3>2
  <2>10. \A c, d \in Browsers : c # d => issued'[c] \intersect issued'[d] = {}
    BY <1>1 DEF TokensInv, TokensSound
  <2>11. spent' \subseteq 1 .. nextToken - 1
    BY <2>1, <2>2, <2>5, TokenTypes DEF TokensInv
  <2>12. \A c \in Browsers : CookieTokens(c)'
    BY <2>6, <2>7
  <2>13. QED BY <1>1, <2>8, <2>9, <2>10, <2>11, <2>12 DEF TokensSound
<1>5. CASE ~ (b # None /\ req[r].dirty)
  <2>1. cookie' = cookie /\ spent' = spent /\ overwritten' = overwritten
    BY <1>5 DEF Answer
  <2>2. Tokenless(r, Idle)
    BY <1>1, <1>2, <2>1 DEF Tokenless
  <2>3. TokensSound'
    BY <2>2, NoTokens
  <2>4. QED BY <1>1, <2>1, <2>3 DEF TokensInv
<1>6. QED BY <1>4, <1>5

\* At the start there is no token.
LEMMA TokensInit ==
  ASSUME AccountsInit
  PROVE  TokensInv
<1>1. \A b \in Browsers : cookie[b] = NoSession /\ issued[b] = {}
  BY DEF AccountsInit
<1>2. \A r \in Requests : req[r] = Idle
  BY DEF AccountsInit
<1>3. \A x \in Providers : NoSession[x] = None /\ Idle.copy[x] = None /\ Idle.session[x] = None
  BY IdleAt, NoSessionAt
<1>4. \A b \in Browsers : CookieTokens(b)
  BY <1>1, <1>3 DEF CookieTokens
<1>5. \A r \in Requests : OwnTokens(req[r]) /\ NewTokens(r)
  BY <1>2, <1>3 DEF OwnTokens, NewTokens
<1>6. AccountsTyped
  BY SessionsInit DEF SessionsInv
<1>7. spent = {}
  BY DEF AccountsInit
<1>8. QED BY <1>1, <1>4, <1>5, <1>6, <1>7 DEF TokensInv, TokensSound

\* Every step of the accounts keeps the tokens right.
LEMMA TokensStep ==
  ASSUME SessionsInv, TokensInv, AccountsNext
  PROVE  \/ TokensSound' /\ spent' = spent /\ nextToken' = nextToken
         \/ TokensSound' /\ spent' = spent /\ nextToken <= nextToken'
         \/ TokensSound' /\ spent' \subseteq 1 .. nextToken - 1 /\ nextToken' = nextToken
<1>1. ASSUME NEW r \in Requests, NEW b \in Browsers, SessionStep(r, b)
      PROVE  \/ TokensSound' /\ spent' = spent /\ nextToken' = nextToken
             \/ TokensSound' /\ spent' = spent /\ nextToken <= nextToken'
  <2>1. CASE \E p \in Providers : GenerateLoginToken(r, b, p)
    BY <2>1, GenerateTokens
  <2>2. CASE \E p \in Providers : \E t \in (1 .. nextToken - 1) \union {None}, i \in Identities :
               LoginCallback(r, b, p, t, i)
    BY <2>2, LoginCallbackTokens
  <2>3. CASE \E o \in OpenIds : OpenIdCallback(r, b, o)
    BY <2>3, OpenIdCallbackTokens
  <2>4. CASE Logout(r, b) \/ RequireUser(r, b)
    BY <2>4, DroppedTokens DEF Logout, RequireUser
  <2>5. QED BY <1>1, <2>1, <2>2, <2>3, <2>4 DEF SessionStep
<1>2. ASSUME NEW r \in Requests,
             \/ \E u \in MbUsers : CreateMusicBrainz(r, u)
             \/ FindUser(r) \/ InsertAccount(r) \/ Commit(r) \/ LoginFails(r)
      PROVE  TokensSound' /\ spent' = spent /\ nextToken' = nextToken
  BY <1>2, CreateMusicBrainzTokens, FindUserTokens, InsertAccountTokens, EndedTokens
<1>3. ASSUME NEW r \in Requests, Answer(r)
      PROVE  TokensSound' /\ spent' \subseteq 1 .. nextToken - 1 /\ nextToken' = nextToken
  BY <1>3, AnswerTokens
<1>4. ASSUME \/ \E u \in MbUsers : RenameMbUser(u)
             \/ CreateAccount \/ \E b \in Browsers : NewApiKey(b)
      PROVE  TokensSound' /\ spent' = spent /\ nextToken' = nextToken
  BY <1>4, StillTokens
<1>5. QED BY <1>1, <1>2, <1>3, <1>4 DEF AccountsNext

\* So does every step of the system.
LEMMA TokensNext ==
  ASSUME SessionsInv, TokensInv, [Next]_vars
  PROVE  TokensInv'
<1>1. \/ TokensSound' /\ spent' = spent /\ nextToken' = nextToken
      \/ TokensSound' /\ spent' = spent /\ nextToken <= nextToken'
      \/ TokensSound' /\ spent' \subseteq 1 .. nextToken - 1 /\ nextToken' = nextToken
  BY TokensStep, StillTokens, NextCases
<1>2. AccountsTyped'
  BY SessionsNext DEF SessionsInv
<1>3. spent \subseteq 1 .. nextToken - 1 /\ nextToken \in Nat /\ nextToken' \in Nat
  BY <1>2 DEF TokensInv, AccountsTyped
<1>4. spent' = spent \/ spent' \subseteq 1 .. nextToken - 1
  BY <1>1
<1>5. nextToken' = nextToken \/ nextToken <= nextToken'
  BY <1>1
<1>6. ASSUME NEW x \in 1 .. nextToken - 1
      PROVE  x \in 1 .. nextToken' - 1
  <2>1. CASE nextToken' = nextToken
    BY <2>1
  <2>2. CASE nextToken <= nextToken'
    <3>1. nextToken \in Nat /\ nextToken' \in Nat
      BY <1>3
    <3>2. PICK m, n : m = nextToken /\ n = nextToken'
      OBVIOUS
    <3>3. m \in Nat /\ n \in Nat /\ m <= n /\ x \in 1 .. m - 1
      BY <2>2, <3>1, <3>2
    <3>4. x \in 1 .. n - 1
      BY <3>3
    <3>5. QED BY <3>2, <3>4
  <2>3. QED BY <1>5, <2>1, <2>2
<1>7. ASSUME NEW x \in spent'
      PROVE  x \in 1 .. nextToken - 1
  BY <1>3, <1>4
<1>8. \A x \in spent' : x \in 1 .. nextToken' - 1
  BY <1>6, <1>7
<1>9. QED BY <1>1, <1>2, <1>8 DEF TokensInv

(* generate_login_token and check_login_token: the invariant behind TokensSpent,
   where each token may be and what was done with it. *)
THEOREM TokensInvAlways == Spec => []TokensInv
<1>1. Init => TokensInv
  BY TokensInit DEF Init
<1>2. SessionsInv /\ TokensInv /\ [Next]_vars => TokensInv'
  BY TokensNext
<1>3. QED BY <1>1, <1>2, SessionsInvAlways, PTL DEF Spec

\* A sign-in goes through with a token of the browser's cookie.
LEMMA SignInToken ==
  ASSUME TokensInv, AccountsNext, NEW r \in Requests, NEW p \in Providers,
         req[r].pc = "idle", req'[r].pc = "find", req'[r].browser # None,
         req'[r].who \in IdentitiesOf(p)
  PROVE  /\ req'[r].browser \in Browsers
         /\ req'[r].copy[p] # None
         /\ req'[r].copy[p] = cookie[req'[r].browser][p]
<1>1. \A i \in IdentitiesOf(p) : \A x \in Providers : i \in IdentitiesOf(x) => x = p
  <2>1. \A x \in Providers : IdentitiesOf(x) \subseteq KindOf(x)
    BY DEF TokensInv, AccountsTyped, IdentitiesOf, KindOf, Names
  <2>2. Names \intersect Googles = {}
    BY AccountsAssumption
  <2>3. QED BY <2>1, <2>2 DEF KindOf, Providers
<1>2. \A i \in IdentitiesOf(p) : i \notin OpenIds
  BY AccountsAssumption DEF TokensInv, AccountsTyped, IdentitiesOf, Names
<1>3. ASSUME NEW v \in Requests, NEW q, req' = [req EXCEPT ![v] = q]
      PROVE  v = r /\ req'[r] = q
  BY <1>3, TokenTypes
<1>4. ASSUME NEW v \in Requests, NEW b \in Browsers, NEW x \in Providers, NEW t,
             NEW i \in Identities, LoginCallback(v, b, x, t, i)
      PROVE  /\ req'[r].browser \in Browsers
             /\ req'[r].copy[p] # None
             /\ req'[r].copy[p] = cookie[req'[r].browser][p]
  <2> PICK s : s = [cookie[b] EXCEPT ![x] = None]
    OBVIOUS
  <2> PICK ok \in BOOLEAN : ok = LoginTokenChecked(b, x, t).ok
    BY DEF LoginTokenChecked
  <2> PICK pc \in {"find", "answer"} : pc = IF ok THEN "find" ELSE "answer"
    OBVIOUS
  <2>0. PICK dirty \in BOOLEAN : dirty = (cookie[b][x] # None)
    OBVIOUS
  <2> PICK q : q = SigningIn(b, pc, cookie[b], s, dirty, i)
    OBVIOUS
  <2>1. cookie[b] \in SessionType /\ s \in SessionType
    <3>1. cookie[b] \in SessionType
      BY TokenTypes
    <3>2. QED BY <3>1 DEF SessionType, Providers
  <2>2. q.browser = b /\ q.copy = cookie[b] /\ q.who = i /\ q.pc = pc
    BY <2>1, SigningInAt
  <2>3. req' = [req EXCEPT ![v] = q]
    <3>1. s = LoginTokenChecked(b, x, t).session
      BY DEF LoginTokenChecked
    <3>2. QED BY <1>4, <2>0, <3>1 DEF LoginCallback, SigningIn
  <2>4. v = r /\ req'[r] = q
    BY <1>3, <2>3
  <2>5. x = p /\ ok
    BY <1>1, <1>4, <2>2, <2>4 DEF LoginCallback
  <2>6. cookie[b][p] # None
    BY <2>5 DEF LoginTokenChecked
  <2>7. QED BY <2>2, <2>4, <2>6
<1>5. ASSUME NEW v \in Requests, NEW b \in Browsers, NEW o \in OpenIds, OpenIdCallback(v, b, o)
      PROVE  FALSE
  <2>0. PICK dirty \in BOOLEAN : dirty = TRUE
    OBVIOUS
  <2> PICK q : q = SigningIn(b, "find", cookie[b], cookie[b], dirty, o)
    OBVIOUS
  <2>1. cookie[b] \in SessionType /\ o \in Identities
    BY TokenTypes DEF Identities
  <2>2. q.who = o
    BY <2>1, SigningInAt
  <2>3. req' = [req EXCEPT ![v] = q]
    BY <1>5, <2>0 DEF OpenIdCallback, SigningIn
  <2>4. QED BY <1>2, <1>3, <2>2, <2>3
<1>6. ASSUME NEW v \in Requests, NEW u \in MbUsers, CreateMusicBrainz(v, u)
      PROVE  FALSE
  <2> PICK i : i = <<u, spelling[u]>>
    OBVIOUS
  <2> PICK q : q = Calling(i)
    OBVIOUS
  <2>1. i \in Identities
    BY DEF TokensInv, AccountsTyped, Identities, Names
  <2>2. q.browser = None
    BY <2>1, CallingAt
  <2>3. req' = [req EXCEPT ![v] = q]
    BY <1>6 DEF CreateMusicBrainz, Calling
  <2>4. QED BY <1>3, <2>2, <2>3
<1>7. ASSUME NEW v \in Requests, NEW b \in Browsers, NEW s, Sent(v, b, "answer", s, TRUE)
      PROVE  FALSE
  <2> PICK q : q = Visiting(b, "answer", cookie[b], s)
    OBVIOUS
  <2>1. q.pc = "answer"
    BY DEF Visiting, Idle
  <2>2. req' = [req EXCEPT ![v] = q]
    BY <1>7 DEF Sent, Visiting
  <2>3. QED BY <1>3, <2>1, <2>2
<1>8. ASSUME NEW v \in Requests,
             FindUser(v) \/ InsertAccount(v) \/ Commit(v) \/ LoginFails(v) \/ Answer(v)
      PROVE  FALSE
  <2>1. req[v].pc # "idle"
    BY <1>8 DEF FindUser, InsertAccount, Commit, LoginFails, Answer
  <2>2. PICK q : req' = [req EXCEPT ![v] = q]
    <3>1. CASE FindUser(v)
      <4>1. CASE Found(req[v]) = {}
        BY <3>1, <4>1, TokenTypes DEF FindUser
      <4>2. CASE Found(req[v]) # {}
        BY <3>1, <4>2, TokenTypes DEF FindUser
      <4>3. QED BY <4>1, <4>2
    <3>2. CASE InsertAccount(v)
      BY <3>2, TokenTypes DEF InsertAccount
    <3>3. CASE Commit(v) \/ LoginFails(v) \/ Answer(v)
      BY <3>3, TokenTypes DEF Commit, LoginFails, Answer
    <3>4. QED BY <1>8, <3>1, <3>2, <3>3
  <2>3. v = r
    BY <1>3, <2>2
  <2>4. QED BY <2>1, <2>3
<1>9. ASSUME req' = req
      PROVE  FALSE
  BY <1>9
<1>10. ASSUME NEW v \in Requests, NEW b \in Browsers, SessionStep(v, b)
       PROVE  /\ req'[r].browser \in Browsers
              /\ req'[r].copy[p] # None
              /\ req'[r].copy[p] = cookie[req'[r].browser][p]
  <2>1. CASE \E x \in Providers : \E t \in (1 .. nextToken - 1) \union {None}, i \in Identities :
               LoginCallback(v, b, x, t, i)
    BY <1>4, <2>1
  <2>2. CASE \E o \in OpenIds : OpenIdCallback(v, b, o)
    BY <1>5, <2>2
  <2>3. CASE \/ \E x \in Providers : GenerateLoginToken(v, b, x)
             \/ Logout(v, b) \/ RequireUser(v, b)
    BY <1>7, <2>3 DEF GenerateLoginToken, Logout, RequireUser
  <2>4. QED BY <1>10, <2>1, <2>2, <2>3 DEF SessionStep
<1>11. CASE \/ \E u \in MbUsers : RenameMbUser(u)
            \/ CreateAccount \/ \E b \in Browsers : NewApiKey(b)
  BY <1>9, <1>11 DEF RenameMbUser, CreateAccount, NewApiKey
<1>12. CASE \E v \in Requests :
              \/ \E b \in Browsers : SessionStep(v, b)
              \/ \E u \in MbUsers : CreateMusicBrainz(v, u)
              \/ FindUser(v) \/ InsertAccount(v) \/ Commit(v) \/ LoginFails(v) \/ Answer(v)
  BY <1>6, <1>8, <1>10, <1>12
<1>13. QED BY <1>11, <1>12 DEF AccountsNext

(* A sign-in goes through only with a token made for its browser and not used
   before, unless the answer to an overlapping request brought it back. *)
THEOREM TokensAreSpent == Spec => TokensSpent
<1>1. ASSUME TokensInv, [Next]_vars, ~ UNCHANGED avars,
             NEW r \in Requests, NEW p \in Providers,
             req'[r].browser # None, req[r].pc = "idle", req'[r].pc = "find",
             req'[r].who \in IdentitiesOf(p)
      PROVE  /\ req'[r].copy[p] \in issued[req'[r].browser]
             /\ req'[r].copy[p] \in spent => req'[r].browser \in overwritten
  <2>1. AccountsNext
    <3>1. CASE Quiet
      BY <1>1, <3>1 DEF Quiet
    <3>2. QED BY <1>1, <3>1, NextCases
  <2>2. /\ req'[r].browser \in Browsers
        /\ req'[r].copy[p] # None
        /\ req'[r].copy[p] = cookie[req'[r].browser][p]
    BY <1>1, <2>1, SignInToken
  <2>3. PICK b \in Browsers : b = req'[r].browser
    BY <2>2
  <2>4. CookieTokens(b)
    BY <1>1 DEF TokensInv, TokensSound
  <2>5. QED BY <2>2, <2>3, <2>4 DEF CookieTokens
<1>2. TokensInv /\ [Next]_vars =>
        [\A r \in Requests, p \in Providers :
           LET t == req'[r].copy[p]
               b == req'[r].browser
           IN b # None /\ req[r].pc = "idle" /\ req'[r].pc = "find"
                  /\ req'[r].who \in IdentitiesOf(p)
                => /\ t \in issued[b]
                   /\ t \in spent => b \in overwritten]_avars
  BY <1>1
<1>3. QED BY <1>2, TokensInvAlways, PTL DEF Spec, TokensSpent

-----------------------------------------------------------------------------
(* Keys *)

\* Times are natural numbers.
LEMMA TimesAre ==
  /\ TTL \in Nat /\ TTL >= 1 /\ MaxApps \in Nat /\ MaxApps >= 2 /\ Horizon \in Nat
BY TimeAssumption DEF Horizon

\* Ages are integers.
LEMMA AgesAre ==
  ASSUME KeysTyped
  PROVE  /\ \A a \in DOMAIN applications : changed[a].active \in Int /\ changed[a].inactive \in Int
         /\ \A x \in DOMAIN retired : retired[x].age \in Int
         /\ DOMAIN applications \subseteq 1 .. MaxApps
<1>1. PICK n \in 2 .. MaxApps : DOMAIN applications = 1 .. n
  BY DEF KeysTyped
<1>2. n \in Int /\ n <= MaxApps
  BY <1>1, TimesAre
<1>3. DOMAIN applications \subseteq 1 .. MaxApps
  BY <1>1, <1>2, TimesAre
<1>4. \A a \in DOMAIN applications : changed[a].active \in Int /\ changed[a].inactive \in Int
  BY <1>3, TimesAre DEF KeysTyped
<1>5. \A x \in DOMAIN retired : retired[x].age \in Int
  BY TimesAre DEF KeysTyped
<1>6. QED BY <1>3, <1>4, <1>5

\* So are those of the accounts' keys.
LEMMA RenewalsAre ==
  ASSUME SessionsInv, KeysTyped
  PROVE  \A a \in DOMAIN accounts : a \in 1 .. MaxIds /\ renewed[a] \in Int
<1>1. DOMAIN accounts \subseteq 1 .. MaxIds
  BY DEF SessionsInv, AccountsTyped
<1>2. QED BY <1>1, TimesAre DEF KeysTyped

\* A query's answer holds as long as one may look back.
LEMMA LongerAgo ==
  ASSUME SessionsInv, KeysTyped, NEW m \in Nat, NEW n \in Nat, m <= n, NEW k, NEW id
  PROVE  /\ IsApplication(k, id, m) => IsApplication(k, id, n)
         /\ IsNoApplication(k, m) => IsNoApplication(k, n)
         /\ IsAccount(k, id, m) => IsAccount(k, id, n)
         /\ IsNoAccount(k, m) => IsNoAccount(k, n)
<1>1. \A x \in Int : x <= m => x <= n
  OBVIOUS
<1>2. IsApplication(k, id, m) => IsApplication(k, id, n)
  BY <1>1, AgesAre DEF IsApplication
<1>3. IsNoApplication(k, m) => IsNoApplication(k, n)
  BY <1>1, AgesAre DEF IsNoApplication
<1>4. IsAccount(k, id, m) => IsAccount(k, id, n)
  BY <1>1, AgesAre DEF IsAccount
<1>5. IsNoAccount(k, m) => IsNoAccount(k, n)
  BY <1>1, RenewalsAre DEF IsNoAccount
<1>6. QED BY <1>2, <1>3, <1>4, <1>5

\* The same for either kind of key.
LEMMA AnswerLongerAgo ==
  ASSUME SessionsInv, KeysTyped, NEW m \in Nat, NEW n \in Nat, m <= n, NEW kind, NEW k, NEW id,
         IsAnswer(kind, k, id, m)
  PROVE  IsAnswer(kind, k, id, n)
BY LongerAgo DEF IsAnswer

\* What a key stood for within some time, it still did after a step that takes d.
Keeps(d) ==
  \A k : \A m, n \in Nat :
    n = m + d =>
      /\ \A id : IsApplication(k, id, m) => IsApplication(k, id, n)'
      /\ IsNoApplication(k, m) => IsNoApplication(k, n)'
      /\ \A id : IsAccount(k, id, m) => IsAccount(k, id, n)'
      /\ IsNoAccount(k, m) => IsNoAccount(k, n)'

\* And for one who looks back further.
Later(d) ==
  \A k : \A m, n \in Nat :
    m + d <= n =>
      /\ \A id : IsApplication(k, id, m) => IsApplication(k, id, n)'
      /\ IsNoApplication(k, m) => IsNoApplication(k, n)'
      /\ \A id : IsAccount(k, id, m) => IsAccount(k, id, n)'
      /\ IsNoAccount(k, m) => IsNoAccount(k, n)'

\* The second follows from the first.
LEMMA KeepsLater ==
  ASSUME SessionsInv, KeysTyped, NEW d \in {0, 1}, Keeps(d)
  PROVE  Later(d)
<1> SUFFICES ASSUME NEW k, NEW m \in Nat, NEW n \in Nat, m + d <= n
             PROVE  /\ \A id : IsApplication(k, id, m) => IsApplication(k, id, n)'
                    /\ IsNoApplication(k, m) => IsNoApplication(k, n)'
                    /\ \A id : IsAccount(k, id, m) => IsAccount(k, id, n)'
                    /\ IsNoAccount(k, m) => IsNoAccount(k, n)'
  BY DEF Later
<1>1. PICK x \in Nat : m <= x /\ n = x + d
  <2>1. n - d \in Nat /\ m <= n - d /\ n = (n - d) + d
    OBVIOUS
  <2>2. QED BY <2>1
<1>2. /\ \A id : IsApplication(k, id, m) => IsApplication(k, id, x)
      /\ IsNoApplication(k, m) => IsNoApplication(k, x)
      /\ \A id : IsAccount(k, id, m) => IsAccount(k, id, x)
      /\ IsNoAccount(k, m) => IsNoAccount(k, x)
  BY <1>1, LongerAgo
<1>3. /\ \A id : IsApplication(k, id, x) => IsApplication(k, id, n)'
      /\ IsNoApplication(k, x) => IsNoApplication(k, n)'
      /\ \A id : IsAccount(k, id, x) => IsAccount(k, id, n)'
      /\ IsNoAccount(k, x) => IsNoAccount(k, n)'
  BY <1>1 DEF Keeps
<1>4. QED BY <1>2, <1>3

\* An answer of either kind gets older with the step.
LEMMA AnswerLater ==
  ASSUME NEW d \in {0, 1}, Later(d), NEW kind, NEW k,
         NEW m \in Nat, NEW n \in Nat, m + d <= n, NEW id, IsAnswer(kind, k, id, m)
  PROVE  IsAnswer(kind, k, id, n)'
BY DEF Later, IsAnswer

\* The longest times only grow.
SlowestGrow ==
  /\ longest \in Nat /\ furthest \in Nat /\ longest' \in Nat /\ furthest' \in Nat
  /\ longest <= longest' /\ furthest <= furthest'

\* An entry of a cache that gets older is still right.
LEMMA EntryLater ==
  ASSUME NEW d \in {0, 1}, Later(d), SlowestGrow,
         NEW kind \in Kinds, NEW k, NEW e, NEW f, EntrySound(kind, k, e),
         f \in [id : Int \union {None}, left : 1 .. TTL],
         f.id = e.id, f.left = e.left - d
  PROVE  EntrySound(kind, k, f)'
<1>1. e \in [id : Int \union {None}, left : 1 .. TTL]
  BY DEF EntrySound
<1>2. PICK m, n : m = furthest + longest + TTL - e.left /\ n = furthest' + longest' + TTL - f.left
  OBVIOUS
<1>3. m \in Nat /\ n \in Nat /\ m + d <= n
  BY <1>1, <1>2, TimesAre DEF SlowestGrow
<1>4. IsAnswer(kind, k, e.id, m)
  BY <1>2 DEF EntrySound
<1>5. IsAnswer(kind, k, e.id, n)'
  BY <1>3, <1>4, AnswerLater
<1>6. IsAnswer(kind, k, f.id, furthest + longest + TTL - f.left)'
  BY <1>2, <1>5
<1>7. QED BY <1>6 DEF EntrySound

\* So is what a request knows.
LEMMA CallLater ==
  ASSUME NEW d \in {0, 1}, Later(d), SlowestGrow,
         NEW c \in CallType, CallSound(c), NEW e \in CallType,
         e.pc = c.pc, e.client = c.client, e.user = c.user, e.value = c.value,
         e.application = c.application, e.account = c.account, e.age <= longest',
         c.pc # "idle" => e.age = c.age + d
  PROVE  CallSound(e)'
<1>1. PICK m, n, v, w, x, y :
        /\ m = Known(c) /\ n = furthest' + longest' + TTL - 1 + e.age /\ v = furthest + c.age
        /\ w = furthest' + e.age /\ x = c.age /\ y = e.age
  OBVIOUS
<1>2. /\ m \in Nat /\ n \in Nat /\ v \in Nat /\ w \in Nat
      /\ c.pc # "idle" => m + d <= n /\ v + d <= w
  BY <1>1, TimesAre DEF Known, CallType, SlowestGrow
<1>3. c.pc # "idle" => c.client \in Nat /\ c.user \in Nat
  BY DEF CallSound
<1>4. e.pc = "client_store" => IsAnswer("client", e.client, e.value, w)'
  BY <1>1, <1>2, AnswerLater DEF CallSound
<1>5. e.pc = "user_store" => IsAnswer("user", e.user, e.value, w)'
  BY <1>1, <1>2, AnswerLater DEF CallSound
<1>6. e.pc \in {"user", "user_store", "handle"} =>
        e.application # None /\ IsApplication(e.client, e.application, n)'
  BY <1>1, <1>2 DEF CallSound, Later
<1>7. e.pc = "handle" => IsAccount(e.user, e.account, n)'
  BY <1>1, <1>2 DEF CallSound, Later
<1>8. e.pc = "refused" => IF e.application = None THEN IsNoApplication(e.client, n)'
                          ELSE IsNoAccount(e.user, n)'
  BY <1>1, <1>2 DEF CallSound, Later
<1>9. n = Known(e)' /\ w = furthest' + e.age
  BY <1>1 DEF Known
<1>10. QED BY <1>3, <1>4, <1>5, <1>6, <1>7, <1>8, <1>9 DEF CallSound

\* An earlier state of the tables answers as rightly as before.
LEMMA VersionLater ==
  ASSUME NEW d \in {0, 1}, Later(d), SlowestGrow, NEW v, VersionSound(v), NEW w,
         w.applications = v.applications, w.accounts = v.accounts, w.age = v.age + d,
         w.age <= furthest'
  PROVE  VersionSound(w)'
<1>1. w.age \in Nat /\ v.age \in Nat /\ v.age + d <= w.age
  BY DEF VersionSound
<1>2. ASSUME NEW kind \in Kinds, NEW k \in Nat
      PROVE  LET id == CheckApiKey(w, kind, k)
             IN id \in Int \union {None} /\ IsAnswer(kind, k, id, w.age)'
  <2>1. PICK id : id = CheckApiKey(v, kind, k)
    OBVIOUS
  <2>2. CheckApiKey(w, kind, k) = id
    BY <2>1 DEF CheckApiKey
  <2>3. id \in Int \union {None} /\ IsAnswer(kind, k, id, v.age)
    BY <2>1 DEF VersionSound
  <2>4. IsAnswer(kind, k, id, w.age)'
    BY <1>1, <2>3, AnswerLater
  <2>5. QED BY <2>2, <2>3, <2>4
<1>3. QED BY <1>1, <1>2 DEF VersionSound

\* The three, for a cache, a call and the replica after the step.
LEMMA EntryAt ==
  ASSUME NEW s, NEW kind, NEW k, NEW e, e = cache'[s][kind][k], EntrySound(kind, k, e)'
  PROVE  EntrySound(kind, k, cache[s][kind][k])'
BY DEF EntrySound, IsAnswer, IsApplication, IsNoApplication, IsAccount, IsNoAccount

\* The same for what a request knows.
LEMMA CallAt ==
  ASSUME NEW h, NEW c, c = call'[h], CallSound(c)'
  PROVE  CallSound(call[h])'
BY DEF CallSound, IsAnswer, IsApplication, IsNoApplication, IsAccount, IsNoAccount, Known

\* The same for what the replica has not left.
LEMMA VersionAt ==
  ASSUME NEW n, NEW v, v = behind'[n], VersionSound(v)'
  PROVE  VersionSound(behind[n])'
BY DEF VersionSound, IsAnswer, IsApplication, IsNoApplication, IsAccount, IsNoAccount
-----------------------------------------------------------------------------
(* Steps of the accounts *)

\* Every key stays with its account.
KeysStay ==
  /\ nextKey' = nextKey /\ DOMAIN accounts' = DOMAIN accounts
  /\ \A c \in DOMAIN accounts : accounts'[c].apikey = accounts[c].apikey

\* Account a, new or not, gets the next key.
KeyMade(a) ==
  /\ nextKey' = nextKey + 1 /\ DOMAIN accounts' = DOMAIN accounts \union {a}
  /\ accounts'[a].apikey = nextKey
  /\ \A c \in DOMAIN accounts \ {a} : accounts'[c].apikey = accounts[c].apikey

\* A step of the accounts makes one key at most.
LEMMA KeyChanges ==
  ASSUME SessionsInv, AccountsNext
  PROVE  KeysStay \/ \E a : KeyMade(a)
<1>1. ASSUME accounts' = accounts, nextKey' = nextKey
      PROVE  KeysStay
  BY <1>1 DEF KeysStay
<1>2. ASSUME NEW r \in Requests, NEW b \in Browsers, SessionStep(r, b)
      PROVE  KeysStay
  BY <1>1, <1>2 DEF SessionStep, GenerateLoginToken, LoginCallback, OpenIdCallback,
                    Logout, RequireUser, app_db
<1>3. ASSUME NEW r \in Requests, Commit(r)
      PROVE  KeysStay \/ \E a : KeyMade(a)
  <2>1. CASE req[r].fresh
    <3>1. KeyMade(req[r].account)
      BY <1>3, <2>1, CommitChanges DEF KeyMade
    <3>2. QED BY <3>1
  <2>2. CASE ~ req[r].fresh
    BY <1>1, <1>3, <2>2 DEF Commit
  <2>3. QED BY <2>1, <2>2
<1>4. ASSUME NEW r \in Requests,
             \/ \E b \in Browsers : SessionStep(r, b)
             \/ \E u \in MbUsers : CreateMusicBrainz(r, u)
             \/ FindUser(r) \/ InsertAccount(r) \/ Commit(r) \/ LoginFails(r) \/ Answer(r)
      PROVE  KeysStay \/ \E a : KeyMade(a)
  BY <1>1, <1>2, <1>3, <1>4
  DEF CreateMusicBrainz, FindUser, InsertAccount, LoginFails, Answer, app_db
<1>5. ASSUME CreateAccount
      PROVE  \E a : KeyMade(a)
  <2>1. PICK new, row : new = nextId /\ row = [mbuser |-> None, apikey |-> nextKey]
    OBVIOUS
  <2>2. accounts' = With(accounts, new, row) /\ nextKey' = nextKey + 1
    BY <1>5, <2>1 DEF CreateAccount, NewAccount, NewId
  <2>3. DOMAIN accounts' = DOMAIN accounts \union {new} /\ accounts'[new] = row
    BY <2>2 DEF With
  <2>4. \A c \in DOMAIN accounts \ {new} : accounts'[c] = accounts[c]
    BY <2>2 DEF With
  <2>5. row.apikey = nextKey
    BY <2>1
  <2>6. KeyMade(new)
    BY <2>2, <2>3, <2>4, <2>5 DEF KeyMade
  <2>7. QED BY <2>6
<1>6. ASSUME NEW b \in Browsers, NewApiKey(b)
      PROVE  \E a : KeyMade(a)
  <2>1. PICK a \in DOMAIN accounts : accounts' = [accounts EXCEPT ![a].apikey = nextKey]
    BY <1>6 DEF NewApiKey
  <2>2. accounts \in [DOMAIN accounts -> [mbuser : Names \union {None}, apikey : Int]]
    BY DEF SessionsInv, AccountsTyped
  <2>3. /\ DOMAIN accounts' = DOMAIN accounts /\ accounts'[a].apikey = nextKey
        /\ \A c \in DOMAIN accounts \ {a} : accounts'[c].apikey = accounts[c].apikey
    BY <2>1, <2>2
  <2>4. KeyMade(a)
    BY <1>6, <2>1, <2>3 DEF KeyMade, NewApiKey
  <2>5. QED BY <2>4
<1>7. CASE \E u \in MbUsers : RenameMbUser(u)
  BY <1>1, <1>7 DEF RenameMbUser, app_db
<1>8. QED BY <1>4, <1>5, <1>6, <1>7 DEF AccountsNext

\* The accounts of a set have a key that they did not have before.
Renewed(S) == renewed' = [x \in DOMAIN renewed |-> IF x \in S THEN 0 ELSE renewed[x]]

\* A key that an account had is retired when the account gets another.
LEMMA Retirement ==
  ASSUME SessionsInv, KeysInv, AccountStep
  PROVE  \/ KeysStay /\ retired' = retired /\ Renewed({})
         \/ \E a : KeyMade(a) /\ a \notin DOMAIN accounts /\ retired' = retired /\ Renewed({a})
         \/ \E a : /\ KeyMade(a) /\ a \in DOMAIN accounts /\ Renewed({a})
                   /\ retired' = With(retired, accounts[a].apikey, [account |-> a, age |-> 0])
<1> DEFINE replaced == {a \in DOMAIN accounts : accounts'[a].apikey # accounts[a].apikey}
           made == replaced \union (DOMAIN accounts' \ DOMAIN accounts)
<1>1. /\ retired' = IF replaced = {} THEN retired
                    ELSE LET a == CHOOSE a \in replaced : TRUE
                         IN With(retired, accounts[a].apikey, [account |-> a, age |-> 0])
      /\ Renewed(made)
  BY DEF AccountStep, KeysNoted, Renewed
<1>2. CASE KeysStay
  <2>1. replaced = {} /\ made = {}
    BY <1>2 DEF KeysStay
  <2>2. QED BY <1>1, <1>2, <2>1
<1>3. CASE \E a : KeyMade(a)
  <2>1. PICK a : KeyMade(a)
    BY <1>3
  <2>2. CASE a \notin DOMAIN accounts
    <3>1. replaced = {} /\ made = {a}
      BY <2>1, <2>2 DEF KeyMade
    <3>2. QED BY <1>1, <2>1, <2>2, <3>1
  <2>3. CASE a \in DOMAIN accounts
    <3>1. accounts[a].apikey # nextKey
      <4>1. nextKey \in Int /\ accounts[a].apikey \in 1 .. nextKey - 1
        BY <2>3 DEF SessionsInv, AccountsTyped, KeysInv, KeysTyped
      <4>2. QED BY <4>1
    <3>2. replaced = {a} /\ made = {a}
      BY <2>1, <2>3, <3>1 DEF KeyMade
    <3>3. (CHOOSE x \in replaced : TRUE) = a
      BY <3>2
    <3>4. replaced # {} /\ Renewed({a})
      BY <1>1, <3>2
    <3>5. retired' = With(retired, accounts[a].apikey, [account |-> a, age |-> 0])
      BY <1>1, <3>3, <3>4
    <3>6. QED BY <2>1, <2>3, <3>4, <3>5
  <2>4. QED BY <2>2, <2>3
<1>4. QED BY <1>2, <1>3, KeyChanges DEF AccountStep

\* An account with another key than before may have been refused just now.
LEMMA RenewalsLater ==
  ASSUME KeysInv, NEW S, Renewed(S), DOMAIN accounts' \subseteq 1 .. MaxIds,
         \A c \in DOMAIN accounts' :
           c \in S \/ (c \in DOMAIN accounts /\ accounts'[c].apikey = accounts[c].apikey)
  PROVE  /\ renewed' \in [1 .. MaxIds -> 0 .. Horizon]
         /\ \A k : \A m \in Nat : IsNoAccount(k, m) => IsNoAccount(k, m)'
<1>1. renewed \in [1 .. MaxIds -> 0 .. Horizon] /\ 0 \in 0 .. Horizon
  BY TimesAre DEF KeysInv, KeysTyped
<1>2. renewed' = [x \in 1 .. MaxIds |-> IF x \in S THEN 0 ELSE renewed[x]]
  BY <1>1 DEF Renewed
<1>3. renewed' \in [1 .. MaxIds -> 0 .. Horizon]
  BY <1>1, <1>2
<1>4. ASSUME NEW k, NEW m \in Nat, IsNoAccount(k, m), NEW c \in DOMAIN accounts',
             accounts'[c].apikey = k
      PROVE  renewed'[c] <= m
  <2>1. c \in 1 .. MaxIds
    OBVIOUS
  <2>2. CASE c \in S
    <3>1. renewed'[c] = 0
      BY <1>2, <2>1, <2>2
    <3>2. QED BY <3>1
  <2>3. CASE c \notin S
    <3>1. renewed'[c] = renewed[c] /\ c \in DOMAIN accounts /\ accounts[c].apikey = k
      BY <1>2, <1>4, <2>1, <2>3
    <3>2. QED BY <1>4, <3>1 DEF IsNoAccount
  <2>4. QED BY <2>2, <2>3
<1>5. QED BY <1>3, <1>4 DEF IsNoAccount

\* What the invariant says of the accounts' keys.
LEMMA AccountKeys ==
  ASSUME SessionsInv, KeysInv
  PROVE  /\ nextKey \in Nat \ {0}
         /\ \A a \in DOMAIN accounts : accounts[a].apikey \in 1 .. nextKey - 1
         /\ \A a, b \in DOMAIN accounts : accounts[a].apikey = accounts[b].apikey => a = b
         /\ DOMAIN retired \subseteq 1 .. nextKey - 1
         /\ retired \in [DOMAIN retired -> [account : DOMAIN accounts, age : 0 .. Horizon]]
         /\ \A a \in DOMAIN accounts : accounts[a].apikey \notin DOMAIN retired
BY DEF SessionsInv, AccountsTyped, KeysInv, KeysTyped

\* The keys of accounts, after a step of the accounts.
LEMMA AccountStepKeys ==
  ASSUME SessionsInv, KeysInv, AccountStep, AccountsTyped'
  PROVE  /\ nextKey' \in {nextKey, nextKey + 1}
         /\ \A a \in DOMAIN accounts' : accounts'[a].apikey \in 1 .. nextKey' - 1
         /\ \A a, b \in DOMAIN accounts' : accounts'[a].apikey = accounts'[b].apikey => a = b
         /\ DOMAIN retired' \subseteq 1 .. nextKey' - 1
         /\ retired' \in [DOMAIN retired' -> [account : DOMAIN accounts', age : 0 .. Horizon]]
         /\ \A a \in DOMAIN accounts' : accounts'[a].apikey \notin DOMAIN retired'
         /\ renewed' \in [1 .. MaxIds -> 0 .. Horizon]
         /\ \A k : \A m \in Nat : \A id : IsAccount(k, id, m) => IsAccount(k, id, m)'
         /\ \A k : \A m \in Nat : IsNoAccount(k, m) => IsNoAccount(k, m)'
<1>0. PICK n : n = nextKey
  OBVIOUS
<1>1. /\ n \in Nat \ {0} /\ n \notin 0 .. n - 1 /\ n \notin 1 .. n - 1
      /\ n \in 1 .. n + 1 - 1
      /\ \A k \in 1 .. n - 1 : k \in 1 .. n + 1 - 1
  BY <1>0, AccountKeys
<1>5. DOMAIN accounts' \subseteq 1 .. MaxIds
  BY DEF AccountsTyped
<1>2. CASE KeysStay /\ retired' = retired /\ Renewed({})
  <2>1. /\ renewed' \in [1 .. MaxIds -> 0 .. Horizon]
        /\ \A k : \A m \in Nat : IsNoAccount(k, m) => IsNoAccount(k, m)'
    BY <1>2, <1>5, RenewalsLater DEF KeysStay
  <2>2. \A k : \A m \in Nat : \A id : IsAccount(k, id, m) => IsAccount(k, id, m)'
    BY <1>2 DEF KeysStay, IsAccount
  <2>3. QED BY <1>2, <2>1, <2>2, AccountKeys DEF KeysStay
<1>3. CASE \E a : KeyMade(a) /\ a \notin DOMAIN accounts /\ retired' = retired /\ Renewed({a})
  <2>1. PICK a : KeyMade(a) /\ a \notin DOMAIN accounts /\ retired' = retired /\ Renewed({a})
    BY <1>3
  <2>2. /\ nextKey' = n + 1 /\ DOMAIN accounts' = DOMAIN accounts \union {a}
        /\ accounts'[a].apikey = n
        /\ \A c \in DOMAIN accounts : accounts'[c].apikey = accounts[c].apikey
    BY <1>0, <2>1 DEF KeyMade
  <2>3. /\ \A c \in DOMAIN accounts : accounts[c].apikey \in 1 .. n - 1
        /\ DOMAIN retired \subseteq 1 .. n - 1
    BY <1>0, AccountKeys
  <2>4. /\ \A c \in DOMAIN accounts' : accounts'[c].apikey \in 1 .. nextKey' - 1
        /\ DOMAIN retired' \subseteq 1 .. nextKey' - 1
    BY <1>1, <2>1, <2>2, <2>3
  <2>5. \A c \in DOMAIN accounts : accounts'[c].apikey # n
    BY <1>1, <2>2, <2>3
  <2>6. \A c, d \in DOMAIN accounts' : accounts'[c].apikey = accounts'[d].apikey => c = d
    BY <2>2, <2>5, AccountKeys
  <2>7. retired' \in [DOMAIN retired' -> [account : DOMAIN accounts', age : 0 .. Horizon]]
    BY <2>1, <2>2, AccountKeys
  <2>8. n \notin DOMAIN retired
    BY <1>1, <2>3
  <2>9. \A c \in DOMAIN accounts' : accounts'[c].apikey \notin DOMAIN retired'
    BY <2>1, <2>2, <2>8, AccountKeys
  <2>10. \A k : \A m \in Nat : \A id : IsAccount(k, id, m) => IsAccount(k, id, m)'
    BY <2>1, <2>2 DEF IsAccount
  <2>11. /\ renewed' \in [1 .. MaxIds -> 0 .. Horizon]
         /\ \A k : \A m \in Nat : IsNoAccount(k, m) => IsNoAccount(k, m)'
    BY <1>5, <2>1, <2>2, RenewalsLater
  <2>12. QED BY <1>0, <2>2, <2>4, <2>6, <2>7, <2>9, <2>10, <2>11
<1>4. CASE \E a : /\ KeyMade(a) /\ a \in DOMAIN accounts /\ Renewed({a})
                  /\ retired' = With(retired, accounts[a].apikey, [account |-> a, age |-> 0])
  <2>1. PICK a : /\ KeyMade(a) /\ a \in DOMAIN accounts /\ Renewed({a})
                 /\ retired' = With(retired, accounts[a].apikey, [account |-> a, age |-> 0])
    BY <1>4
  <2>2. /\ nextKey' = n + 1 /\ DOMAIN accounts' = DOMAIN accounts
        /\ accounts'[a].apikey = n
        /\ \A c \in DOMAIN accounts \ {a} : accounts'[c].apikey = accounts[c].apikey
    BY <1>0, <2>1 DEF KeyMade
  <2>3. PICK old, row : old = accounts[a].apikey /\ row = [account |-> a, age |-> 0]
    OBVIOUS
  <2>4. retired' = With(retired, old, row)
    BY <2>1, <2>3
  <2>5. /\ DOMAIN retired' = DOMAIN retired \union {old} /\ retired'[old] = row
        /\ \A k \in DOMAIN retired \ {old} : retired'[k] = retired[k]
        /\ retired' = [k \in DOMAIN retired' |-> retired'[k]]
    BY <2>4 DEF With
  <2>6. /\ \A c \in DOMAIN accounts : accounts[c].apikey \in 1 .. n - 1
        /\ DOMAIN retired \subseteq 1 .. n - 1 /\ old \in 1 .. n - 1
    BY <1>0, <2>1, <2>3, AccountKeys
  <2>7. old \notin DOMAIN retired
    BY <2>1, <2>3, AccountKeys
  <2>8. /\ \A c \in DOMAIN accounts' : accounts'[c].apikey \in 1 .. nextKey' - 1
        /\ DOMAIN retired' \subseteq 1 .. nextKey' - 1
    BY <1>1, <2>2, <2>5, <2>6
  <2>9. \A c \in DOMAIN accounts \ {a} : accounts'[c].apikey # n
    BY <1>1, <2>2, <2>6
  <2>10. \A c, d \in DOMAIN accounts' : accounts'[c].apikey = accounts'[d].apikey => c = d
    BY <2>2, <2>9, AccountKeys
  <2>11. retired' \in [DOMAIN retired' -> [account : DOMAIN accounts', age : 0 .. Horizon]]
    <3>1. row \in [account : DOMAIN accounts', age : 0 .. Horizon]
      BY <2>1, <2>2, <2>3, TimesAre
    <3>2. \A k \in DOMAIN retired : retired[k] \in [account : DOMAIN accounts', age : 0 .. Horizon]
      BY <2>2, AccountKeys
    <3>3. \A k \in DOMAIN retired' : retired'[k] \in [account : DOMAIN accounts', age : 0 .. Horizon]
      BY <2>5, <2>7, <3>1, <3>2
    <3>4. QED BY <2>5, <3>3
  <2>12. n \notin DOMAIN retired'
    BY <1>1, <2>5, <2>6
  <2>13. \A c \in DOMAIN accounts \ {a} : accounts[c].apikey # old
    BY <2>1, <2>3, AccountKeys
  <2>14. \A c \in DOMAIN accounts' : accounts'[c].apikey \notin DOMAIN retired'
    BY <2>2, <2>5, <2>12, <2>13, AccountKeys
  <2>15. ASSUME NEW k, NEW m \in Nat, NEW id, IsAccount(k, id, m)
         PROVE  IsAccount(k, id, m)'
    <3>1. CASE id \in DOMAIN accounts /\ accounts[id].apikey = k /\ id # a
      BY <2>2, <3>1 DEF IsAccount
    <3>2. CASE accounts[id].apikey = k /\ id = a
      <4>1. k = old
        BY <2>3, <3>2
      <4>2. k \in DOMAIN retired' /\ retired'[k] = row
        BY <2>5, <4>1
      <4>3. retired'[k].account = id /\ retired'[k].age = 0
        BY <2>3, <3>2, <4>2
      <4>4. 0 <= m
        OBVIOUS
      <4>5. QED BY <4>2, <4>3, <4>4 DEF IsAccount
    <3>3. CASE k \in DOMAIN retired /\ retired[k].account = id /\ retired[k].age <= m
      <4>1. k \in DOMAIN retired' /\ retired'[k] = retired[k]
        BY <2>5, <2>7, <3>3
      <4>2. QED BY <3>3, <4>1 DEF IsAccount
    <3>4. QED BY <2>15, <3>1, <3>2, <3>3 DEF IsAccount
  <2>16. /\ renewed' \in [1 .. MaxIds -> 0 .. Horizon]
         /\ \A k : \A m \in Nat : IsNoAccount(k, m) => IsNoAccount(k, m)'
    BY <1>5, <2>1, <2>2, RenewalsLater
  <2>17. QED BY <1>0, <2>2, <2>8, <2>10, <2>11, <2>14, <2>15, <2>16
<1>6. QED BY <1>2, <1>3, <1>4, Retirement

-----------------------------------------------------------------------------
(* Sequences *)

\* A function on the first numbers is a sequence.
LEMMA SeqOf ==
  ASSUME NEW s, s = [n \in 1 .. Len(s) |-> s[n]], Len(s) \in Nat, NEW x
  PROVE  \E S : s \in Seq(S) /\ x \in S
<1> DEFINE S == {s[n] : n \in 1 .. Len(s)} \union {x}
<1>1. s \in [1 .. Len(s) -> S]
  OBVIOUS
<1>2. s \in Seq(S)
  BY <1>1
<1>3. QED BY <1>2

\* A sequence is the function of its elements.
LEMMA SeqIs ==
  ASSUME NEW S, NEW s \in Seq(S)
  PROVE  /\ Len(s) \in Nat /\ s = [n \in 1 .. Len(s) |-> s[n]]
         /\ s # << >> => Len(s) # 0
<1>1. /\ Len(s) \in Nat /\ s \in [1 .. Len(s) -> S]
      /\ s # << >> => Len(s) # 0
  BY LenProperties, EmptySeq
<1>2. QED BY <1>1

\* A sequence with one more element.
LEMMA AppendAt ==
  ASSUME NEW S, NEW s \in Seq(S), NEW x \in S
  PROVE  LET t == Append(s, x)
         IN /\ Len(t) = Len(s) + 1
            /\ \A n \in 1 .. Len(s) : t[n] = s[n]
            /\ t[Len(s) + 1] = x
            /\ Len(t) \in Nat /\ t = [n \in 1 .. Len(t) |-> t[n]]
<1> PICK t : t = Append(s, x)
  OBVIOUS
<1>1. /\ t \in Seq(S) /\ Len(t) = Len(s) + 1
      /\ \A n \in 1 .. Len(s) : t[n] = s[n]
      /\ t[Len(s) + 1] = x
  BY AppendProperties
<1>2. Len(t) \in Nat /\ t = [n \in 1 .. Len(t) |-> t[n]]
  BY <1>1, SeqIs
<1>3. QED BY <1>1, <1>2

\* A sequence without its first element.
LEMMA TailAt ==
  ASSUME NEW S, NEW s \in Seq(S), s # << >>
  PROVE  LET t == Tail(s)
         IN /\ Len(t) \in Nat /\ t = [n \in 1 .. Len(t) |-> t[n]]
            /\ \A n \in 1 .. Len(t) : n + 1 \in 1 .. Len(s) /\ t[n] = s[n + 1]
            /\ 1 \in 1 .. Len(s) /\ Head(s) = s[1]
<1> PICK t, len, m : t = Tail(s) /\ len = Len(s) /\ m = Len(t)
  OBVIOUS
<1>1. /\ t \in Seq(S) /\ m = len - 1
      /\ \A n \in 1 .. m : t[n] = s[n + 1]
  BY HeadTailProperties
<1>2. m \in Nat /\ t = [n \in 1 .. m |-> t[n]] /\ len \in Nat /\ len # 0
  BY <1>1, SeqIs
<1>3. /\ \A n \in 1 .. m : n + 1 \in 1 .. len
      /\ 1 \in 1 .. len
  BY <1>1, <1>2
<1>4. Head(s) = s[1]
  OBVIOUS
<1>5. QED BY <1>1, <1>2, <1>3, <1>4

-----------------------------------------------------------------------------
(* Queries *)

\* The answer to a query is right when it is given.
LEMMA AppKeyAnswer ==
  ASSUME KeysTyped, NEW k, NEW m \in Nat
  PROVE  /\ CheckAppApiKey(applications, k) \in Int \union {None}
         /\ IsAnswer("client", k, CheckAppApiKey(applications, k), m)
<1> PICK found : found = LookupApplicationIdByApikey(applications, k)
  OBVIOUS
<1>1. \A a : a \in found <=> a \in DOMAIN applications /\ applications[a].apikey = k
                               /\ applications[a].active
  BY DEF LookupApplicationIdByApikey
<1>2. \A a \in DOMAIN applications : a \in Int
  BY TimesAre DEF KeysTyped
<1>3. None \notin Int
  BY AccountsAssumption
<1>4. CASE found # {}
  <2>1. PICK a : a = CHOOSE x \in found : TRUE
    OBVIOUS
  <2>2. a \in found
    BY <1>4, <2>1
  <2>3. CheckAppApiKey(applications, k) = a
    BY <1>4, <2>1 DEF CheckAppApiKey
  <2>4. a \in Int /\ a # None /\ IsApplication(k, a, m)
    BY <1>1, <1>2, <1>3, <2>2 DEF IsApplication
  <2>5. QED BY <2>3, <2>4 DEF IsAnswer
<1>5. CASE found = {} /\ k = DemoKey
  <2>1. CheckAppApiKey(applications, k) = DemoApplication
    BY <1>5 DEF CheckAppApiKey, CheckDemoClientApiKey
  <2>2. DemoApplication \in Int /\ DemoApplication # None /\ IsApplication(k, DemoApplication, m)
    BY <1>3, <1>5 DEF DemoApplication, IsApplication
  <2>3. QED BY <2>1, <2>2 DEF IsAnswer
<1>6. CASE found = {} /\ k # DemoKey
  <2>1. CheckAppApiKey(applications, k) = None
    BY <1>6 DEF CheckAppApiKey, CheckDemoClientApiKey
  <2>2. IsNoApplication(k, m)
    BY <1>1, <1>6 DEF IsNoApplication
  <2>3. QED BY <2>1, <2>2 DEF IsAnswer
<1>7. QED BY <1>4, <1>5, <1>6

\* So is that to a query for an account.
LEMMA UserKeyAnswer ==
  ASSUME SessionsInv, NEW k, NEW m \in Nat
  PROVE  /\ CheckUserApiKey(accounts, k) \in Int \union {None}
         /\ IsAnswer("user", k, CheckUserApiKey(accounts, k), m)
<1> PICK found : found = {a \in DOMAIN accounts : accounts[a].apikey = k}
  OBVIOUS
<1>1. CASE found = {}
  <2>1. CheckUserApiKey(accounts, k) = None
    BY <1>1 DEF CheckUserApiKey
  <2>2. IsNoAccount(k, m)
    BY <1>1 DEF IsNoAccount
  <2>3. QED BY <2>1, <2>2 DEF IsAnswer
<1>2. CASE found # {}
  <2>1. PICK a : a = CHOOSE x \in found : TRUE
    OBVIOUS
  <2>2. a \in found
    BY <1>2, <2>1
  <2>3. CheckUserApiKey(accounts, k) = a
    BY <1>2, <2>1 DEF CheckUserApiKey
  <2>4. a \in DOMAIN accounts /\ DOMAIN accounts \subseteq 1 .. MaxIds
    BY <2>2 DEF SessionsInv, AccountsTyped
  <2>5. a \in Int
    BY <2>4
  <2>6. IsAccount(k, a, m)
    BY <2>2 DEF IsAccount
  <2>7. a # None
    BY <2>5, AccountsAssumption
  <2>8. QED BY <2>3, <2>5, <2>6, <2>7 DEF IsAnswer
<1>3. QED BY <1>1, <1>2

\* So are all answers of the tables as they are.
LEMMA TablesSound ==
  ASSUME SessionsInv, KeysTyped, NEW v, v = Tables
  PROVE  VersionSound(v)
<1>1. /\ v.applications = applications /\ v.accounts = accounts /\ v.age = 0
      /\ 0 \in Nat /\ 0 <= furthest
  BY DEF Tables, KeysTyped
<1>2. ASSUME NEW kind \in Kinds, NEW k \in Nat
      PROVE  /\ CheckApiKey(v, kind, k) \in Int \union {None}
             /\ IsAnswer(kind, k, CheckApiKey(v, kind, k), 0)
  BY <1>1, AppKeyAnswer, UserKeyAnswer DEF CheckApiKey, Kinds
<1>3. QED BY <1>1, <1>2 DEF VersionSound

-----------------------------------------------------------------------------
(* The replica *)

\* A step that leaves versions sound, one after the other.
LEMMA ReplicaStill ==
  ASSUME Later(0), SlowestGrow, NEW b, b = behind', Len(b) \in Nat,
         b = [n \in 1 .. Len(b) |-> b[n]], \A n \in 1 .. Len(b) : VersionSound(b[n])
  PROVE  ReplicaSound'
<1>1. ASSUME NEW n \in 1 .. Len(b)
      PROVE  VersionSound(behind[n])'
  <2>1. PICK v : v = b[n]
    OBVIOUS
  <2>2. VersionSound(v)
    BY <2>1
  <2>3. v.age + 0 = v.age /\ v.age <= furthest'
    BY <2>2 DEF VersionSound, SlowestGrow
  <2>4. VersionSound(v)'
    BY <2>2, <2>3, VersionLater
  <2>5. QED BY <2>1, <2>4, VersionAt
<1>2. QED BY <1>1 DEF ReplicaSound

\* What the invariant says of the replica, with short names.
LEMMA ReplicaNow ==
  ASSUME ReplicaSound, NEW b, b = behind
  PROVE  /\ Len(b) \in Nat /\ b = [n \in 1 .. Len(b) |-> b[n]]
         /\ \A n \in 1 .. Len(b) : VersionSound(b[n])
BY DEF ReplicaSound

\* A commit leaves the replica with the tables of before.
LEMMA CommittedSound ==
  ASSUME SessionsInv, KeysInv, Later(0), SlowestGrow, Committed
  PROVE  ReplicaSound'
<1>1. PICK b, v, c : b = behind /\ v = Tables /\ c = behind'
  OBVIOUS
<1>2. /\ Len(b) \in Nat /\ b = [n \in 1 .. Len(b) |-> b[n]]
      /\ \A n \in 1 .. Len(b) : VersionSound(b[n])
  BY <1>1, ReplicaNow DEF KeysInv
<1>3. CASE c = b
  BY <1>1, <1>2, <1>3, ReplicaStill
<1>4. CASE c = Append(b, v)
  <2>1. PICK S : b \in Seq(S) /\ v \in S
    BY <1>2, SeqOf
  <2>2. /\ Len(c) = Len(b) + 1
        /\ \A n \in 1 .. Len(b) : c[n] = b[n]
        /\ c[Len(b) + 1] = v
        /\ Len(c) \in Nat /\ c = [n \in 1 .. Len(c) |-> c[n]]
    BY <1>4, <2>1, AppendAt
  <2>3. VersionSound(v)
    BY <1>1, TablesSound DEF KeysInv
  <2>4. ASSUME NEW n \in 1 .. Len(c)
        PROVE  VersionSound(c[n])
    <3>1. n \in 1 .. Len(b) \/ n = Len(b) + 1
      BY <1>2, <2>2
    <3>2. CASE n \in 1 .. Len(b)
      BY <1>2, <2>2, <3>2
    <3>3. CASE n = Len(b) + 1
      BY <2>2, <2>3, <3>3
    <3>4. QED BY <3>1, <3>2, <3>3
  <2>5. QED BY <1>1, <2>2, <2>4, ReplicaStill
<1>5. QED BY <1>1, <1>3, <1>4 DEF Committed

\* A step that no greenlet, nor the clock, takes, and that leaves the replica sound.
LEMMA HandlersStill ==
  ASSUME SessionsInv, KeysInv, Later(0), KeysTyped', ReplicaSound',
         cache' = cache, call' = call, slowest' = slowest
  PROVE  KeysInv'
<1>1. SlowestGrow
  BY DEF slowest, SlowestGrow, KeysInv, KeysTyped
<1>2. ASSUME NEW s \in Servers, NEW kind \in Kinds, NEW k \in DOMAIN cache'[s][kind]
      PROVE  EntrySound(kind, k, cache[s][kind][k])'
  <2>1. PICK e : e = cache[s][kind][k]
    OBVIOUS
  <2>2. EntrySound(kind, k, e)
    BY <2>1 DEF KeysInv, CachesSound
  <2>3. e \in [id : Int \union {None}, left : 1 .. TTL] /\ e.left - 0 = e.left
    BY <2>2, TimesAre DEF EntrySound
  <2>4. EntrySound(kind, k, e)'
    BY <1>1, <2>2, <2>3, EntryLater
  <2>5. QED BY <2>1, <2>4, EntryAt
<1>3. ASSUME NEW h \in Handlers
      PROVE  CallSound(call[h])'
  <2>1. PICK c : c = call[h]
    OBVIOUS
  <2>2. c \in CallType /\ CallSound(c)
    BY <2>1 DEF KeysInv, KeysTyped
  <2>3. c.age = c.age + 0 /\ c.age <= longest'
    BY <2>2 DEF CallType, CallSound, slowest
  <2>4. CallSound(c)'
    BY <1>1, <2>2, <2>3, CallLater
  <2>5. QED BY <2>1, <2>4, CallAt
<1>4. CachesSound'
  BY <1>2 DEF CachesSound
<1>5. QED BY <1>3, <1>4 DEF KeysInv

\* A commit to the tables.
LEMMA CommitStill ==
  ASSUME SessionsInv, KeysInv, Keeps(0), KeysTyped', Committed,
         cache' = cache, call' = call, slowest' = slowest
  PROVE  KeysInv'
<1>1. Later(0) /\ SlowestGrow
  BY KeepsLater DEF slowest, SlowestGrow, KeysInv, KeysTyped
<1>2. ReplicaSound'
  BY <1>1, CommittedSound
<1>3. QED BY <1>1, <1>2, HandlersStill

\* Keys that were made stay made.
LEMMA KeysGrow ==
  ASSUME nextKey \in Nat, nextKey' \in Nat, nextKey <= nextKey'
  PROVE  \A k \in 1 .. nextKey - 1 : k \in 1 .. nextKey' - 1
<1>1. PICK m, n : m = nextKey /\ n = nextKey'
  OBVIOUS
<1>2. m \in Nat /\ n \in Nat /\ m <= n
  BY <1>1
<1>3. \A k \in 1 .. m - 1 : k \in 1 .. n - 1
  BY <1>2
<1>4. QED BY <1>1, <1>3

\* A step of the accounts leaves every cached answer right, or retires its key.
LEMMA AccountStepInv ==
  ASSUME SessionsInv, KeysInv, AccountStep, AccountsTyped'
  PROVE  KeysInv'
<1>1. /\ applications' = applications /\ cache' = cache /\ call' = call
      /\ changed' = changed /\ slowest' = slowest /\ Committed
      /\ nextKey \in Nat /\ nextKey' \in {nextKey, nextKey + 1}
  BY AccountStepKeys, AccountKeys DEF AccountStep, KeysNoted
<1>2. nextKey' \in Nat /\ nextKey <= nextKey'
  BY <1>1
<1>3. Keeps(0)
  <2> SUFFICES ASSUME NEW k, NEW m \in Nat, NEW n \in Nat, n = m + 0
               PROVE  /\ \A id : IsApplication(k, id, m) => IsApplication(k, id, n)'
                      /\ IsNoApplication(k, m) => IsNoApplication(k, n)'
                      /\ \A id : IsAccount(k, id, m) => IsAccount(k, id, n)'
                      /\ IsNoAccount(k, m) => IsNoAccount(k, n)'
    BY DEF Keeps
  <2>1. n = m
    OBVIOUS
  <2>2. /\ \A id : IsAccount(k, id, m) => IsAccount(k, id, m)'
        /\ IsNoAccount(k, m) => IsNoAccount(k, m)'
    BY AccountStepKeys
  <2>3. /\ \A id : IsApplication(k, id, m) => IsApplication(k, id, m)'
        /\ IsNoApplication(k, m) => IsNoApplication(k, m)'
    BY <1>1 DEF IsApplication, IsNoApplication
  <2>4. QED BY <2>1, <2>2, <2>3 DEF IsApplication, IsNoApplication, IsAccount, IsNoAccount
<1>4. KeysTyped'
  <2>1. \A k \in 1 .. nextKey - 1 : k \in 1 .. nextKey' - 1
    BY <1>1, <1>2, KeysGrow
  <2>2. applications \in [DOMAIN applications ->
           [apikey : 1 .. nextKey' - 1, active : BOOLEAN, account_id : Int]]
    BY <2>1 DEF KeysInv, KeysTyped
  <2>3. QED BY <1>1, <2>2, AccountStepKeys DEF KeysInv, KeysTyped, slowest
<1>5. QED BY <1>1, <1>3, <1>4, CommitStill

-----------------------------------------------------------------------------
(* Steps of the applications *)

\* A new application has a new key, which nobody can have been refused before.
LEMMA InsertApplicationInv ==
  ASSUME SessionsInv, KeysInv, NEW account, InsertApplication(account)
  PROVE  KeysInv'
<1>1. PICK n \in 2 .. MaxApps : DOMAIN applications = 1 .. n
  BY DEF KeysInv, KeysTyped
<1>2. Cardinality(DOMAIN applications) = n
  <2>1. n \in Nat
    BY TimesAre
  <2>2. Cardinality(1 .. n) = n
    BY <2>1, FS_Interval
  <2>3. QED BY <1>1, <2>2
<1>3. PICK key, row : key = nextKey /\ row = [apikey |-> key, active |-> TRUE, account_id |-> account]
  OBVIOUS
<1>4. /\ n + 1 <= MaxApps /\ nextKey' = nextKey + 1
      /\ applications' = With(applications, n + 1, row)
      /\ account \in DOMAIN accounts
      /\ accounts' = accounts /\ retired' = retired /\ renewed' = renewed
      /\ changed' = [changed EXCEPT ![n + 1].inactive = 0]
      /\ cache' = cache /\ call' = call /\ slowest' = slowest /\ Committed
  BY <1>2, <1>3 DEF InsertApplication
<1>5. /\ key \in Nat \ {0} /\ account \in Int /\ nextKey' = key + 1
      /\ key \notin 0 .. key - 1 /\ key \in 1 .. key + 1 - 1
      /\ \A k \in 1 .. key - 1 : k \in 1 .. key + 1 - 1
  <2>1. key \in Nat \ {0} /\ nextKey' = key + 1
    BY <1>3, <1>4, AccountKeys
  <2>2. account \in Int
    BY <1>4 DEF SessionsInv, AccountsTyped
  <2>3. /\ key \notin 0 .. key - 1 /\ key \in 1 .. key + 1 - 1
        /\ \A k \in 1 .. key - 1 : k \in 1 .. key + 1 - 1
    BY <2>1
  <2>4. QED BY <2>1, <2>2, <2>3
<1>6. /\ DOMAIN applications' = DOMAIN applications \union {n + 1}
      /\ applications'[n + 1] = row
      /\ \A a \in DOMAIN applications \ {n + 1} : applications'[a] = applications[a]
      /\ applications' = [a \in DOMAIN applications' |-> applications'[a]]
  BY <1>4 DEF With
<1>7. /\ n + 1 \notin DOMAIN applications /\ n + 1 \in 2 .. MaxApps
      /\ DOMAIN applications' = 1 .. n + 1
  <2>1. n \in Nat /\ 2 <= n /\ n + 1 <= MaxApps
    BY <1>1, <1>4, TimesAre
  <2>2. n + 1 \notin 1 .. n /\ 1 .. n + 1 = (1 .. n) \union {n + 1}
    BY <2>1
  <2>3. n + 1 \in 2 .. MaxApps
    BY <2>1, TimesAre
  <2>4. QED BY <1>1, <1>6, <2>2, <2>3
<1>12. /\ changed' \in [1 .. MaxApps -> [active : 0 .. Horizon, inactive : 0 .. Horizon]]
       /\ \A a \in 1 .. MaxApps \ {n + 1} : changed'[a] = changed[a]
       /\ changed'[n + 1].inactive = 0
  <2>1. changed \in [1 .. MaxApps -> [active : 0 .. Horizon, inactive : 0 .. Horizon]]
    BY DEF KeysInv, KeysTyped
  <2>2. 0 \in 0 .. Horizon /\ n + 1 \in 1 .. MaxApps
    <3>1. \A x \in 2 .. MaxApps : x \in 1 .. MaxApps
      BY TimesAre
    <3>2. QED BY <1>7, <3>1, TimesAre
  <2>3. QED BY <1>4, <2>1, <2>2
<1>8. Keeps(0)
  <2> SUFFICES ASSUME NEW k, NEW m \in Nat, NEW x \in Nat, x = m + 0
               PROVE  /\ \A id : IsApplication(k, id, m) => IsApplication(k, id, x)'
                      /\ IsNoApplication(k, m) => IsNoApplication(k, x)'
                      /\ \A id : IsAccount(k, id, m) => IsAccount(k, id, x)'
                      /\ IsNoAccount(k, m) => IsNoAccount(k, x)'
    BY DEF Keeps
  <2>1. x = m /\ 0 <= m
    OBVIOUS
  <2>2. \A a \in DOMAIN applications : changed'[a] = changed[a]
    BY <1>7, <1>12, AgesAre DEF KeysInv
  <2>3. /\ \A id : IsAccount(k, id, m) => IsAccount(k, id, m)'
        /\ IsNoAccount(k, m) => IsNoAccount(k, m)'
    BY <1>4 DEF IsAccount, IsNoAccount
  <2>4. \A id : IsApplication(k, id, m) => IsApplication(k, id, m)'
    BY <1>6, <1>7, <2>2 DEF IsApplication
  <2>5. IsNoApplication(k, m) => IsNoApplication(k, m)'
    BY <1>6, <1>7, <1>12, <2>1, <2>2 DEF IsNoApplication
  <2>6. QED BY <2>1, <2>3, <2>4, <2>5 DEF IsApplication, IsNoApplication, IsAccount, IsNoAccount
<1>9. KeysTyped'
  <2>1. applications' \in [DOMAIN applications' ->
           [apikey : 1 .. nextKey' - 1, active : BOOLEAN, account_id : Int]]
    <3>1. \A a \in DOMAIN applications : applications[a] \in
             [apikey : 1 .. key - 1, active : BOOLEAN, account_id : Int]
      BY <1>3 DEF KeysInv, KeysTyped
    <3>2. \A a \in DOMAIN applications : applications[a] \in
             [apikey : 1 .. key + 1 - 1, active : BOOLEAN, account_id : Int]
      BY <1>5, <3>1
    <3>3. row \in [apikey : 1 .. key + 1 - 1, active : BOOLEAN, account_id : Int]
      BY <1>3, <1>5
    <3>4. \A a \in DOMAIN applications' : applications'[a] \in
             [apikey : 1 .. key + 1 - 1, active : BOOLEAN, account_id : Int]
      BY <1>6, <1>7, <3>2, <3>3
    <3>5. applications' \in [DOMAIN applications' ->
             [apikey : 1 .. key + 1 - 1, active : BOOLEAN, account_id : Int]]
      BY <1>6, <3>4
    <3>6. QED BY <1>5, <3>5
  <2>2. /\ \A a \in DOMAIN accounts : accounts[a].apikey \in 1 .. key + 1 - 1
        /\ DOMAIN retired \subseteq 1 .. key + 1 - 1
    BY <1>3, <1>5, AccountKeys
  <2>3. /\ \A a \in DOMAIN accounts' : accounts'[a].apikey \in 1 .. nextKey' - 1
        /\ DOMAIN retired' \subseteq 1 .. nextKey' - 1
    BY <1>4, <1>5, <2>2
  <2>4. QED BY <1>4, <1>7, <1>12, <2>1, <2>3 DEF KeysInv, KeysTyped, slowest
<1>10. QED BY <1>4, <1>8, <1>9, CommitStill

\* Switching an application on or off makes the answers of before old ones.
LEMMA UpdateStatusInv ==
  ASSUME SessionsInv, KeysInv, NEW a, NEW text, NEW account,
         UpdateApplicationStatus(a, text, account)
  PROVE  KeysInv'
<1>1. PICK active \in BOOLEAN : active = (text # "")
  OBVIOUS
<1>2. /\ a \in DOMAIN applications
      /\ applications' = [applications EXCEPT ![a].active = active]
      /\ changed' = [changed EXCEPT ![a] =
           IF applications[a].active THEN [@ EXCEPT !.active = 0] ELSE [@ EXCEPT !.inactive = 0]]
      /\ accounts' = accounts /\ retired' = retired /\ renewed' = renewed
      /\ nextKey' = nextKey /\ slowest' = slowest
      /\ cache' = cache /\ call' = call /\ Committed
  BY <1>1 DEF UpdateApplicationStatus, LookupApplicationId, site, app_db
<1>3. /\ applications \in [DOMAIN applications ->
           [apikey : 1 .. nextKey - 1, active : BOOLEAN, account_id : Int]]
      /\ changed \in [1 .. MaxApps -> [active : 0 .. Horizon, inactive : 0 .. Horizon]]
      /\ a \in 1 .. MaxApps
  <2>1. PICK n \in 2 .. MaxApps : DOMAIN applications = 1 .. n
    BY DEF KeysInv, KeysTyped
  <2>2. a \in 1 .. n /\ n \in Int /\ n <= MaxApps
    BY <1>2, <2>1, TimesAre
  <2>3. a \in 1 .. MaxApps
    BY <2>2, TimesAre
  <2>4. QED BY <2>3 DEF KeysInv, KeysTyped
<1>4. /\ DOMAIN applications' = DOMAIN applications
      /\ applications' \in [DOMAIN applications ->
           [apikey : 1 .. nextKey - 1, active : BOOLEAN, account_id : Int]]
      /\ \A b \in DOMAIN applications : applications'[b].apikey = applications[b].apikey
      /\ \A b \in DOMAIN applications \ {a} : applications'[b] = applications[b]
  BY <1>1, <1>2, <1>3
<1>5. /\ changed' \in [1 .. MaxApps -> [active : 0 .. Horizon, inactive : 0 .. Horizon]]
      /\ \A b \in 1 .. MaxApps \ {a} : changed'[b] = changed[b]
      /\ IF applications[a].active
           THEN changed'[a].active = 0 /\ changed'[a].inactive = changed[a].inactive
           ELSE changed'[a].inactive = 0 /\ changed'[a].active = changed[a].active
  <2>1. 0 \in 0 .. Horizon
    BY TimesAre
  <2>2. CASE applications[a].active
    <3>1. changed' = [changed EXCEPT ![a].active = 0]
      BY <1>2, <1>3, <2>2
    <3>2. QED BY <1>3, <2>1, <2>2, <3>1
  <2>3. CASE ~ applications[a].active
    <3>1. changed' = [changed EXCEPT ![a].inactive = 0]
      BY <1>2, <1>3, <2>3
    <3>2. QED BY <1>3, <2>1, <2>3, <3>1
  <2>4. QED BY <2>2, <2>3
<1>6. DOMAIN applications \subseteq 1 .. MaxApps
  BY AgesAre DEF KeysInv
<1>7. Keeps(0)
  <2> SUFFICES ASSUME NEW k, NEW m \in Nat, NEW x \in Nat, x = m + 0
               PROVE  /\ \A id : IsApplication(k, id, m) => IsApplication(k, id, x)'
                      /\ IsNoApplication(k, m) => IsNoApplication(k, x)'
                      /\ \A id : IsAccount(k, id, m) => IsAccount(k, id, x)'
                      /\ IsNoAccount(k, m) => IsNoAccount(k, x)'
    BY DEF Keeps
  <2>1. x = m /\ 0 <= m
    OBVIOUS
  <2>2. /\ \A id : IsAccount(k, id, m) => IsAccount(k, id, m)'
        /\ IsNoAccount(k, m) => IsNoAccount(k, m)'
    BY <1>2 DEF IsAccount, IsNoAccount
  <2>3. ASSUME NEW b \in DOMAIN applications
        PROVE  /\ applications[b].active \/ changed[b].active <= m
                    => applications'[b].active \/ changed'[b].active <= m
               /\ ~ applications[b].active \/ changed[b].inactive <= m
                    => ~ applications'[b].active \/ changed'[b].inactive <= m
    <3>1. CASE b = a
      BY <1>5, <2>1, <3>1
    <3>2. CASE b # a
      BY <1>4, <1>5, <1>6, <3>2
    <3>3. QED BY <3>1, <3>2
  <2>4. \A id : IsApplication(k, id, m) => IsApplication(k, id, m)'
    BY <1>4, <2>3 DEF IsApplication
  <2>5. IsNoApplication(k, m) => IsNoApplication(k, m)'
    BY <1>4, <2>3 DEF IsNoApplication
  <2>6. QED BY <2>1, <2>2, <2>4, <2>5 DEF IsApplication, IsNoApplication, IsAccount, IsNoAccount
<1>8. KeysTyped'
  <2>1. \E n \in 2 .. MaxApps : DOMAIN applications' = 1 .. n
    BY <1>4 DEF KeysInv, KeysTyped
  <2>2. applications' \in [DOMAIN applications' ->
          [apikey : 1 .. nextKey' - 1, active : BOOLEAN, account_id : Int]]
    BY <1>2, <1>4
  <2>3. changed' \in [1 .. MaxApps -> [active : 0 .. Horizon, inactive : 0 .. Horizon]]
    BY <1>5
  <2>4. /\ \A c \in DOMAIN accounts' : accounts'[c].apikey \in 1 .. nextKey' - 1
        /\ \A c, d \in DOMAIN accounts' : accounts'[c].apikey = accounts'[d].apikey => c = d
        /\ DOMAIN retired' \subseteq 1 .. nextKey' - 1
        /\ retired' \in [DOMAIN retired' -> [account : DOMAIN accounts', age : 0 .. Horizon]]
        /\ \A c \in DOMAIN accounts' : accounts'[c].apikey \notin DOMAIN retired'
        /\ renewed' \in [1 .. MaxIds -> 0 .. Horizon]
    BY <1>2 DEF KeysInv, KeysTyped
  <2>5. /\ call' \in [Handlers -> CallType]
        /\ cache' = [s \in Servers |-> [k \in Kinds |-> cache'[s][k]]]
        /\ longest' \in Nat /\ furthest' \in Nat
    BY <1>2 DEF KeysInv, KeysTyped, slowest
  <2>6. QED BY <2>1, <2>2, <2>3, <2>4, <2>5 DEF KeysTyped
<1>9. QED BY <1>2, <1>7, <1>8, CommitStill

-----------------------------------------------------------------------------
(* Steps of the greenlets and of time *)

\* What greenlets ask about stays as it is.
TablesStill ==
  /\ accounts' = accounts /\ nextKey' = nextKey /\ applications' = applications
  /\ changed' = changed /\ renewed' = renewed /\ retired' = retired
  /\ longest' = longest /\ furthest' = furthest

\* Then every answer is as right as before.
LEMMA StillLater ==
  ASSUME SessionsInv, KeysInv, TablesStill
  PROVE  Later(0) /\ SlowestGrow
<1>1. ASSUME NEW k, NEW m \in Nat, NEW x \in Nat, x = m + 0
      PROVE  /\ \A id : IsApplication(k, id, m) => IsApplication(k, id, x)'
             /\ IsNoApplication(k, m) => IsNoApplication(k, x)'
             /\ \A id : IsAccount(k, id, m) => IsAccount(k, id, x)'
             /\ IsNoAccount(k, m) => IsNoAccount(k, x)'
  <2>1. x = m
    BY <1>1
  <2>2. /\ \A id : IsAccount(k, id, m) => IsAccount(k, id, m)'
        /\ \A id : IsApplication(k, id, m) => IsApplication(k, id, m)'
        /\ IsNoApplication(k, m) => IsNoApplication(k, m)'
        /\ IsNoAccount(k, m) => IsNoAccount(k, m)'
    BY DEF TablesStill, IsAccount, IsNoAccount, IsApplication, IsNoApplication
  <2>3. QED BY <2>1, <2>2 DEF IsAccount, IsNoAccount, IsApplication, IsNoApplication
<1>2. Keeps(0)
  BY <1>1 DEF Keeps
<1>3. QED BY <1>2, KeepsLater DEF TablesStill, SlowestGrow, KeysInv, KeysTyped

\* A step that leaves the tables alone and every version, entry and call right.
LEMMA AllStill ==
  ASSUME SessionsInv, KeysInv, TablesStill, NEW b, b = behind', Len(b) \in Nat,
         b = [n \in 1 .. Len(b) |-> b[n]], \A n \in 1 .. Len(b) : VersionSound(b[n]),
         call' = [g \in Handlers |-> call'[g]],
         \A g \in Handlers : \E d : d = call'[g] /\ d \in CallType /\ CallSound(d),
         cache' = [t \in Servers |-> [k \in Kinds |-> cache'[t][k]]],
         \A t \in Servers, kind \in Kinds : \A k \in DOMAIN cache'[t][kind] :
           \E e : e = cache'[t][kind][k] /\ EntrySound(kind, k, e)
  PROVE  KeysInv'
<1>1. Later(0) /\ SlowestGrow
  BY StillLater
<1>2. ASSUME NEW t \in Servers, NEW kind \in Kinds, NEW k \in DOMAIN cache'[t][kind]
      PROVE  EntrySound(kind, k, cache[t][kind][k])'
  <2>1. PICK e : e = cache'[t][kind][k] /\ EntrySound(kind, k, e)
    OBVIOUS
  <2>2. e \in [id : Int \union {None}, left : 1 .. TTL] /\ e.left - 0 = e.left
    BY <2>1, TimesAre DEF EntrySound
  <2>3. EntrySound(kind, k, e)'
    BY <1>1, <2>1, <2>2, EntryLater
  <2>4. QED BY <2>1, <2>3, EntryAt
<1>3. ASSUME NEW g \in Handlers
      PROVE  call'[g] \in CallType /\ CallSound(call[g])'
  <2>1. PICK d : d = call'[g] /\ d \in CallType /\ CallSound(d)
    OBVIOUS
  <2>2. d.age = d.age + 0 /\ d.age <= longest'
    BY <2>1 DEF CallType, CallSound, TablesStill
  <2>3. CallSound(d)'
    BY <1>1, <2>1, <2>2, CallLater
  <2>4. QED BY <2>1, <2>3, CallAt
<1>4. call' \in [Handlers -> CallType]
  BY <1>3
<1>5. KeysTyped'
  BY <1>4 DEF TablesStill, KeysInv, KeysTyped
<1>6. CachesSound'
  BY <1>2 DEF CachesSound
<1>7. ReplicaSound'
  BY <1>1, ReplicaStill
<1>8. QED BY <1>3, <1>5, <1>6, <1>7 DEF KeysInv

\* Greenlet h goes on with call c; every entry of the caches is right.
LEMMA HandlerMoves ==
  ASSUME SessionsInv, KeysInv, TablesStill, behind' = behind, NEW h \in Handlers, NEW c \in CallType,
         call' = [call EXCEPT ![h] = c], CallSound(c),
         cache' = [t \in Servers |-> [k \in Kinds |-> cache'[t][k]]],
         \A t \in Servers, kind \in Kinds : \A k \in DOMAIN cache'[t][kind] :
           \E e : e = cache'[t][kind][k] /\ EntrySound(kind, k, e)
  PROVE  KeysInv'
<1>1. PICK b : b = behind'
  OBVIOUS
<1>2. /\ Len(b) \in Nat /\ b = [n \in 1 .. Len(b) |-> b[n]]
      /\ \A n \in 1 .. Len(b) : VersionSound(b[n])
  BY <1>1, ReplicaNow DEF KeysInv
<1>3. call = [g \in Handlers |-> call[g]] /\ call \in [Handlers -> CallType]
  BY DEF KeysInv, KeysTyped
<1>4. call' = [g \in Handlers |-> call'[g]]
  BY <1>3
<1>5. ASSUME NEW g \in Handlers
      PROVE  \E d : d = call'[g] /\ d \in CallType /\ CallSound(d)
  <2>1. call'[g] = IF g = h THEN c ELSE call[g]
    BY <1>3
  <2>2. call[g] \in CallType /\ CallSound(call[g])
    BY <1>3 DEF KeysInv
  <2>3. QED BY <2>1, <2>2
<1>6. QED BY <1>1, <1>2, <1>4, <1>5, AllStill

\* The caches stay as they are.
LEMMA CachesStill ==
  ASSUME KeysInv, cache' = cache
  PROVE  /\ cache' = [t \in Servers |-> [k \in Kinds |-> cache'[t][k]]]
         /\ \A t \in Servers, kind \in Kinds : \A k \in DOMAIN cache'[t][kind] :
              \E e : e = cache'[t][kind][k] /\ EntrySound(kind, k, e)
BY DEF KeysInv, KeysTyped, CachesSound

\* A greenlet that waits for a request.
LEMMA NoCallAt ==
  /\ NoCall \in CallType /\ NoCall.pc = "idle" /\ NoCall.client = None /\ NoCall.user = None
  /\ NoCall.application = None /\ NoCall.account = None /\ NoCall.value = None /\ NoCall.age = 0
BY TimesAre DEF NoCall, CallType

\* It knows nothing that could be wrong.
LEMMA NoCallSound ==
  ASSUME longest \in Nat
  PROVE  CallSound(NoCall)
BY NoCallAt DEF CallSound

\* A submission that has just come: its fields.
LEMMA NewCallAt ==
  ASSUME NEW client \in Int, NEW user \in Int
  PROVE  LET c == [NoCall EXCEPT !.pc = "client", !.client = client, !.user = user] IN
         c \in CallType /\ c.pc = "client" /\ c.client = client /\ c.user = user /\ c.age = 0
           /\ c.application = None
BY DEF NoCall, CallType

\* A submission comes with keys that were made.
LEMMA SubmitRequestInv ==
  ASSUME SessionsInv, KeysInv, NEW h \in Handlers, NEW user \in 1 .. nextKey - 1,
         NEW client \in {DemoKey} \union {applications[a].apikey : a \in DOMAIN applications},
         SubmitRequest(h, client, user)
  PROVE  KeysInv'
<1> PICK c : c = [NoCall EXCEPT !.pc = "client", !.client = client, !.user = user]
  OBVIOUS
<1>1. TablesStill /\ call' = [call EXCEPT ![h] = c] /\ cache' = cache /\ behind' = behind
  BY DEF SubmitRequest, TablesStill, site, app_db, ages, slowest
<1>2. nextKey \in Nat \ {0}
  BY AccountKeys
<1>3. client \in Nat /\ user \in Nat
  <2>1. \A a \in DOMAIN applications : applications[a].apikey \in 1 .. nextKey - 1
    BY DEF KeysInv, KeysTyped
  <2>2. client = 0 \/ client \in 1 .. nextKey - 1
    BY <2>1 DEF DemoKey
  <2>3. QED BY <1>2, <2>2
<1>4. /\ c \in CallType /\ c.pc = "client" /\ c.client = client /\ c.user = user
      /\ c.age = 0 /\ c.application = None
  <2>1. client \in Int /\ user \in Int
    BY <1>3
  <2>2. QED BY <2>1, NewCallAt
<1>5. CallSound(c)
  BY <1>3, <1>4 DEF CallSound, KeysInv, KeysTyped
<1>6. QED BY <1>1, <1>4, <1>5, CachesStill, HandlerMoves

\* A greenlet that has answered is free.
LEMMA SubmitDoneInv ==
  ASSUME SessionsInv, KeysInv, NEW h \in Handlers, SubmitDone(h)
  PROVE  KeysInv'
<1>1. TablesStill /\ call' = [call EXCEPT ![h] = NoCall] /\ cache' = cache /\ behind' = behind
  BY DEF SubmitDone, TablesStill, avars, site, app_db, ages, slowest
<1>2. longest \in Nat
  BY DEF KeysInv, KeysTyped
<1>3. QED BY <1>1, <1>2, NoCallAt, NoCallSound, CachesStill, HandlerMoves

\* A new process has nothing in its caches, and its greenlets no requests.
LEMMA RestartInv ==
  ASSUME SessionsInv, KeysInv, NEW s \in Servers, Restart(s)
  PROVE  KeysInv'
<1>1. /\ TablesStill /\ behind' = behind
      /\ call' = [h \in Handlers |-> IF ServerOf[h] = s THEN NoCall ELSE call[h]]
      /\ cache' = [cache EXCEPT ![s] = [k \in Kinds |-> Empty]]
  BY DEF Restart, TablesStill, site, app_db, ages, slowest
<1>2. cache = [t \in Servers |-> [k \in Kinds |-> cache[t][k]]] /\ DOMAIN Empty = {}
  BY DEF KeysInv, KeysTyped, Empty
<1>3. \A t \in Servers, kind \in Kinds :
        cache'[t][kind] = IF t = s THEN Empty ELSE cache[t][kind]
  BY <1>1, <1>2
<1>4. cache' = [t \in Servers |-> [k \in Kinds |-> cache'[t][k]]]
  BY <1>1, <1>2
<1>5. ASSUME NEW t \in Servers, NEW kind \in Kinds, NEW k \in DOMAIN cache'[t][kind]
      PROVE  \E e : e = cache'[t][kind][k] /\ EntrySound(kind, k, e)
  <2>1. t # s /\ cache'[t][kind] = cache[t][kind]
    BY <1>2, <1>3
  <2>2. EntrySound(kind, k, cache[t][kind][k])
    BY <2>1 DEF KeysInv, CachesSound
  <2>3. QED BY <2>1, <2>2
<1>6. PICK b : b = behind'
  OBVIOUS
<1>7. /\ Len(b) \in Nat /\ b = [n \in 1 .. Len(b) |-> b[n]]
      /\ \A n \in 1 .. Len(b) : VersionSound(b[n])
  BY <1>1, <1>6, ReplicaNow DEF KeysInv
<1>8. call' = [g \in Handlers |-> call'[g]]
  BY <1>1
<1>9. ASSUME NEW g \in Handlers
      PROVE  \E d : d = call'[g] /\ d \in CallType /\ CallSound(d)
  <2>1. call[g] \in CallType /\ CallSound(call[g]) /\ longest \in Nat
    BY DEF KeysInv, KeysTyped
  <2>2. call'[g] = IF ServerOf[g] = s THEN NoCall ELSE call[g]
    BY <1>1
  <2>3. QED BY <2>1, <2>2, NoCallAt, NoCallSound
<1>10. QED BY <1>1, <1>4, <1>5, <1>6, <1>7, <1>8, <1>9, AllStill

\* What a request goes on with once its key is resolved.
LEMMA ResolvedAt ==
  ASSUME NEW c \in CallType, NEW id \in Int \union {None}
  PROVE  /\ Resolved(c, id) \in CallType
         /\ Resolved(c, id).client = c.client /\ Resolved(c, id).user = c.user
         /\ Resolved(c, id).age = c.age
         /\ id = None => /\ Resolved(c, id).pc = "refused"
                         /\ Resolved(c, id).application = c.application
         /\ id # None /\ c.pc \in {"client", "client_store"} =>
              Resolved(c, id).pc = "user" /\ Resolved(c, id).application = id
         /\ id # None /\ c.pc \notin {"client", "client_store"} =>
              /\ Resolved(c, id).pc = "handle" /\ Resolved(c, id).account = id
              /\ Resolved(c, id).application = c.application
BY DEF Resolved, CallType

\* A key that is resolved by a right answer leaves the call right.
LEMMA ResolvedSound ==
  ASSUME SessionsInv, KeysTyped, NEW kind \in Kinds, NEW c \in CallType, CallSound(c),
         c.pc \in (IF kind = "client" THEN {"client", "client_store"} ELSE {"user", "user_store"}),
         NEW id \in Int \union {None}, NEW m \in Nat, m <= Known(c),
         NEW key, key = (IF kind = "client" THEN c.client ELSE c.user),
         IsAnswer(kind, key, id, m)
  PROVE  CallSound(Resolved(c, id))
<1> PICK e, n : e = Resolved(c, id) /\ n = Known(c)
  OBVIOUS
<1>1. /\ e \in CallType /\ e.client = c.client /\ e.user = c.user /\ e.age = c.age
      /\ id = None => e.pc = "refused" /\ e.application = c.application
      /\ id # None /\ c.pc \in {"client", "client_store"} => e.pc = "user" /\ e.application = id
      /\ id # None /\ c.pc \notin {"client", "client_store"} =>
           e.pc = "handle" /\ e.account = id /\ e.application = c.application
  BY ResolvedAt
<1>2. n \in Nat /\ Known(e) = n
  <2>1. c.age \in Nat /\ longest \in Nat /\ furthest \in Nat
    BY DEF CallType, KeysTyped
  <2>2. n = furthest + longest + TTL - 1 + c.age /\ Known(e) = furthest + longest + TTL - 1 + e.age
    BY DEF Known
  <2>3. QED BY <1>1, <2>1, <2>2, TimesAre
<1>3. IsAnswer(kind, key, id, n)
  BY <1>2, AnswerLongerAgo
<1>4. c.client \in Nat /\ c.user \in Nat /\ e.age <= longest
  BY <1>1 DEF CallSound, Kinds
<1>5. CASE kind = "client"
  <2>1. key = c.client /\ c.pc \in {"client", "client_store"}
    BY <1>5
  <2>2. CASE id = None
    BY <1>1, <1>2, <1>3, <1>4, <1>5, <2>1, <2>2 DEF CallSound, IsAnswer
  <2>3. CASE id # None
    BY <1>1, <1>2, <1>3, <1>4, <1>5, <2>1, <2>3 DEF CallSound, IsAnswer
  <2>4. QED BY <2>2, <2>3
<1>6. CASE kind = "user"
  <2>1. /\ key = c.user /\ c.pc \in {"user", "user_store"}
        /\ c.application # None /\ IsApplication(c.client, c.application, n)
    BY <1>6 DEF CallSound
  <2>2. CASE id = None
    <3>1. IsNoAccount(c.user, n)
      BY <1>3, <1>6, <2>1, <2>2 DEF IsAnswer
    <3>2. QED BY <1>1, <1>2, <1>4, <2>1, <2>2, <3>1 DEF CallSound
  <2>3. CASE id # None
    <3>1. IsAccount(c.user, id, n)
      BY <1>3, <1>6, <2>1, <2>3 DEF IsAnswer
    <3>2. QED BY <1>1, <1>2, <1>4, <2>1, <2>3, <3>1 DEF CallSound
  <2>4. QED BY <2>2, <2>3
<1>7. QED BY <1>5, <1>6 DEF Kinds

\* The key of a kind that a call names.
KeyOf(c, kind) == IF kind = "client" THEN c.client ELSE c.user

\* It is what the code reads by the name of the kind.
LEMMA KeyOfAt ==
  ASSUME NEW c \in CallType, NEW kind \in Kinds
  PROVE  c[kind] = KeyOf(c, kind)
BY DEF CallType, Kinds, KeyOf

\* What the invariant says of one call.
LEMMA CallNow ==
  ASSUME KeysInv, NEW h \in Handlers
  PROVE  /\ call[h] \in CallType /\ CallSound(call[h])
         /\ call = [t \in Handlers |-> call[t]]
BY DEF KeysInv, KeysTyped

\* An entry of the cache is older than its answer by TTL and a request at most.
LEMMA KeyHitInv ==
  ASSUME SessionsInv, KeysInv, NEW h \in Handlers, NEW kind \in Kinds, KeyHit(h, kind)
  PROVE  KeysInv'
<1> PICK c : c = call[h]
  OBVIOUS
<1> PICK key : key = KeyOf(c, kind)
  OBVIOUS
<1>1. c \in CallType /\ CallSound(c) /\ c.pc = kind /\ c[kind] = key
  BY CallNow, KeyOfAt DEF KeyHit
<1> PICK s \in Servers : s = ServerOf[h]
  BY TimeAssumption
<1>2. key \in DOMAIN cache[s][kind]
  BY <1>1 DEF KeyHit, Cached, CacheOf
<1> PICK e : e = cache[s][kind][key]
  OBVIOUS
<1>3. EntrySound(kind, key, e)
  BY <1>2 DEF KeysInv, CachesSound
<1> PICK id, m : id = e.id /\ m = furthest + longest + TTL - e.left
  OBVIOUS
<1>4. /\ e \in [id : Int \union {None}, left : 1 .. TTL]
      /\ IsAnswer(kind, key, id, m)
  BY <1>3 DEF EntrySound
<1>5. id \in Int \union {None} /\ e.left \in 1 .. TTL
  BY <1>4
<1>6. m \in Nat /\ m <= Known(c)
  <2>1. c.age \in Nat /\ longest \in Nat /\ furthest \in Nat
    BY <1>1 DEF CallType, KeysInv, KeysTyped
  <2>2. e.left >= 1 /\ e.left <= TTL /\ e.left \in Int
    BY <1>5, TimesAre
  <2>3. QED BY <2>1, <2>2, TimesAre DEF Known
<1>7. c.pc \in (IF kind = "client" THEN {"client", "client_store"} ELSE {"user", "user_store"})
  BY <1>1 DEF Kinds
<1>8. Resolved(c, id) \in CallType /\ CallSound(Resolved(c, id))
  BY <1>1, <1>4, <1>5, <1>6, <1>7, ResolvedAt, ResolvedSound DEF KeyOf, KeysInv
<1>9. call' = [call EXCEPT ![h] = Resolved(c, id)]
  BY <1>1, CallNow DEF KeyHit, CacheOf
<1>10. TablesStill /\ cache' = cache /\ behind' = behind
  BY DEF KeyHit, TablesStill, avars, site, app_db, ages, slowest
<1>11. QED BY <1>8, <1>9, <1>10, CachesStill, HandlerMoves

\* A call that has asked for its key.
Asked(c, pc, value) == [c EXCEPT !.pc = pc, !.value = value]

\* It differs from the call before in nothing else.
LEMMA AskedAt ==
  ASSUME NEW c \in CallType, NEW pc \in {"client_store", "user_store"},
         NEW value \in Int \union {None}
  PROVE  /\ Asked(c, pc, value) \in CallType
         /\ Asked(c, pc, value).pc = pc /\ Asked(c, pc, value).value = value
         /\ Asked(c, pc, value).client = c.client /\ Asked(c, pc, value).user = c.user
         /\ Asked(c, pc, value).application = c.application
         /\ Asked(c, pc, value).age = c.age
BY DEF Asked, CallType

\* The replica answers what was so when it was as the tables were.
LEMMA ReplicaAnswer ==
  ASSUME SessionsInv, KeysInv, NEW kind \in Kinds, NEW k \in Nat, NEW m \in Nat, furthest <= m
  PROVE  /\ CheckApiKey(Replica, kind, k) \in Int \union {None}
         /\ IsAnswer(kind, k, CheckApiKey(Replica, kind, k), m)
<1>1. PICK b, v : b = behind /\ v = Replica
  OBVIOUS
<1>2. VersionSound(v)
  <2>1. CASE b = << >>
    BY <1>1, <2>1, TablesSound DEF Replica, KeysInv
  <2>2. CASE b # << >>
    <3>1. /\ Len(b) \in Nat /\ b = [n \in 1 .. Len(b) |-> b[n]]
          /\ \A n \in 1 .. Len(b) : VersionSound(b[n])
      BY <1>1, ReplicaNow DEF KeysInv
    <3>2. PICK S : b \in Seq(S)
      BY <3>1, SeqOf
    <3>3. 1 \in 1 .. Len(b) /\ Head(b) = b[1]
      BY <2>2, <3>2, TailAt
    <3>4. v = b[1]
      BY <1>1, <2>2, <3>3 DEF Replica
    <3>5. QED BY <3>1, <3>3, <3>4
  <2>3. QED BY <2>1, <2>2
<1>3. PICK id, n : id = CheckApiKey(v, kind, k) /\ n = v.age
  OBVIOUS
<1>4. id \in Int \union {None} /\ IsAnswer(kind, k, id, n) /\ n \in Nat /\ n <= furthest
  BY <1>2, <1>3 DEF VersionSound
<1>5. n <= m /\ KeysTyped
  BY <1>4 DEF KeysInv, KeysTyped
<1>6. IsAnswer(kind, k, id, m)
  BY <1>4, <1>5, AnswerLongerAgo
<1>7. QED BY <1>1, <1>3, <1>4, <1>6

\* A query on the read-only connection.
LEMMA KeyQueryInv ==
  ASSUME SessionsInv, KeysInv, NEW h \in Handlers, NEW kind \in Kinds, KeyQuery(h, kind)
  PROVE  KeysInv'
<1> PICK c : c = call[h]
  OBVIOUS
<1>1. /\ c \in CallType /\ CallSound(c) /\ c.pc = kind /\ c[kind] = KeyOf(c, kind)
      /\ c.age \in Nat /\ furthest \in Nat
  BY CallNow, KeyOfAt DEF KeyQuery, CallType, KeysInv, KeysTyped
<1>9. KeyOf(c, kind) \in Nat /\ furthest + c.age \in Nat /\ furthest <= furthest + c.age
  BY <1>1 DEF CallSound, KeyOf, Kinds
<1>2. PICK pc \in {"client_store", "user_store"}, value \in Int \union {None} :
        /\ pc = IF kind = "client" THEN "client_store" ELSE "user_store"
        /\ value = CheckApiKey(Replica, kind, KeyOf(c, kind))
        /\ IsAnswer(kind, KeyOf(c, kind), value, furthest + c.age)
  BY <1>9, ReplicaAnswer
<1>8. PICK d : d = Asked(c, pc, value)
  OBVIOUS
<1>3. /\ d \in CallType /\ d.pc = pc /\ d.value = value /\ d.client = c.client
      /\ d.user = c.user /\ d.application = c.application /\ d.age = c.age
  <2>1. c \in CallType /\ pc \in {"client_store", "user_store"} /\ value \in Int \union {None}
    BY <1>1, <1>2
  <2>2. /\ Asked(c, pc, value) \in CallType
        /\ Asked(c, pc, value).pc = pc /\ Asked(c, pc, value).value = value
        /\ Asked(c, pc, value).client = c.client /\ Asked(c, pc, value).user = c.user
        /\ Asked(c, pc, value).application = c.application
        /\ Asked(c, pc, value).age = c.age
    BY <2>1, AskedAt
  <2>3. QED BY <1>8, <2>2
<1>4. call' = [call EXCEPT ![h] = d]
  BY <1>1, <1>2, <1>8, CallNow DEF KeyQuery, Asked
<1>5. CallSound(d)
  <2>1. Known(d) = Known(c)
    BY <1>3 DEF Known
  <2>2. c.client \in Nat /\ c.user \in Nat /\ d.age <= longest
    BY <1>1, <1>3 DEF CallSound, Kinds
  <2>3. CASE kind = "client"
    BY <1>1, <1>2, <1>3, <2>2, <2>3 DEF CallSound, KeyOf
  <2>4. CASE kind = "user"
    <3>1. c.application # None /\ IsApplication(c.client, c.application, Known(c))
      BY <1>1, <2>4 DEF CallSound
    <3>2. QED BY <1>2, <1>3, <2>1, <2>2, <2>4, <3>1 DEF CallSound, KeyOf
  <2>5. QED BY <2>3, <2>4 DEF Kinds
<1>6. TablesStill /\ cache' = cache /\ behind' = behind
  BY DEF KeyQuery, TablesStill, avars, site, app_db, ages, slowest
<1>7. QED BY <1>3, <1>4, <1>5, <1>6, CachesStill, HandlerMoves

\* A call whose key is in the cache now.
LEMMA StoredAt ==
  ASSUME KeysInv, NEW c \in CallType, CallSound(c), c.pc \in {"refused", "user", "handle"}
  PROVE  [c EXCEPT !.value = None] \in CallType /\ CallSound([c EXCEPT !.value = None])
<1> PICK d : d = [c EXCEPT !.value = None]
  OBVIOUS
<1>1. /\ d \in CallType /\ d.pc = c.pc /\ d.client = c.client /\ d.user = c.user
      /\ d.application = c.application /\ d.account = c.account /\ d.age = c.age
  BY DEF CallType
<1>2. Known(d) = Known(c)
  BY <1>1 DEF Known
<1>3. CallSound(d)
  BY <1>1, <1>2 DEF CallSound
<1>4. QED BY <1>1, <1>3

\* What is stored was asked by this request, so it is not older than that.
LEMMA KeyStoreInv ==
  ASSUME SessionsInv, KeysInv, NEW h \in Handlers, NEW kind \in Kinds, KeyStore(h, kind)
  PROVE  KeysInv'
<1> PICK c : c = call[h]
  OBVIOUS
<1> PICK key, value : key = KeyOf(c, kind) /\ value = c.value
  OBVIOUS
<1>1. /\ c \in CallType /\ CallSound(c) /\ c[kind] = key
      /\ c.pc = IF kind = "client" THEN "client_store" ELSE "user_store"
  BY CallNow, KeyOfAt DEF KeyStore
<1>14. longest \in Nat /\ furthest \in Nat
  BY DEF KeysInv, KeysTyped
<1>2. /\ value \in Int \union {None} /\ c.age \in Nat /\ c.age <= longest
      /\ furthest + c.age \in Nat /\ furthest + c.age <= Known(c)
  BY <1>1, <1>14, TimesAre DEF CallType, Known, CallSound
<1>3. IsAnswer(kind, key, value, furthest + c.age)
  BY <1>1 DEF CallSound, KeyOf, Kinds
<1> PICK s \in Servers : s = ServerOf[h]
  BY TimeAssumption
<1> PICK e : e = [id |-> value, left |-> TTL]
  OBVIOUS
<1>5. EntrySound(kind, key, e)
  <2>1. IsAnswer(kind, key, value, furthest + longest)
    <3>1. furthest + longest \in Nat /\ furthest + c.age <= furthest + longest
      BY <1>2, <1>14
    <3>2. QED BY <1>2, <1>3, <3>1, AnswerLongerAgo DEF KeysInv
  <2>2. furthest + longest + TTL - TTL = furthest + longest /\ TTL \in 1 .. TTL
    BY <1>14, TimesAre
  <2>3. e.id = value /\ e.left = TTL /\ e \in [id : Int \union {None}, left : 1 .. TTL]
    BY <1>2, <2>2
  <2>4. IsAnswer(kind, key, e.id, furthest + longest + TTL - e.left)
    BY <2>1, <2>2, <2>3
  <2>5. QED BY <2>3, <2>4 DEF EntrySound
<1> PICK d : d = [Resolved(c, value) EXCEPT !.value = None]
  OBVIOUS
<1>6. d \in CallType /\ CallSound(d)
  <2>1. c.pc \in (IF kind = "client" THEN {"client", "client_store"} ELSE {"user", "user_store"})
    BY <1>1
  <2>2. Resolved(c, value) \in CallType /\ CallSound(Resolved(c, value))
    BY <1>1, <1>2, <1>3, <2>1, ResolvedAt, ResolvedSound DEF KeyOf, KeysInv
  <2>3. Resolved(c, value).pc \in {"refused", "user", "handle"}
    BY <1>1, <1>2, ResolvedAt
  <2>4. QED BY <2>2, <2>3, StoredAt
<1>7. call' = [call EXCEPT ![h] = d]
  BY DEF KeyStore
<1>8. TablesStill /\ behind' = behind
  BY DEF KeyStore, TablesStill, avars, site, app_db, ages, slowest
<1>9. cache' = [cache EXCEPT ![s][kind] = With(@, key, e)]
  BY <1>1 DEF KeyStore, CacheOf
<1>10. cache = [t \in Servers |-> [k \in Kinds |-> cache[t][k]]]
  BY DEF KeysInv, KeysTyped
<1>11. /\ cache' = [t \in Servers |-> [k \in Kinds |-> cache'[t][k]]]
       /\ cache'[s][kind] = With(cache[s][kind], key, e)
       /\ \A t \in Servers, x \in Kinds :
            ~ (t = s /\ x = kind) => cache'[t][x] = cache[t][x]
  BY <1>9, <1>10
<1>12. ASSUME NEW t \in Servers, NEW x \in Kinds, NEW k \in DOMAIN cache'[t][x]
       PROVE  \E f : f = cache'[t][x][k] /\ EntrySound(x, k, f)
  <2>1. CASE t = s /\ x = kind
    <3>1. k \in DOMAIN cache[s][kind] \union {key}
      BY <1>11, <1>12, <2>1 DEF With
    <3>2. cache'[t][x][k] = IF k = key THEN e ELSE cache[s][kind][k]
      BY <1>11, <2>1, <3>1 DEF With
    <3>3. k \in DOMAIN cache[s][kind] => EntrySound(kind, k, cache[s][kind][k])
      BY DEF KeysInv, CachesSound
    <3>4. QED BY <1>5, <2>1, <3>1, <3>2, <3>3
  <2>2. CASE ~ (t = s /\ x = kind)
    <3>1. cache'[t][x] = cache[t][x]
      BY <1>11, <2>2
    <3>2. QED BY <3>1 DEF KeysInv, CachesSound
  <2>3. QED BY <2>1, <2>2
<1>13. QED BY <1>6, <1>7, <1>8, <1>11, <1>12, HandlerMoves

\* The replica replays a commit.
LEMMA ReplayInv ==
  ASSUME SessionsInv, KeysInv, Replay
  PROVE  KeysInv'
<1>1. PICK b, t : b = behind /\ t = behind'
  OBVIOUS
<1>2. /\ TablesStill /\ cache' = cache /\ call' = call /\ b # << >> /\ t = Tail(b)
  BY <1>1 DEF Replay, TablesStill, avars, site, app_db, ages, slowest
<1>3. /\ Len(b) \in Nat /\ b = [n \in 1 .. Len(b) |-> b[n]]
      /\ \A n \in 1 .. Len(b) : VersionSound(b[n])
  BY <1>1, ReplicaNow DEF KeysInv
<1>4. PICK S : b \in Seq(S)
  BY <1>3, SeqOf
<1>5. /\ Len(t) \in Nat /\ t = [n \in 1 .. Len(t) |-> t[n]]
      /\ \A n \in 1 .. Len(t) : n + 1 \in 1 .. Len(b) /\ t[n] = b[n + 1]
  BY <1>2, <1>4, TailAt
<1>6. \A n \in 1 .. Len(t) : VersionSound(t[n])
  BY <1>3, <1>5
<1>7. /\ call' = [g \in Handlers |-> call'[g]]
      /\ \A g \in Handlers : \E d : d = call'[g] /\ d \in CallType /\ CallSound(d)
  BY <1>2, CallNow DEF KeysInv, KeysTyped
<1>8. QED BY <1>1, <1>2, <1>5, <1>6, <1>7, CachesStill, AllStill

\* Ages grow by one, up to the horizon.
LEMMA OlderAge ==
  ASSUME NEW age \in 0 .. Horizon
  PROVE  Older(age) \in 0 .. Horizon /\ Older(age) <= age + 1
BY TimesAre DEF Older

\* With time, answers get one unit older.
LEMMA TickLater ==
  ASSUME SessionsInv, KeysInv, Tick
  PROVE  KeysTyped' /\ Later(1) /\ SlowestGrow
<1>1. /\ accounts' = accounts /\ nextKey' = nextKey /\ applications' = applications
      /\ changed' = [a \in DOMAIN changed |->
           [active |-> Older(changed[a].active), inactive |-> Older(changed[a].inactive)]]
      /\ retired' = [k \in DOMAIN retired |-> [retired[k] EXCEPT !.age = Older(@)]]
      /\ renewed' = [a \in DOMAIN renewed |-> Older(renewed[a])]
  BY DEF Tick, avars, site, app_db
<1>2. changed \in [1 .. MaxApps -> [active : 0 .. Horizon, inactive : 0 .. Horizon]]
  BY DEF KeysInv, KeysTyped
<1>3. retired \in [DOMAIN retired -> [account : DOMAIN accounts, age : 0 .. Horizon]]
  BY AccountKeys
<1>4. ASSUME NEW a \in 1 .. MaxApps
      PROVE  /\ changed'[a] \in [active : 0 .. Horizon, inactive : 0 .. Horizon]
             /\ changed'[a].active <= changed[a].active + 1
             /\ changed'[a].inactive <= changed[a].inactive + 1
  <2>1. PICK x \in 0 .. Horizon, y \in 0 .. Horizon : x = changed[a].active /\ y = changed[a].inactive
    BY <1>2
  <2>2. /\ Older(x) \in 0 .. Horizon /\ Older(x) <= x + 1
        /\ Older(y) \in 0 .. Horizon /\ Older(y) <= y + 1
    BY OlderAge
  <2>3. changed'[a] = [active |-> Older(x), inactive |-> Older(y)]
    BY <1>1, <1>2, <2>1
  <2>4. QED BY <2>1, <2>2, <2>3
<1>5. /\ DOMAIN changed' = 1 .. MaxApps
      /\ changed' \in [1 .. MaxApps -> [active : 0 .. Horizon, inactive : 0 .. Horizon]]
  BY <1>1, <1>2, <1>4
<1>6. ASSUME NEW k \in DOMAIN retired
      PROVE  /\ retired'[k] \in [account : DOMAIN accounts, age : 0 .. Horizon]
             /\ retired'[k].account = retired[k].account
             /\ retired'[k].age <= retired[k].age + 1
  <2>1. PICK x \in 0 .. Horizon : x = retired[k].age
    BY <1>3
  <2>2. Older(x) \in 0 .. Horizon /\ Older(x) <= x + 1
    BY OlderAge
  <2>3. retired'[k] = [retired[k] EXCEPT !.age = Older(x)]
    BY <1>1, <2>1
  <2>4. PICK row \in [account : DOMAIN accounts, age : 0 .. Horizon] : row = retired[k]
    BY <1>3
  <2>5. QED BY <2>1, <2>2, <2>3, <2>4
<1>7. /\ DOMAIN retired' = DOMAIN retired
      /\ retired' \in [DOMAIN retired -> [account : DOMAIN accounts, age : 0 .. Horizon]]
  BY <1>1, <1>6
<1>14. renewed \in [1 .. MaxIds -> 0 .. Horizon]
  BY DEF KeysInv, KeysTyped
<1>15. ASSUME NEW a \in 1 .. MaxIds
       PROVE  /\ renewed'[a] \in 0 .. Horizon /\ renewed'[a] <= renewed[a] + 1
  <2>1. PICK x \in 0 .. Horizon : x = renewed[a]
    BY <1>14
  <2>2. Older(x) \in 0 .. Horizon /\ Older(x) <= x + 1
    BY OlderAge
  <2>3. renewed'[a] = Older(x)
    BY <1>1, <1>14, <2>1
  <2>4. QED BY <2>1, <2>2, <2>3
<1>16. renewed' \in [1 .. MaxIds -> 0 .. Horizon]
  BY <1>1, <1>14, <1>15
<1>17. SlowestGrow
  <2>1. /\ longest \in Nat /\ furthest \in Nat
        /\ longest' \in {longest, longest + 1} /\ furthest' \in {furthest, furthest + 1}
    BY DEF Tick, KeysInv, KeysTyped
  <2>2. QED BY <2>1 DEF SlowestGrow
<1>8. call' \in [Handlers -> CallType]
  <2>1. ASSUME NEW h \in Handlers
        PROVE  call'[h] \in CallType
    <3>1. call[h] \in CallType
      BY CallNow
    <3>2. CASE call[h].pc = "idle"
      BY <3>2, NoCallAt DEF Tick
    <3>3. CASE call[h].pc # "idle"
      <4>1. PICK c : c = call[h]
        OBVIOUS
      <4>2. c \in CallType /\ c.age \in Nat
        BY <3>1, <4>1 DEF CallType
      <4>3. PICK x : x = c.age + 1
        OBVIOUS
      <4>4. x \in Nat
        BY <4>2, <4>3
      <4>5. [c EXCEPT !.age = x] \in CallType
        BY <4>2, <4>4 DEF CallType
      <4>6. call'[h] = [c EXCEPT !.age = x]
        BY <3>3, <4>1, <4>3 DEF Tick
      <4>7. QED BY <4>5, <4>6
    <3>4. QED BY <3>2, <3>3
  <2>2. QED BY <2>1 DEF Tick
<1>9. cache' = [s \in Servers |-> [k \in Kinds |-> cache'[s][k]]]
  BY DEF Tick
<1>10. KeysTyped'
  BY <1>1, <1>5, <1>7, <1>8, <1>9, <1>16, <1>17 DEF KeysInv, KeysTyped, SlowestGrow
<1>11. DOMAIN applications \subseteq 1 .. MaxApps
  BY AgesAre DEF KeysInv
<1>12. Keeps(1)
  <2> SUFFICES ASSUME NEW k, NEW m \in Nat, NEW x \in Nat, x = m + 1
               PROVE  /\ \A id : IsApplication(k, id, m) => IsApplication(k, id, x)'
                      /\ IsNoApplication(k, m) => IsNoApplication(k, x)'
                      /\ \A id : IsAccount(k, id, m) => IsAccount(k, id, x)'
                      /\ IsNoAccount(k, m) => IsNoAccount(k, x)'
    BY DEF Keeps
  <2>1. ASSUME NEW a \in DOMAIN applications
        PROVE  /\ changed[a].active <= m => changed'[a].active <= x
               /\ changed[a].inactive <= m => changed'[a].inactive <= x
    <3>1. PICK v \in Int, w \in Int : v = changed[a].active /\ w = changed[a].inactive
      BY <1>2, <1>11, TimesAre
    <3>2. PICK y \in Int, z \in Int : y = changed'[a].active /\ z = changed'[a].inactive
      BY <1>5, <1>11, TimesAre
    <3>3. y <= v + 1 /\ z <= w + 1
      BY <1>4, <1>11, <3>1, <3>2
    <3>4. (v <= m => y <= x) /\ (w <= m => z <= x)
      BY <3>1, <3>2, <3>3
    <3>5. QED BY <3>1, <3>2, <3>4
  <2>2. ASSUME NEW y \in DOMAIN retired
        PROVE  retired[y].age <= m => retired'[y].age <= x
    <3>1. PICK v \in Int : v = retired[y].age
      BY <1>3, TimesAre
    <3>2. PICK w \in Int : w = retired'[y].age
      BY <1>7, TimesAre
    <3>3. w <= v + 1
      BY <1>6, <3>1, <3>2
    <3>4. v <= m => w <= x
      BY <3>1, <3>2, <3>3
    <3>5. QED BY <3>1, <3>2, <3>4
  <2>3. \A id : IsApplication(k, id, m) => IsApplication(k, id, x)'
    BY <1>1, <2>1 DEF IsApplication
  <2>4. IsNoApplication(k, m) => IsNoApplication(k, x)'
    BY <1>1, <2>1 DEF IsNoApplication
  <2>5. \A id : IsAccount(k, id, m) => IsAccount(k, id, x)'
    BY <1>1, <1>6, <1>7, <2>2 DEF IsAccount
  <2>6. IsNoAccount(k, m) => IsNoAccount(k, x)'
    <3>1. ASSUME NEW a \in DOMAIN accounts
          PROVE  renewed[a] <= m => renewed'[a] <= x
      <4>1. a \in 1 .. MaxIds
        BY RenewalsAre DEF KeysInv
      <4>2. PICK v \in Int, w \in Int : v = renewed[a] /\ w = renewed'[a]
        BY <1>14, <1>16, <4>1, TimesAre
      <4>3. w <= v + 1
        BY <1>15, <4>1, <4>2
      <4>4. v <= m => w <= x
        BY <4>2, <4>3
      <4>5. QED BY <4>2, <4>4
    <3>2. QED BY <1>1, <3>1 DEF IsNoAccount
  <2>7. QED BY <2>3, <2>4, <2>5, <2>6
<1>18. Later(1)
  BY <1>12, KeepsLater DEF KeysInv
<1>13. QED BY <1>10, <1>17, <1>18

\* An entry that gets older has less time left.
LEMMA TickInv ==
  ASSUME SessionsInv, KeysInv, Tick
  PROVE  KeysInv'
<1>1. Later(1) /\ SlowestGrow /\ KeysTyped'
  BY TickLater
<1>2. ASSUME NEW s \in Servers, NEW kind \in Kinds, NEW k \in DOMAIN cache'[s][kind]
      PROVE  EntrySound(kind, k, cache[s][kind][k])'
  <2>1. cache'[s][kind] = Expired(cache[s][kind])
    BY DEF Tick
  <2>2. PICK e, f : e = cache[s][kind][k] /\ f = cache'[s][kind][k]
    OBVIOUS
  <2>3. k \in DOMAIN cache[s][kind] /\ e.left > 1 /\ f = [e EXCEPT !.left = @ - 1]
    BY <2>1, <2>2 DEF Expired
  <2>4. EntrySound(kind, k, e)
    BY <2>2, <2>3 DEF KeysInv, CachesSound
  <2>5. e \in [id : Int \union {None}, left : 1 .. TTL]
    BY <2>4 DEF EntrySound
  <2>6. /\ f \in [id : Int \union {None}, left : 1 .. TTL]
        /\ f.id = e.id /\ f.left = e.left - 1
    <3>1. PICK x : x = e.left - 1
      OBVIOUS
    <3>2. x \in 1 .. TTL
      BY <2>3, <2>5, <3>1, TimesAre
    <3>3. f = [e EXCEPT !.left = x]
      BY <2>3, <3>1
    <3>4. QED BY <2>5, <3>1, <3>2, <3>3
  <2>7. EntrySound(kind, k, f)'
    BY <1>1, <2>4, <2>6, EntryLater
  <2>8. QED BY <2>2, <2>7, EntryAt
<1>3. ASSUME NEW h \in Handlers
      PROVE  CallSound(call[h])'
  <2>1. PICK c, d : c = call[h] /\ d = call'[h]
    OBVIOUS
  <2>2. c \in CallType /\ CallSound(c) /\ d \in CallType
    BY <1>1, <2>1, CallNow DEF KeysTyped
  <2>3. CASE c.pc = "idle"
    <3>1. d = NoCall
      BY <2>1, <2>3 DEF Tick
    <3>2. CallSound(d)'
      BY <1>1, <3>1, NoCallAt DEF CallSound, SlowestGrow
    <3>3. QED BY <2>1, <3>2, CallAt
  <2>4. CASE c.pc # "idle"
    <3>1. d = [c EXCEPT !.age = @ + 1]
      BY <2>1, <2>4 DEF Tick
    <3>2. /\ d.pc = c.pc /\ d.client = c.client /\ d.user = c.user /\ d.value = c.value
          /\ d.application = c.application /\ d.account = c.account /\ d.age = c.age + 1
      BY <2>2, <3>1 DEF CallType
    <3>3. d.age <= longest'
      <4>1. c.age = longest => longest' = longest + 1
        BY <2>1, <2>4 DEF Tick
      <4>2. c.age \in Nat /\ c.age <= longest
        BY <2>2 DEF CallType, CallSound
      <4>3. QED BY <1>1, <3>2, <4>1, <4>2 DEF SlowestGrow
    <3>4. CallSound(d)'
      BY <1>1, <2>2, <3>2, <3>3, CallLater
    <3>5. QED BY <2>1, <3>4, CallAt
  <2>5. QED BY <2>3, <2>4
<1>4. CachesSound'
  BY <1>2 DEF CachesSound
<1>5. ReplicaSound'
  <2>1. PICK b, t : b = behind /\ t = behind'
    OBVIOUS
  <2>2. /\ Len(b) \in Nat /\ b = [n \in 1 .. Len(b) |-> b[n]]
        /\ \A n \in 1 .. Len(b) : VersionSound(b[n])
    BY <2>1, ReplicaNow DEF KeysInv
  <2>3. t = [n \in 1 .. Len(b) |-> [b[n] EXCEPT !.age = @ + 1]]
    BY <2>1 DEF Tick
  <2>4. Len(t) = Len(b) /\ t = [n \in 1 .. Len(t) |-> t[n]]
    BY <2>2, <2>3
  <2>5. ASSUME NEW n \in 1 .. Len(t)
        PROVE  VersionSound(behind[n])'
    <3>1. PICK v, w : v = b[n] /\ w = t[n]
      OBVIOUS
    <3>2. VersionSound(v) /\ w = [v EXCEPT !.age = @ + 1]
      BY <2>2, <2>3, <2>4, <3>1
    <3>3. w.age = v.age + 1 /\ w.applications = v.applications /\ w.accounts = v.accounts
      BY <3>2
    <3>4. w.age <= furthest'
      <4>1. v.age = furthest => furthest' = furthest + 1
        BY <2>1, <2>2, <2>4, <3>1 DEF Tick
      <4>2. v.age \in Nat /\ v.age <= furthest
        BY <3>2 DEF VersionSound
      <4>3. QED BY <1>1, <3>3, <4>1, <4>2 DEF SlowestGrow
    <3>5. VersionSound(w)'
      BY <1>1, <3>2, <3>3, <3>4, VersionLater
    <3>6. QED BY <2>1, <3>1, <3>5, VersionAt
  <2>6. QED BY <2>1, <2>2, <2>4, <2>5 DEF ReplicaSound
<1>6. QED BY <1>1, <1>3, <1>4, <1>5 DEF KeysInv

\* At the start no key was asked for.
LEMMA KeysInit ==
  ASSUME Init
  PROVE  KeysInv
<1>1. /\ DOMAIN applications = 1 .. 2
      /\ applications \in [1 .. 2 -> [apikey : 1 .. 2, active : BOOLEAN, account_id : Int]]
  <2>1. {1, 2} = 1 .. 2
    OBVIOUS
  <2>2. applications = [a \in 1 .. 2 |-> [apikey |-> a, active |-> TRUE, account_id |-> 1]]
    BY <2>1 DEF Init
  <2>3. QED BY <2>2
<1>2. /\ nextKey = 3 /\ DOMAIN accounts = {1} /\ accounts[1].apikey = 1
      /\ DOMAIN retired = {} /\ retired = [k \in {} |-> None]
      /\ longest = 0 /\ furthest = 0
  BY DEF Init, AccountsInit, Empty
<1>3. /\ call = [h \in Handlers |-> NoCall] /\ call \in [Handlers -> CallType]
  BY NoCallAt DEF Init
<1>4. /\ changed \in [1 .. MaxApps -> [active : 0 .. Horizon, inactive : 0 .. Horizon]]
      /\ renewed \in [1 .. MaxIds -> 0 .. Horizon]
  <2>1. Horizon \in 0 .. Horizon
    BY TimesAre
  <2>2. QED BY <2>1 DEF Init
<1>5. cache = [s \in Servers |-> [k \in Kinds |-> cache[s][k]]]
  BY DEF Init
<1>6. KeysTyped
  <2>1. 2 \in 2 .. MaxApps
    BY TimesAre
  <2>2. QED BY <1>1, <1>2, <1>3, <1>4, <1>5, <2>1 DEF KeysTyped
<1>7. CachesSound
  BY DEF Init, CachesSound, Empty
<1>8. \A h \in Handlers : CallSound(call[h])
  BY <1>2, <1>3, NoCallSound
<1>9. ReplicaSound
  BY EmptySeq DEF Init, ReplicaSound
<1>10. QED BY <1>6, <1>7, <1>8, <1>9 DEF KeysInv

\* Every step keeps the caches and the calls right.
LEMMA KeysNext ==
  ASSUME SessionsInv, AccountsTyped', KeysInv, [Next]_vars
  PROVE  KeysInv'
<1>1. CASE AccountStep
  BY <1>1, AccountStepInv
<1>2. CASE \/ \E a \in DOMAIN accounts : CreateApplication(a)
           \/ \E b \in Browsers : NewApplication(b)
  BY <1>2, InsertApplicationInv DEF CreateApplication, NewApplication
<1>3. CASE \E a \in DOMAIN applications, t \in {"", "0", "1"}, o \in DOMAIN accounts \union {None} :
             UpdateApplicationStatus(a, t, o)
  BY <1>3, UpdateStatusInv
<1>4. ASSUME NEW h \in Handlers, HandlerStep(h)
      PROVE  KeysInv'
  <2>1. CASE \E k \in Kinds : KeyHit(h, k) \/ KeyQuery(h, k) \/ KeyStore(h, k)
    BY <2>1, KeyHitInv, KeyQueryInv, KeyStoreInv
  <2>2. CASE SubmitDone(h)
    BY <2>2, SubmitDoneInv
  <2>3. CASE \E client \in {DemoKey} \union {applications[a].apikey : a \in DOMAIN applications},
                user \in 1 .. nextKey - 1 : SubmitRequest(h, client, user)
    BY <2>3, SubmitRequestInv
  <2>4. QED BY <1>4, <2>1, <2>2, <2>3 DEF HandlerStep
<1>5. CASE (\E s \in Servers : Restart(s)) \/ Replay \/ Tick
  BY <1>5, RestartInv, ReplayInv, TickInv
<1>6. CASE UNCHANGED vars
  <2>1. TablesStill /\ cache' = cache /\ call' = call /\ behind' = behind
    BY <1>6 DEF vars, kvars, avars, site, app_db, ages, slowest, TablesStill
  <2>2. PICK b : b = behind'
    OBVIOUS
  <2>3. /\ Len(b) \in Nat /\ b = [n \in 1 .. Len(b) |-> b[n]]
        /\ \A n \in 1 .. Len(b) : VersionSound(b[n])
    BY <2>1, <2>2, ReplicaNow DEF KeysInv
  <2>4. /\ call' = [g \in Handlers |-> call'[g]]
        /\ \A g \in Handlers : \E d : d = call'[g] /\ d \in CallType /\ CallSound(d)
    BY <2>1, CallNow DEF KeysInv, KeysTyped
  <2>5. QED BY <2>1, <2>2, <2>3, <2>4, CachesStill, AllStill
<1>7. QED BY <1>1, <1>2, <1>3, <1>4, <1>5, <1>6 DEF Next, ApiStep

(* check_api_key on a ':ro' connection, cached in the process: whatever the
   greenlets of a process do between the query and the entry in the cache, an
   answer is as old as the replica was behind, the part of its entry's time that
   is gone, the request that asked and the one that it is used by. *)
THEOREM KeysInvAlways == Spec => []KeysInv
<1>1. Init => KeysInv
  BY KeysInit
<1>2. SessionsInv /\ AccountsTyped' /\ KeysInv /\ [Next]_vars => KeysInv'
  BY KeysNext
<1>3. SessionsInv => AccountsTyped
  BY DEF SessionsInv
<1>4. QED BY <1>1, <1>2, <1>3, SessionsInvAlways, PTL DEF Spec

(* check_app_api_key and check_user_api_key: no submission is stored for an
   application or an account whose key was revoked longer than Window ago, and
   none is refused for an application or an account that had its key that long.
   Window is what the run itself has shown of the times nothing limits: the
   furthest that the replica was behind and the longest that a request took. *)
THEOREM KeysAreHonoured == Spec => []KeysHonoured
<1>1. ASSUME SessionsInv, KeysInv
      PROVE  KeysHonoured
  <2> SUFFICES ASSUME NEW h \in Handlers
               PROVE  LET c == call[h] IN
                      /\ c.pc = "handle" =>
                           /\ \/ /\ c.application \in DOMAIN applications
                                 /\ applications[c.application].apikey = c.client
                                 /\ WasActive(c.application)
                              \/ c.client = DemoKey /\ c.application = DemoApplication
                           /\ \/ c.account \in DOMAIN accounts /\ accounts[c.account].apikey = c.user
                              \/ /\ c.user \in DOMAIN retired
                                 /\ retired[c.user].account = c.account
                                 /\ retired[c.user].age < Window
                      /\ c.pc = "refused" =>
                           IF c.application = None
                             THEN \A a \in DOMAIN applications :
                                    applications[a].apikey = c.client => WasInactive(a)
                             ELSE \A a \in DOMAIN accounts :
                                    accounts[a].apikey = c.user => renewed[a] < Window
    BY DEF KeysHonoured
  <2>1. PICK c, n : c = call[h] /\ n = Known(call[h])
    OBVIOUS
  <2>2. c \in CallType /\ CallSound(c) /\ n = Known(c)
    BY <1>1, <2>1, CallNow
  <2>3. n \in Nat /\ n < Window /\ Window \in Nat
    <3>1. longest \in Nat /\ furthest \in Nat /\ c.age \in Nat /\ c.age <= longest
      BY <1>1, <2>2 DEF CallType, CallSound, KeysInv, KeysTyped
    <3>2. QED BY <2>2, <3>1, TimesAre DEF Known, Window
  <2>4. \A x \in Int : x <= n => x < Window
    BY <2>3
  <2>5. \A a \in DOMAIN applications : changed[a].active \in Int /\ changed[a].inactive \in Int
    BY <1>1, AgesAre DEF KeysInv
  <2>6. \A x \in DOMAIN retired : retired[x].age \in Int
    BY <1>1, AgesAre DEF KeysInv
  <2>7. ASSUME c.pc = "handle"
        PROVE  /\ \/ /\ c.application \in DOMAIN applications
                     /\ applications[c.application].apikey = c.client
                     /\ WasActive(c.application)
                  \/ c.client = DemoKey /\ c.application = DemoApplication
               /\ \/ c.account \in DOMAIN accounts /\ accounts[c.account].apikey = c.user
                  \/ /\ c.user \in DOMAIN retired /\ retired[c.user].account = c.account
                     /\ retired[c.user].age < Window
    <3>1. IsApplication(c.client, c.application, n) /\ IsAccount(c.user, c.account, n)
      BY <2>2, <2>7 DEF CallSound
    <3>2. \/ /\ c.application \in DOMAIN applications
             /\ applications[c.application].apikey = c.client /\ WasActive(c.application)
          \/ c.client = DemoKey /\ c.application = DemoApplication
      BY <2>4, <2>5, <3>1 DEF IsApplication, WasActive
    <3>3. \/ c.account \in DOMAIN accounts /\ accounts[c.account].apikey = c.user
          \/ /\ c.user \in DOMAIN retired /\ retired[c.user].account = c.account
             /\ retired[c.user].age < Window
      BY <2>4, <2>6, <3>1 DEF IsAccount
    <3>4. QED BY <3>2, <3>3
  <2>8. ASSUME c.pc = "refused", c.application = None
        PROVE  \A a \in DOMAIN applications : applications[a].apikey = c.client => WasInactive(a)
    <3>1. IsNoApplication(c.client, n)
      BY <2>2, <2>8 DEF CallSound
    <3>2. QED BY <2>4, <2>5, <3>1 DEF IsNoApplication, WasInactive
  <2>9. ASSUME c.pc = "refused", c.application # None
        PROVE  \A a \in DOMAIN accounts : accounts[a].apikey = c.user => renewed[a] < Window
    <3>1. IsNoAccount(c.user, n)
      BY <2>2, <2>9 DEF CallSound
    <3>2. \A a \in DOMAIN accounts : renewed[a] \in Int
      BY <1>1, RenewalsAre DEF KeysInv
    <3>3. QED BY <2>4, <3>1, <3>2 DEF IsNoAccount
  <2>10. QED BY <2>1, <2>7, <2>8, <2>9
<1>2. QED BY <1>1, KeysInvAlways, SessionsInvAlways, PTL
=============================================================================
