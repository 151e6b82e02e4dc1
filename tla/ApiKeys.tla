------------------------------- MODULE ApiKeys -------------------------------
(***************************************************************************)
(* API keys (acoustid/api/v2/__init__.py, internal.py, data/application.py *)
(* and web/views/apps.py) on top of the accounts.  A submission names an   *)
(* application key and an account key; each is resolved by a query whose   *)
(* answer, no answer included, every server process keeps for a minute, in *)
(* one cache per kind of key.  The query goes to the ':ro' database, a     *)
(* replica that lags behind the tables by what it has not replayed yet.    *)
(* The greenlets of a process work on requests at the same time and share  *)
(* its caches.  Meanwhile applications are made, switched off and on, and  *)
(* accounts change keys.                                                   *)
(*                                                                         *)
(* A key may be an application's and an account's at once.  Time is kept   *)
(* as ages: what is left of an entry, how old a change is.  Nothing limits *)
(* the time of a request or the lag of the replica but the bounds of       *)
(* exploration: the longest of either so far is in a history variable.     *)
(***************************************************************************)
EXTENDS Accounts, Sequences

CONSTANTS
  Servers,     \* server processes
  Handlers,    \* greenlets, one request at a time each
  ServerOf,    \* the process of each
  TTL,         \* time an entry of the cache is used (60 s in the code)
  MaxRequest,  \* bound: time a request takes
  MaxLag,      \* bound: time the replica is behind
  MaxApps      \* bound: applications

\* Two applications are there from the start.
ASSUME TimeAssumption ==
  /\ TTL \in Nat \ {0} /\ MaxRequest \in Nat /\ MaxLag \in Nat
  /\ MaxApps \in Nat /\ MaxApps >= 2 /\ ServerOf \in [Handlers -> Servers]

DemoKey == 0           \* the key of the demo client
DemoApplication == 2   \* DEMO_APPLICATION_ID

VARIABLES
  applications,  \* application: a function from ids to rows
  behind,        \* earlier states of the tables that the replica has not left,
                 \* oldest first, and how long ago each was the last one
  cache,         \* per server and kind of key: the entries by key
  call,          \* the submission each greenlet works on
  changed,       \* history: how long ago each application was active, and not
  renewed,       \* history: how long ago each account did not have its key
  retired,       \* history: account and age of each key that was replaced
  longest,       \* history: the longest that a request has taken
  furthest       \* history: the furthest that the replica was behind

ages == <<changed, renewed, retired>>
slowest == <<longest, furthest>>
kvars == <<applications, behind, cache, call, ages, slowest>>
vars == <<avars, kvars>>

Kinds == {"client", "user"}
NoCall == [pc |-> "idle", client |-> None, user |-> None, application |-> None,
           account |-> None, value |-> None, age |-> 0]
Empty == [x \in {} |-> None]

\* Ages do not matter beyond this.
Horizon == TTL + MaxLag + 2 * MaxRequest

Init ==
  /\ AccountsInit
  /\ applications = [a \in {1, 2} |->
       [apikey |-> a, active |-> TRUE, account_id |-> 1]]
  /\ behind = <<>>
  /\ cache = [s \in Servers |-> [k \in Kinds |-> Empty]]
  /\ call = [h \in Handlers |-> NoCall]
  /\ changed = [a \in 1 .. MaxApps |-> [active |-> Horizon, inactive |-> Horizon]]
  /\ renewed = [a \in 1 .. MaxIds |-> Horizon] /\ retired = Empty
  /\ longest = 0 /\ furthest = 0

-----------------------------------------------------------------------------
(* The replica *)

Tables == [applications |-> applications, accounts |-> accounts, age |-> 0]

\* A commit changes the tables, which the replica has still to replay.
Committed ==
  behind' = IF applications' = applications /\ accounts' = accounts THEN behind
            ELSE Append(behind, Tables)

Replica == IF behind = <<>> THEN Tables ELSE Head(behind)

Replay ==
  /\ behind # <<>>
  /\ behind' = Tail(behind)
  /\ UNCHANGED <<avars, applications, cache, call, ages, slowest>>

-----------------------------------------------------------------------------
(* Applications *)

InsertApplication(account) ==
  LET a == Cardinality(DOMAIN applications) + 1 IN
  /\ Event /\ a <= MaxApps /\ nextKey <= MaxKeys
  /\ account \in DOMAIN accounts
  /\ applications' = With(applications, a,
       [apikey |-> nextKey, active |-> TRUE, account_id |-> account])
  /\ nextKey' = nextKey + 1
  /\ changed' = [changed EXCEPT ![a].inactive = 0]
  /\ UNCHANGED <<spelling, accounts, openids, googles, nextId, nextToken, cookie, req,
                 history, cache, call, renewed, retired, slowest>>
  /\ Committed

\* Made by the internal API, for any account that exists.
CreateApplication(account) == InsertApplication(account)

\* Made on the web site by a signed-in user with a filled-in form.
NewApplication(b) == InsertApplication(cookie[b].id)

\* Its id, looked for under its account when one is given.
LookupApplicationId(a, account) ==
  a \in DOMAIN applications /\ account \in {None, applications[a].account_id}

\* bool() of the active parameter: any text, "0" included, switches it on; only
\* leaving it out or empty switches the application off.
UpdateApplicationStatus(a, text, account) ==
  LET active == text # "" IN
  /\ Event
  /\ LookupApplicationId(a, account)
  /\ applications' = [applications EXCEPT ![a].active = active]
  /\ changed' = [changed EXCEPT ![a] =
       IF applications[a].active THEN [@ EXCEPT !.active = 0] ELSE [@ EXCEPT !.inactive = 0]]
  /\ UNCHANGED <<site, cache, call, renewed, retired, slowest>>
  /\ Committed

-----------------------------------------------------------------------------
(* Checking a key *)

LookupApplicationIdByApikey(apps, key) ==
  {a \in DOMAIN apps : apps[a].apikey = key /\ apps[a].active}

\* A key computed from the secret and the day: today's and those of the next
\* six days are good, which one value stands for.
CheckDemoClientApiKey(key) == key = DemoKey

CheckAppApiKey(apps, key) ==
  LET found == LookupApplicationIdByApikey(apps, key)
  IN CASE found # {} -> CHOOSE a \in found : TRUE
       [] found = {} /\ CheckDemoClientApiKey(key) -> DemoApplication
       [] OTHER -> None

CheckUserApiKey(accts, key) ==
  LET found == {a \in DOMAIN accts : accts[a].apikey = key} IN
  IF found = {} THEN None ELSE CHOOSE a \in found : TRUE

\* What the database answers when its tables are those.
CheckApiKey(tables, kind, key) ==
  IF kind = "client" THEN CheckAppApiKey(tables.applications, key)
                     ELSE CheckUserApiKey(tables.accounts, key)

\* One cache for both kinds of keys.
CacheOfAll(kind) == "client"

CacheOf(kind) == kind

Cached(h, kind, key) ==
  key \in DOMAIN cache[ServerOf[h]][CacheOf(kind)]

\* Submit reads the keys.
SubmitRequest(h, client, user) ==
  /\ call[h].pc = "idle" /\ Event
  /\ call' = [call EXCEPT ![h] = [NoCall EXCEPT !.pc = "client", !.client = client,
                                                !.user = user]]
  /\ UNCHANGED <<site, applications, behind, cache, ages, slowest>>

\* What happens to a key once its id, or None, is known.
Resolved(c, id) ==
  IF id = None THEN [c EXCEPT !.pc = "refused"]
  ELSE IF c.pc \in {"client", "client_store"}
         THEN [c EXCEPT !.pc = "user", !.application = id]
         ELSE [c EXCEPT !.pc = "handle", !.account = id]

KeyHit(h, kind) ==
  /\ call[h].pc = kind
  /\ Cached(h, kind, call[h][kind])
  /\ call' = [call EXCEPT ![h] =
       Resolved(@, cache[ServerOf[h]][CacheOf(kind)][@[kind]].id)]
  /\ UNCHANGED <<avars, applications, behind, cache, ages, slowest>>

\* On a read-only connection; other greenlets go on until the answer is there.
KeyQuery(h, kind) ==
  /\ call[h].pc = kind
  /\ ~ Cached(h, kind, call[h][kind])
  /\ call' = [call EXCEPT
       ![h].pc = IF kind = "client" THEN "client_store" ELSE "user_store",
       ![h].value = CheckApiKey(Replica, kind, call[h][kind])]
  /\ UNCHANGED <<avars, applications, behind, cache, ages, slowest>>

KeyStore(h, kind) ==
  LET c == call[h] IN
  /\ c.pc = IF kind = "client" THEN "client_store" ELSE "user_store"
  /\ cache' = [cache EXCEPT ![ServerOf[h]][CacheOf(kind)] =
       With(@, c[kind], [id |-> c.value, left |-> TTL])]
  /\ call' = [call EXCEPT ![h] = [Resolved(@, c.value) EXCEPT !.value = None]]
  /\ UNCHANGED <<avars, applications, behind, ages, slowest>>

\* The submissions are inserted and committed, and the answer is sent; or the
\* request was refused, or failed.
SubmitDone(h) ==
  /\ call[h].pc # "idle"
  /\ call' = [call EXCEPT ![h] = NoCall]
  /\ UNCHANGED <<avars, applications, behind, cache, ages, slowest>>

\* A new process starts with empty caches.
Restart(s) ==
  /\ \E k \in Kinds : cache[s][k] # Empty
  /\ Event
  /\ call' = [h \in Handlers |-> IF ServerOf[h] = s THEN NoCall ELSE call[h]]
  /\ cache' = [cache EXCEPT ![s] = [k \in Kinds |-> Empty]]
  /\ UNCHANGED <<site, applications, behind, ages, slowest>>

Older(age) == IF age < Horizon THEN age + 1 ELSE age

\* Entries of a cache that time out are dropped.
Expired(c) ==
  [x \in {y \in DOMAIN c : c[y].left > 1} |-> [c[x] EXCEPT !.left = @ - 1]]

Tick ==
  /\ \A h \in Handlers : call[h].pc # "idle" => call[h].age < MaxRequest
  /\ \A n \in DOMAIN behind : behind[n].age < MaxLag
  /\ cache' = [s \in Servers |-> [k \in Kinds |-> Expired(cache[s][k])]]
  /\ call' = [h \in Handlers |-> IF call[h].pc = "idle" THEN NoCall
                                 ELSE [call[h] EXCEPT !.age = @ + 1]]
  /\ behind' = [n \in 1 .. Len(behind) |-> [behind[n] EXCEPT !.age = @ + 1]]
  /\ changed' = [a \in DOMAIN changed |->
       [active |-> Older(changed[a].active), inactive |-> Older(changed[a].inactive)]]
  /\ renewed' = [a \in DOMAIN renewed |-> Older(renewed[a])]
  /\ retired' = [k \in DOMAIN retired |-> [retired[k] EXCEPT !.age = Older(@)]]
  /\ longest' = IF \E h \in Handlers : call[h].pc # "idle" /\ call[h].age = longest
                THEN longest + 1 ELSE longest
  /\ furthest' = IF \E n \in DOMAIN behind : behind[n].age = furthest
                 THEN furthest + 1 ELSE furthest
  /\ UNCHANGED <<avars, applications>>

-----------------------------------------------------------------------------
HandlerStep(h) ==
  \/ \E k \in Kinds : KeyHit(h, k) \/ KeyQuery(h, k) \/ KeyStore(h, k)
  \/ SubmitDone(h)
  \/ \E client \in {DemoKey} \union {applications[a].apikey : a \in DOMAIN applications},
        user \in 1 .. nextKey - 1 : SubmitRequest(h, client, user)

\* A step of the accounts as the keys see it: one that was replaced is retired.
KeysNoted ==
  LET replaced == {a \in DOMAIN accounts : accounts'[a].apikey # accounts[a].apikey}
      made == replaced \union (DOMAIN accounts' \ DOMAIN accounts)
  IN /\ retired' = IF replaced = {} THEN retired
                   ELSE LET a == CHOOSE a \in replaced : TRUE
                        IN With(retired, accounts[a].apikey, [account |-> a, age |-> 0])
     /\ renewed' = [a \in DOMAIN renewed |-> IF a \in made THEN 0 ELSE renewed[a]]
     /\ UNCHANGED <<applications, cache, call, changed, slowest>>
     /\ Committed

AccountStep == AccountsNext /\ KeysNoted

ApiStep ==
  \/ \E a \in DOMAIN accounts : CreateApplication(a)
  \/ \E b \in Browsers : NewApplication(b)
  \/ \E a \in DOMAIN applications, t \in {"", "0", "1"}, o \in DOMAIN accounts \union {None} :
       UpdateApplicationStatus(a, t, o)
  \/ \E h \in Handlers : HandlerStep(h)
  \/ \E s \in Servers : Restart(s)
  \/ Replay \/ Tick

Next == AccountStep \/ ApiStep

Spec == Init /\ [][Next]_vars

-----------------------------------------------------------------------------
(* Properties *)

\* An answer is older than the tables by what the replica was behind, by the time
\* that it was cached, and by the request that asked and the one that uses it.
Window == TTL + furthest + 2 * longest

\* Was the application in that state less than Window ago?
WasActive(a) == applications[a].active \/ changed[a].active < Window
WasInactive(a) == ~ applications[a].active \/ changed[a].inactive < Window

(* A submission is stored for the application and the account that its keys
   stood for.  Revocation works with delay: an application that was switched
   off, or a key that was replaced, is good for the time of the cache, of the
   replica's lag, of the request that filled the cache and of the one that uses
   it, and no longer; and for no longer are those refused that were switched
   on, or made.  Greenlets share a cache, but none gets the answer to another
   key, and a key that serves as both kinds is never taken for the other. *)
KeysHonoured ==
  \A h \in Handlers :
    LET c == call[h] IN
    /\ c.pc = "handle" =>
         /\ \/ /\ c.application \in DOMAIN applications
               /\ applications[c.application].apikey = c.client /\ WasActive(c.application)
            \/ c.client = DemoKey /\ c.application = DemoApplication
         /\ \/ c.account \in DOMAIN accounts /\ accounts[c.account].apikey = c.user
            \/ /\ c.user \in DOMAIN retired /\ retired[c.user].account = c.account
               /\ retired[c.user].age < Window
    /\ c.pc = "refused" =>
         IF c.application = None
           THEN \A a \in DOMAIN applications :
                  applications[a].apikey = c.client => WasInactive(a)
           ELSE \A a \in DOMAIN accounts : accounts[a].apikey = c.user => renewed[a] < Window
-----------------------------------------------------------------------------
(* The inductive invariant behind them *)

CallType ==
  [pc : {"idle", "client", "client_store", "user", "user_store", "handle", "refused"},
   client : Int \union {None}, user : Int \union {None}, application : Int \union {None},
   account : Int \union {None}, value : Int \union {None}, age : Nat]

\* Keys are made once: an account's key is no other's, and no replaced one.
KeysTyped ==
  /\ \E n \in 2 .. MaxApps : DOMAIN applications = 1 .. n
  /\ applications \in [DOMAIN applications ->
       [apikey : 1 .. nextKey - 1, active : BOOLEAN, account_id : Int]]
  /\ changed \in [1 .. MaxApps -> [active : 0 .. Horizon, inactive : 0 .. Horizon]]
  /\ \A a \in DOMAIN accounts : accounts[a].apikey \in 1 .. nextKey - 1
  /\ \A a, b \in DOMAIN accounts : accounts[a].apikey = accounts[b].apikey => a = b
  /\ renewed \in [1 .. MaxIds -> 0 .. Horizon]
  /\ DOMAIN retired \subseteq 1 .. nextKey - 1
  /\ retired \in [DOMAIN retired -> [account : DOMAIN accounts, age : 0 .. Horizon]]
  /\ \A a \in DOMAIN accounts : accounts[a].apikey \notin DOMAIN retired
  /\ longest \in Nat /\ furthest \in Nat
  /\ call \in [Handlers -> CallType]
  /\ cache = [s \in Servers |-> [k \in Kinds |-> cache[s][k]]]

\* Key k stood for application id within the last m units of time, or for none.
IsApplication(k, id, m) ==
  \/ /\ id \in DOMAIN applications /\ applications[id].apikey = k
     /\ applications[id].active \/ changed[id].active <= m
  \/ k = DemoKey /\ id = DemoApplication

IsNoApplication(k, m) ==
  \A a \in DOMAIN applications :
    applications[a].apikey = k => ~ applications[a].active \/ changed[a].inactive <= m

\* Key k stood for account id within the last m units of time, or for none.
IsAccount(k, id, m) ==
  \/ id \in DOMAIN accounts /\ accounts[id].apikey = k
  \/ k \in DOMAIN retired /\ retired[k].account = id /\ retired[k].age <= m

IsNoAccount(k, m) ==
  \A a \in DOMAIN accounts : accounts[a].apikey = k => renewed[a] <= m

\* What a query of that kind answers, at most m units of time later.
IsAnswer(kind, k, id, m) ==
  /\ kind = "user" /\ id # None => IsAccount(k, id, m)
  /\ kind = "user" /\ id = None => IsNoAccount(k, m)
  /\ kind = "client" /\ id # None => IsApplication(k, id, m)
  /\ kind = "client" /\ id = None => IsNoApplication(k, m)

\* The answers of an earlier state of the tables are as old as that state.
VersionSound(v) ==
  /\ v.age \in Nat /\ v.age <= furthest
  /\ \A kind \in Kinds, k \in Nat :
       LET id == CheckApiKey(v, kind, k)
       IN id \in Int \union {None} /\ IsAnswer(kind, k, id, v.age)

ReplicaSound ==
  /\ behind = [n \in 1 .. Len(behind) |-> behind[n]] /\ Len(behind) \in Nat
  /\ \A n \in 1 .. Len(behind) : VersionSound(behind[n])

\* An entry is as old as the part of its time that is gone, the request that made
\* it, and what the replica was behind.
EntrySound(kind, k, e) ==
  /\ e \in [id : Int \union {None}, left : 1 .. TTL]
  /\ IsAnswer(kind, k, e.id, furthest + longest + TTL - e.left)

CachesSound ==
  \A s \in Servers, kind \in Kinds :
    \A k \in DOMAIN cache[s][kind] : EntrySound(kind, k, cache[s][kind][k])

\* What a request knows has come from a cache, or from a query since it began.
Known(c) == furthest + longest + TTL - 1 + c.age

CallSound(c) ==
  /\ c.age <= longest
  /\ c.pc # "idle" => c.client \in Nat /\ c.user \in Nat
  /\ c.pc \in {"client", "client_store"} => c.application = None
  /\ c.pc = "client_store" => IsAnswer("client", c.client, c.value, furthest + c.age)
  /\ c.pc = "user_store" => IsAnswer("user", c.user, c.value, furthest + c.age)
  /\ c.pc \in {"user", "user_store", "handle"} =>
       c.application # None /\ IsApplication(c.client, c.application, Known(c))
  /\ c.pc = "handle" => IsAccount(c.user, c.account, Known(c))
  /\ c.pc = "refused" =>
       IF c.application = None THEN IsNoApplication(c.client, Known(c))
       ELSE IsNoAccount(c.user, Known(c))

KeysInv ==
  KeysTyped /\ ReplicaSound /\ CachesSound /\ \A h \in Handlers : CallSound(call[h])
=============================================================================
