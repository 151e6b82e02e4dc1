--------------------------- MODULE IndexPoolProofs ---------------------------
(***************************************************************************)
(* Proofs about IndexPool, for any users, clients, limit of the pool and   *)
(* faults.  A step of a user or of the server touches one connection: its  *)
(* record, what was sent on it, its answers and its transaction become     *)
(* values k, s, a and t that satisfy LineSound and HolderSound, and        *)
(* Elsewhere says that nothing else is disturbed.                          *)
(***************************************************************************)
EXTENDS IndexPool, FiniteSetTheorems, TLAPS

Sendings == Seq(Users \X Commands)
Lines == Seq(Users \X Commands \X {"OK", "ERR"})

\* Own, of a transaction t.
Owned(t, u) == t = NoClient \/ t \subseteq {u}

\* ClientSound, of a connection with these values, without who waits for it.
LineSound(k, s, a, t) ==
  /\ ~ k.open => a = <<>> /\ ~ k.in_transaction
  /\ \A i \in 1 .. Len(s) : s[i][2] = "commit" => i = 1 /\ Owned(t, s[i][1])

\* UserSound, of a user whose record is q and whose connection has these values.
HolderSound(u, q, k, s, a, t) ==
  /\ q.client = NoClient <=> q.pc \in {"idle", "reconnect"}
  /\ q.pc \in Waiting \union {"use", "close"} => k.open
  /\ q.pc \in Waiting =>
       \/ s = << <<u, Asked(q)>> >> /\ a = <<>>
       \/ s = <<>> /\ \E word \in {"OK", "ERR"} : a = << <<u, Asked(q), word>> >>
  /\ q.pc = "wait" => q.script # <<>>
  /\ q.pc \in {"ping", "reconnect"} => q.script \in Scripts
  /\ q.pc \in {"use", "wait"} /\ q.script \in {<<"insert", "commit">>, <<"commit">>} => Owned(t, u)
  /\ q.pc = "wait" /\ Head(q.script) = "begin" /\ a # <<>> /\ a[1][3] = "OK" => Owned(t, u)

(* Writing back the value that is there changes nothing. *)
LEMMA SameAt ==
  ASSUME NEW f, NEW c, f = [d \in DOMAIN f |-> f[d]]
  PROVE  f = [f EXCEPT ![c] = f[c]]
  OBVIOUS

(* What the invariant says of a user, in terms of the connection it holds. *)
LEMMA Holder ==
  ASSUME PoolInv, NEW u \in Users, NEW c \in Clients, user[u].client \in {c, NoClient}
  PROVE  HolderSound(u, user[u], client[c], sent[c], answers[c], txn[c])
<1>1. UserSound(u) /\ NoClient \notin Clients
  BY PoolAssumption DEF PoolInv
<1>2. CASE user[u].client = c
  BY <1>1, <1>2, SMTT(30) DEF UserSound, HolderSound, Own, Owned
<1>3. CASE user[u].client = NoClient
  BY <1>1, <1>3, SMTT(30) DEF UserSound, HolderSound, Waiting
<1> QED BY <1>2, <1>3

(* What it says of a connection. *)
LEMMA Line ==
  ASSUME PoolInv, NEW c \in Clients
  PROVE  /\ LineSound(client[c], sent[c], answers[c], txn[c])
         /\ client[c].open /\ (sent[c] # <<>> \/ answers[c] # <<>>) =>
              \E u \in Users : user[u].client = c /\ user[u].pc \in Waiting
<1>1. ClientSound(c)
  BY DEF PoolInv
<1> QED BY <1>1 DEF ClientSound, LineSound, Own, Owned

(* The values of a connection and of a user have their types. *)
LEMMA Typed ==
  ASSUME PoolInv
  PROVE  /\ \A c \in Clients : client[c] \in ClientType /\ sent[c] \in Sendings
                               /\ answers[c] \in Lines
         /\ \A u \in Users : user[u] \in UserType
  BY DEF PoolInv, PoolTyped, Sendings, Lines

(* A step that touches the connection c and the users D, who hold c or nothing
   before and after, leaves the invariant true everywhere else. *)
LEMMA Elsewhere ==
  ASSUME PoolInv, NEW c \in Clients, NEW D \in SUBSET Users,
         NEW k \in ClientType, NEW s \in Sendings, NEW a \in Lines, NEW t,
         client' = [client EXCEPT ![c] = k], sent' = [sent EXCEPT ![c] = s],
         answers' = [answers EXCEPT ![c] = a], txn' = [txn EXCEPT ![c] = t],
         user' \in [Users -> UserType], pool' \in Seq(Clients), PoolKept', foreign' = FALSE,
         HeldOnce',
         \A v \in Users \ D : user'[v] = user[v] /\ user[v].client # c,
         \A v \in D : /\ user[v].client \in {c, NoClient} /\ user'[v].client \in {c, NoClient}
                      /\ HolderSound(v, user'[v], k, s, a, t),
         LineSound(k, s, a, t),
         k.open /\ (s # <<>> \/ a # <<>>) =>
           \E v \in D : user'[v].client = c /\ user'[v].pc \in Waiting
  PROVE  PoolInv'
<1>0. PoolTyped /\ NoClient \notin Clients
  BY PoolAssumption DEF PoolInv
<1>1. PoolTyped'
  BY <1>0 DEF PoolTyped, Sendings, Lines
<1>2. client'[c] = k /\ sent'[c] = s /\ answers'[c] = a /\ txn'[c] = t
  BY <1>0 DEF PoolTyped
<1>3. ASSUME NEW d \in Clients \ {c}
      PROVE  client'[d] = client[d] /\ sent'[d] = sent[d] /\ answers'[d] = answers[d]
             /\ txn'[d] = txn[d]
  BY <1>0 DEF PoolTyped
<1>4. ASSUME NEW d \in Clients
      PROVE  ClientSound(d)'
  <2>1. CASE d = c
    BY <1>2, <2>1 DEF ClientSound, LineSound, Own, Owned
  <2>2. CASE d # c
    <3>1. ClientSound(d)
      BY DEF PoolInv
    <3>2. ASSUME NEW v \in Users, user[v].client = d
          PROVE  user'[v] = user[v]
      BY <3>2, <2>2, <1>0
    <3> QED BY <3>1, <3>2, <2>2, <1>3 DEF ClientSound, Own
  <2> QED BY <2>1, <2>2
<1>5. ASSUME NEW v \in Users
      PROVE  UserSound(v)'
  <2>1. CASE v \in D /\ user'[v].client = c
    <3>1. HolderSound(v, user'[v], client'[c], sent'[c], answers'[c], txn'[c])
      BY <2>1, <1>2
    <3> QED BY <2>1, <3>1 DEF UserSound, HolderSound, Own, Owned
  <2>2. CASE v \in D /\ user'[v].client = NoClient
    BY <2>2 DEF UserSound, HolderSound, Waiting
  <2>3. CASE v \notin D
    <3>1. user'[v] = user[v] /\ user[v].client # c /\ user[v].client \in Clients \union {NoClient}
      BY <2>3, <1>0 DEF PoolTyped, UserType
    <3>2. UserSound(v)
      BY DEF PoolInv
    <3>3. CASE user[v].client = NoClient
      BY <3>1, <3>2, <3>3 DEF UserSound, Waiting
    <3>4. CASE user[v].client # NoClient
      <4>1. PICK d \in Clients \ {c} : d = user[v].client
        BY <3>1, <3>4
      <4>2. client'[d] = client[d] /\ sent'[d] = sent[d] /\ answers'[d] = answers[d]
            /\ txn'[d] = txn[d]
        BY <1>3
      <4>3. HolderSound(v, user[v], client[d], sent[d], answers[d], txn[d])
        BY <4>1, Holder
      <4>4. HolderSound(v, user'[v], client'[d], sent'[d], answers'[d], txn'[d])
        BY <4>2, <4>3, <3>1
      <4>5. user'[v].client = d
        BY <4>1, <3>1
      <4> QED BY <4>4, <4>5 DEF UserSound, HolderSound, Own, Owned
    <3> QED BY <3>3, <3>4
  <2> QED BY <2>1, <2>2, <2>3
<1> QED BY <1>1, <1>4, <1>5 DEF PoolInv, OwnCommits

(* The step of one user u, who has the connection c or none before and after,
   while nobody else has it: then the record of u becomes q. *)
LEMMA Alone ==
  ASSUME PoolInv, NEW c \in Clients, NEW u \in Users, NEW q \in UserType,
         NEW k \in ClientType, NEW s \in Sendings, NEW a \in Lines,
         client' = [client EXCEPT ![c] = k], sent' = [sent EXCEPT ![c] = s],
         answers' = [answers EXCEPT ![c] = a], UNCHANGED server,
         user' = [user EXCEPT ![u] = q], pool' \in Seq(Clients), PoolKept',
         user[u].client \in {c, NoClient}, q.client \in {c, NoClient},
         \A v \in Users \ {u} : user[v].client # c,
         HolderSound(u, q, k, s, a, txn[c]), LineSound(k, s, a, txn[c]),
         k.open /\ (s # <<>> \/ a # <<>>) => q.client = c /\ q.pc \in Waiting
  PROVE  PoolInv'
<1>1. user \in [Users -> UserType] /\ DOMAIN txn = Clients /\ foreign = FALSE /\ HeldOnce
  BY DEF PoolInv, PoolTyped, OwnCommits
<1>2. user'[u] = q /\ \A v \in Users \ {u} : user'[v] = user[v]
  BY <1>1
<1>3. user' \in [Users -> UserType]
  BY <1>1
<1>4. HeldOnce'
  BY <1>1, <1>2 DEF HeldOnce
<1>5. txn' = [txn EXCEPT ![c] = txn[c]] /\ foreign' = FALSE
  <2>1. txn' = txn /\ foreign' = FALSE
    BY <1>1 DEF server
  <2>2. txn = [d \in DOMAIN txn |-> txn[d]]
    <3>1. txn = [d \in Clients |-> txn[d]]
      BY DEF PoolInv, PoolTyped
    <3> QED BY <3>1, <1>1
  <2> QED BY <2>1, <2>2, SameAt
<1>6. PICK D \in SUBSET Users : D = {u}
  OBVIOUS
<1>7. \A v \in D : /\ user[v].client \in {c, NoClient} /\ user'[v].client \in {c, NoClient}
                   /\ HolderSound(v, user'[v], k, s, a, txn[c])
  BY <1>2, <1>6
<1>8. k.open /\ (s # <<>> \/ a # <<>>) =>
        \E v \in D : user'[v].client = c /\ user'[v].pc \in Waiting
  BY <1>2, <1>6
<1>9. \A v \in Users \ D : user'[v] = user[v] /\ user[v].client # c
  BY <1>2, <1>6
<1> QED BY <1>3, <1>4, <1>5, <1>7, <1>8, <1>9, Elsewhere

(* Closing a connection leaves it with at most a rollback that nobody waits
   for. *)
LEMMA Closes ==
  ASSUME PoolInv, NEW c \in Clients, NEW u \in Users, Close(u, c)
  PROVE  \E s \in Sendings :
           /\ client' = [client EXCEPT ![c] = Closed] /\ sent' = [sent EXCEPT ![c] = s]
           /\ answers' = [answers EXCEPT ![c] = <<>>]
           /\ LineSound(Closed, s, <<>>, txn[c])
<1>1. sent[c] \in Sendings /\ sent \in [Clients -> Sendings]
  BY DEF PoolInv, PoolTyped, Sendings
<1>2. LineSound(client[c], sent[c], answers[c], txn[c])
  BY Line
<1>3. CASE client[c].in_transaction
  <2>1. PICK s : s = Append(sent[c], <<u, "rollback">>)
    OBVIOUS
  <2>2. s \in Sendings
    BY <2>1, <1>1 DEF Sendings, Commands
  <2>3. sent' = [sent EXCEPT ![c] = s]
    BY <1>3, <2>1 DEF Close, Send
  <2>4. ASSUME NEW i \in 1 .. Len(s), s[i][2] = "commit"
        PROVE  i = 1 /\ Owned(txn[c], s[i][1])
    <3>1. i \in 1 .. Len(sent[c]) /\ s[i] = sent[c][i]
      BY <2>1, <2>4, <1>1 DEF Sendings
    <3> QED BY <3>1, <1>2, <2>4 DEF LineSound
  <2>5. LineSound(Closed, s, <<>>, txn[c])
    BY <2>4 DEF LineSound, Closed
  <2> QED BY <2>2, <2>3, <2>5 DEF Close
<1>4. CASE ~ client[c].in_transaction
  <2>1. sent' = [sent EXCEPT ![c] = sent[c]]
    BY <1>4, <1>1 DEF Close
  <2>2. LineSound(Closed, sent[c], <<>>, txn[c])
    BY <1>2 DEF LineSound, Closed
  <2> QED BY <1>1, <2>1, <2>2 DEF Close
<1> QED BY <1>3, <1>4

(* Closed is a client like any other, and so is one that was just opened. *)
LEMMA ClosedTyped == Closed \in ClientType /\ ~ Closed.open /\ ~ Closed.in_transaction
  BY DEF Closed, ClientType

(* The pool stays as it is when a step changes a connection it does not have. *)
LEMMA SameKept ==
  ASSUME PoolInv, NEW c \in Clients, NEW u \in Users, NEW q \in UserType, NEW k,
         pool' = pool, user' = [user EXCEPT ![u] = q], client' = [client EXCEPT ![c] = k],
         q.client \in {c, NoClient}, \A i \in 1 .. Len(pool) : pool[i] # c
  PROVE  pool' \in Seq(Clients) /\ PoolKept'
<1>1. /\ pool \in Seq(Clients) /\ user \in [Users -> UserType] /\ client \in [Clients -> ClientType]
      /\ PoolKept /\ NoClient \notin Clients
  BY PoolAssumption DEF PoolInv, PoolTyped
<1> QED BY <1>1 DEF PoolKept

(* A client that somebody has, or that is closed, is not in the pool. *)
LEMMA NotInPool ==
  ASSUME PoolInv, NEW c \in Clients, ~ client[c].open \/ \E u \in Users : user[u].client = c
  PROVE  \A i \in 1 .. Len(pool) : pool[i] # c
  BY DEF PoolInv, PoolKept

(* The first client of the pool is open, nobody has it and nothing is under way
   on it. *)
LEMMA HeadOfPool ==
  ASSUME PoolInv, pool # <<>>
  PROVE  /\ Head(pool) \in Clients /\ client[Head(pool)].open
         /\ \A v \in Users : user[v].client # Head(pool)
         /\ sent[Head(pool)] = <<>> /\ answers[Head(pool)] = <<>>
<1>1. /\ pool \in Seq(Clients) /\ PoolKept
  BY DEF PoolInv, PoolTyped
<1>2. Head(pool) = pool[1] /\ 1 \in 1 .. Len(pool) /\ Head(pool) \in Clients
  BY <1>1
<1>3. client[Head(pool)].open /\ \A v \in Users : user[v].client # Head(pool)
  BY <1>1, <1>2 DEF PoolKept
<1> QED BY <1>2, <1>3, Line

(* The rest of the pool is as it was when its first client is taken. *)
LEMMA TailKept ==
  ASSUME PoolInv, pool # <<>>, NEW k, pool' = Tail(pool),
         client' = [client EXCEPT ![Head(pool)] = k],
         \A v \in Users : user'[v] = user[v] \/ user'[v].client \in {Head(pool), NoClient}
  PROVE  pool' \in Seq(Clients) /\ PoolKept'
<1>1. /\ pool \in Seq(Clients) /\ client \in [Clients -> ClientType] /\ PoolKept
      /\ NoClient \notin Clients
  BY PoolAssumption DEF PoolInv, PoolTyped
<1>2. pool' \in Seq(Clients) /\ Len(pool') = Len(pool) - 1 /\ Len(pool) \in Nat
  BY <1>1
<1>3. \A i \in 1 .. Len(pool') : pool'[i] = pool[i + 1] /\ i + 1 \in 1 .. Len(pool)
  BY <1>1
<1>4. Head(pool) = pool[1] /\ 1 \in 1 .. Len(pool)
  BY <1>1
<1>5. Len(pool') <= MaxIdleClients
  BY <1>1, <1>2, PoolAssumption DEF PoolKept
<1>6. ASSUME NEW i \in 1 .. Len(pool'), NEW j \in 1 .. Len(pool'), pool'[i] = pool'[j]
      PROVE  i = j
  <2>1. i + 1 = j + 1
    BY <1>1, <1>3, <1>6 DEF PoolKept
  <2> QED BY <2>1
<1>7. ASSUME NEW i \in 1 .. Len(pool')
      PROVE  client'[pool'[i]].open /\ \A u \in Users : user'[u].client # pool'[i]
  <2>1. PICK m \in 1 .. Len(pool) : m = i + 1 /\ pool'[i] = pool[m]
    BY <1>3
  <2>2. pool[m] # Head(pool) /\ pool[m] \in Clients
    BY <2>1, <1>1, <1>4 DEF PoolKept
  <2>3. client'[pool[m]] = client[pool[m]]
    BY <2>2, <1>1
  <2>4. client[pool[m]].open /\ \A u \in Users : user[u].client # pool[m]
    BY <1>1 DEF PoolKept
  <2> QED BY <2>1, <2>2, <2>3, <2>4, <1>1
<1> QED BY <1>2, <1>5, <1>6, <1>7 DEF PoolKept

\* What is left of a script past its begin.
PastBegin == {<<"insert", "commit">>, <<"commit">>}

(* How the scripts go on. *)
LEMMA RestsGoOn ==
  ASSUME NEW r \in Rests, r # <<>>
  PROVE  /\ Tail(r) \in Rests /\ Head(r) \in Commands
         /\ Head(r) = "commit" => r = <<"commit">>
         /\ Tail(r) \in PastBegin => r \in PastBegin \/ Head(r) = "begin"
<1>1. CASE r = <<"get", "search">>
  BY <1>1 DEF Rests, Scripts, Commands, PastBegin
<1>2. CASE r = <<"get", "begin", "insert", "commit">>
  BY <1>2 DEF Rests, Scripts, Commands, PastBegin
<1>3. CASE r = <<"search">>
  BY <1>3 DEF Rests, Scripts, Commands, PastBegin
<1>4. CASE r = <<"begin", "insert", "commit">>
  BY <1>4 DEF Rests, Scripts, Commands, PastBegin
<1>5. CASE r = <<"insert", "commit">>
  BY <1>5 DEF Rests, Scripts, Commands, PastBegin
<1>6. CASE r = <<"commit">>
  BY <1>6 DEF Rests, Scripts, Commands, PastBegin
<1> QED BY <1>1, <1>2, <1>3, <1>4, <1>5, <1>6 DEF Rests, Scripts

\* A script that has not begun yet is not past its "begin".
LEMMA ScriptsBegin ==
  ASSUME NEW r \in Scripts
  PROVE  r \in Rests /\ r \notin PastBegin
  BY DEF Rests, Scripts, PastBegin

(* The part of an untouched connection that the lemmas above ask for. *)
LEMMA Untouched ==
  ASSUME PoolInv, NEW c \in Clients
  PROVE  /\ client = [client EXCEPT ![c] = client[c]] /\ sent = [sent EXCEPT ![c] = sent[c]]
         /\ answers = [answers EXCEPT ![c] = answers[c]]
  BY DEF PoolInv, PoolTyped

(* A user takes the first client of the pool and pings it. *)
LEMMA ConnectIdleKeeps ==
  ASSUME PoolInv, NEW u \in Users, NEW script \in Scripts, ConnectIdle(u, script)
  PROVE  PoolInv'
<1>1. PICK c \in Clients : c = Head(pool)
  BY HeadOfPool DEF ConnectIdle
<1>2. /\ client[c].open /\ \A v \in Users : user[v].client # c
      /\ sent[c] = <<>> /\ answers[c] = <<>> /\ pool # <<>>
  BY <1>1, HeadOfPool DEF ConnectIdle
<1>3. user[u].client = NoClient
  <2>1. UserSound(u)
    BY DEF PoolInv
  <2> QED BY <2>1 DEF ConnectIdle, UserSound
<1>4. PICK q : q = [pc |-> "ping", client |-> c, script |-> script]
  OBVIOUS
<1>5. q \in UserType /\ q.pc = "ping" /\ q.client = c /\ q.script = script
  BY <1>4, ScriptsBegin DEF UserType
<1>6. PICK s : s = << <<u, "echo">> >>
  OBVIOUS
<1>7. s \in Sendings
  BY <1>6 DEF Sendings, Commands
<1>8. /\ user' = [user EXCEPT ![u] = q] /\ sent' = [sent EXCEPT ![c] = s]
      /\ client' = [client EXCEPT ![c] = client[c]] /\ answers' = [answers EXCEPT ![c] = <<>>]
      /\ UNCHANGED server
  BY <1>1, <1>2, <1>4, <1>6, Untouched DEF ConnectIdle, Send
<1>9. pool' \in Seq(Clients) /\ PoolKept'
  <2>1. \A v \in Users : user'[v] = user[v] \/ user'[v].client \in {c, NoClient}
    BY <1>5, <1>8 DEF PoolInv, PoolTyped
  <2> QED BY <1>1, <1>2, <1>8, <2>1, TailKept DEF ConnectIdle
<1>10. HolderSound(u, q, client[c], s, <<>>, txn[c])
  BY <1>2, <1>5, <1>6, PoolAssumption DEF HolderSound, Waiting, Asked
<1>11. LineSound(client[c], s, <<>>, txn[c])
  <2>1. LineSound(client[c], sent[c], answers[c], txn[c])
    BY Line
  <2> QED BY <2>1, <1>2, <1>6 DEF LineSound
<1>12. client[c] \in ClientType /\ <<>> \in Lines
  BY Typed DEF Lines
<1> QED BY <1>2, <1>3, <1>5, <1>7, <1>8, <1>9, <1>10, <1>11, <1>12, Alone DEF Waiting

(* A user opens a new connection. *)
LEMMA ConnectNewKeeps ==
  ASSUME PoolInv, NEW u \in Users, NEW script \in Scripts, NEW c \in Clients,
         ConnectNew(u, script, c)
  PROVE  PoolInv'
<1>1. /\ ~ client[c].open /\ sent[c] = <<>> /\ answers[c] = <<>> /\ txn[c] = NoClient
      /\ \A v \in Users : user[v].client # c
  BY Line DEF ConnectNew, Unused, LineSound
<1>2. user[u].client = NoClient
  <2>1. UserSound(u)
    BY DEF PoolInv
  <2> QED BY <2>1 DEF ConnectNew, UserSound
<1>3. PICK q : q = [pc |-> "use", client |-> c, script |-> script]
  OBVIOUS
<1>4. q \in UserType /\ q.pc = "use" /\ q.client = c /\ q.script = script
  BY <1>3, ScriptsBegin DEF UserType
<1>5. PICK k : k = [Closed EXCEPT !.open = TRUE]
  OBVIOUS
<1>6. k \in ClientType /\ k.open
  BY <1>5 DEF Closed, ClientType
<1>7. /\ user' = [user EXCEPT ![u] = q] /\ sent' = [sent EXCEPT ![c] = <<>>]
      /\ client' = [client EXCEPT ![c] = k] /\ answers' = [answers EXCEPT ![c] = <<>>]
      /\ UNCHANGED server /\ pool' = pool
  BY <1>1, <1>3, <1>5, Untouched DEF ConnectNew
<1>8. pool' \in Seq(Clients) /\ PoolKept'
  <2>1. \A i \in 1 .. Len(pool) : pool[i] # c
    BY <1>1, NotInPool
  <2> QED BY <1>4, <1>7, <2>1, SameKept
<1>9. HolderSound(u, q, k, <<>>, <<>>, txn[c])
  BY <1>1, <1>4, <1>6, PoolAssumption DEF HolderSound, Waiting, Owned
<1>10. LineSound(k, <<>>, <<>>, txn[c])
  BY <1>6 DEF LineSound
<1>11. <<>> \in Lines /\ <<>> \in Sendings
  BY DEF Lines, Sendings
<1> QED BY <1>1, <1>2, <1>4, <1>6, <1>7, <1>8, <1>9, <1>10, <1>11, Alone

(* A user closes the first client of the pool, which is too old. *)
LEMMA RecycleKeeps ==
  ASSUME PoolInv, NEW u \in Users, Recycle(u)
  PROVE  PoolInv'
<1>1. PICK c \in Clients : c = Head(pool)
  BY HeadOfPool DEF Recycle
<1>2. (\A v \in Users : user[v].client # c) /\ pool # <<>>
  BY <1>1, HeadOfPool DEF Recycle
<1>3. user[u].client = NoClient
  <2>1. UserSound(u)
    BY DEF PoolInv
  <2> QED BY <2>1 DEF Recycle, UserSound
<1>4. PICK script \in Scripts :
        user' = [user EXCEPT ![u] = [Idle EXCEPT !.pc = "reconnect", !.script = script]]
  BY DEF Recycle
<1>5. PICK q : q = [Idle EXCEPT !.pc = "reconnect", !.script = script]
  OBVIOUS
<1>6. q \in UserType /\ q.pc = "reconnect" /\ q.client = NoClient /\ q.script = script
  BY <1>5, ScriptsBegin DEF UserType, Idle
<1>7. PICK s \in Sendings :
        /\ client' = [client EXCEPT ![c] = Closed] /\ sent' = [sent EXCEPT ![c] = s]
        /\ answers' = [answers EXCEPT ![c] = <<>>] /\ LineSound(Closed, s, <<>>, txn[c])
  BY <1>1, Closes DEF Recycle
<1>8. user' = [user EXCEPT ![u] = q] /\ UNCHANGED server
  BY <1>4, <1>5 DEF Recycle
<1>9. pool' \in Seq(Clients) /\ PoolKept'
  <2>1. \A v \in Users : user'[v] = user[v] \/ user'[v].client \in {c, NoClient}
    BY <1>6, <1>8 DEF PoolInv, PoolTyped
  <2> QED BY <1>1, <1>2, <1>7, <2>1, TailKept DEF Recycle
<1>10. HolderSound(u, q, Closed, s, <<>>, txn[c])
  BY <1>6 DEF HolderSound, Waiting
<1>11. <<>> \in Lines
  BY DEF Lines
<1> QED BY <1>2, <1>3, <1>6, <1>7, <1>8, <1>9, <1>10, <1>11, ClosedTyped, Alone

(* The process ends an idle connection. *)
LEMMA DisposeKeeps ==
  ASSUME PoolInv, NEW u \in Users, Dispose(u)
  PROVE  PoolInv'
<1>1. PICK c \in Clients : c = Head(pool)
  BY HeadOfPool DEF Dispose
<1>2. (\A v \in Users : user[v].client # c) /\ pool # <<>> /\ user' = user
  BY <1>1, HeadOfPool DEF Dispose
<1>3. PICK s \in Sendings :
        /\ client' = [client EXCEPT ![c] = Closed] /\ sent' = [sent EXCEPT ![c] = s]
        /\ answers' = [answers EXCEPT ![c] = <<>>] /\ LineSound(Closed, s, <<>>, txn[c])
  BY <1>1, Closes DEF Dispose
<1>4. pool' \in Seq(Clients) /\ PoolKept'
  BY <1>1, <1>2, <1>3, TailKept DEF Dispose
<1>5. txn' = [txn EXCEPT ![c] = txn[c]] /\ foreign' = FALSE
  <2>1. txn = [d \in Clients |-> txn[d]] /\ foreign = FALSE
    BY DEF PoolInv, PoolTyped, OwnCommits
  <2> QED BY <2>1 DEF Dispose, server
<1>6. user' \in [Users -> UserType] /\ HeldOnce'
  BY <1>2 DEF PoolInv, PoolTyped, HeldOnce
<1>7. PICK D \in SUBSET Users : D = {}
  OBVIOUS
<1>8. <<>> \in Lines
  BY DEF Lines
<1>9. \A v \in Users \ D : user'[v] = user[v] /\ user[v].client # c
  BY <1>2
<1>10. \A v \in D : /\ user[v].client \in {c, NoClient} /\ user'[v].client \in {c, NoClient}
                    /\ HolderSound(v, user'[v], Closed, s, <<>>, txn[c])
  BY <1>7
<1> QED BY <1>3, <1>4, <1>5, <1>6, <1>8, <1>9, <1>10, ClosedTyped, Elsewhere

(* A user who is not idle or about to connect has a connection, alone. *)
LEMMA Holds ==
  ASSUME PoolInv, NEW u \in Users, user[u].pc \notin {"idle", "reconnect"}
  PROVE  /\ user[u].client \in Clients
         /\ \A v \in Users \ {u} : user[v].client # user[u].client
         /\ \A i \in 1 .. Len(pool) : pool[i] # user[u].client
         /\ LET c == user[u].client IN
            HolderSound(u, user[u], client[c], sent[c], answers[c], txn[c])
<1>1. user[u].client \in Clients
  <2>1. UserSound(u) /\ user[u] \in UserType
    BY DEF PoolInv, PoolTyped
  <2> QED BY <2>1 DEF UserSound, UserType
<1>2. \A v \in Users \ {u} : user[v].client # user[u].client
  <2>1. HeldOnce /\ NoClient \notin Clients
    BY PoolAssumption DEF PoolInv
  <2> QED BY <1>1, <2>1 DEF HeldOnce
<1>3. PICK c \in Clients : c = user[u].client
  BY <1>1
<1>4. HolderSound(u, user[u], client[c], sent[c], answers[c], txn[c])
  BY <1>3, Holder
<1>5. \A i \in 1 .. Len(pool) : pool[i] # c
  BY <1>3, NotInPool
<1> QED BY <1>2, <1>3, <1>4, <1>5

(* Nothing is under way on an open connection whose user does not wait. *)
LEMMA Quiet ==
  ASSUME PoolInv, NEW u \in Users, NEW c \in Clients, user[u].client = c,
         user[u].pc \notin Waiting, client[c].open
  PROVE  sent[c] = <<>> /\ answers[c] = <<>>
<1>1. HeldOnce /\ NoClient \notin Clients
  BY PoolAssumption DEF PoolInv
<1>2. \A v \in Users : user[v].client = c => v = u
  BY <1>1 DEF HeldOnce
<1> QED BY <1>2, Line

(* The record of a user with another pc or script. *)
LEMMA Renamed ==
  ASSUME PoolInv, NEW u \in Users,
         NEW pc \in {"idle", "ping", "reconnect", "use", "wait", "close", "rollback", "release"}
  PROVE  LET q == [user[u] EXCEPT !.pc = pc] IN
         /\ q \in UserType /\ q.pc = pc /\ q.client = user[u].client /\ q.script = user[u].script
         /\ [user EXCEPT ![u].pc = pc] = [user EXCEPT ![u] = q]
<1>1. user[u] \in UserType /\ user \in [Users -> UserType]
  BY DEF PoolInv, PoolTyped
<1> QED BY <1>1 DEF UserType

(* The next command of a script is sent, or the connection given up. *)
LEMMA CommandKeeps ==
  ASSUME PoolInv, NEW u \in Users, Command(u)
  PROVE  PoolInv'
<1>0. user[u].pc = "use"
  BY DEF Command
<1>1. PICK c \in Clients : c = user[u].client
  BY <1>0, Holds
<1>2. /\ \A v \in Users \ {u} : user[v].client # c
      /\ \A i \in 1 .. Len(pool) : pool[i] # c
      /\ HolderSound(u, user[u], client[c], sent[c], answers[c], txn[c])
  BY <1>0, <1>1, Holds
<1>3. client[c].open /\ sent[c] = <<>> /\ answers[c] = <<>>
  <2>1. client[c].open
    BY <1>0, <1>2 DEF HolderSound
  <2> QED BY <1>0, <1>1, <2>1, Quiet DEF Waiting
<1>4. client[c] \in ClientType /\ <<>> \in Lines /\ <<>> \in Sendings /\ user[u] \in UserType
  BY Typed DEF Lines, Sendings
<1>5. /\ client' = [client EXCEPT ![c] = client[c]] /\ answers' = [answers EXCEPT ![c] = <<>>]
      /\ UNCHANGED server /\ pool' = pool
  BY <1>3, Untouched DEF Command
<1>6. CASE user[u].script # <<>> /\ Allowed(c, Head(user[u].script))
  <2>1. PICK command : command = Head(user[u].script)
    OBVIOUS
  <2>2. /\ command \in Commands
        /\ command = "commit" => user[u].script = <<"commit">>
    BY <1>4, <1>6, <2>1, RestsGoOn DEF UserType
  <2>3. PICK q : q = [user[u] EXCEPT !.pc = "wait"]
    OBVIOUS
  <2>4. /\ q \in UserType /\ q.pc = "wait" /\ q.client = c /\ q.script = user[u].script
        /\ [user EXCEPT ![u].pc = "wait"] = [user EXCEPT ![u] = q]
    BY <1>1, <2>3, Renamed
  <2>5. PICK s : s = << <<u, command>> >>
    OBVIOUS
  <2>6. s \in Sendings
    BY <2>2, <2>5 DEF Sendings
  <2>7. user' = [user EXCEPT ![u] = q] /\ sent' = [sent EXCEPT ![c] = s]
    BY <1>1, <1>3, <1>6, <2>1, <2>4, <2>5 DEF Command, Send
  <2>8. pool' \in Seq(Clients) /\ PoolKept'
    BY <1>2, <1>5, <2>4, <2>7, SameKept
  <2>9. HolderSound(u, q, client[c], s, <<>>, txn[c])
    <3>1. Asked(q) = command
      BY <2>1, <2>4 DEF Asked
    <3> QED BY <1>0, <1>2, <1>3, <1>6, <2>4, <2>5, <3>1, PoolAssumption DEF HolderSound, Waiting
  <2>10. LineSound(client[c], s, <<>>, txn[c])
    <3>1. command = "commit" => Owned(txn[c], u)
      BY <1>0, <1>2, <2>2 DEF HolderSound
    <3>2. Len(s) = 1 /\ s[1][1] = u /\ s[1][2] = command
      BY <2>5
    <3>3. ASSUME NEW i \in 1 .. Len(s), s[i][2] = "commit"
          PROVE  i = 1 /\ Owned(txn[c], s[i][1])
      BY <3>1, <3>2, <3>3
    <3> QED BY <1>3, <3>3 DEF LineSound
  <2> QED BY <1>1, <1>2, <1>4, <1>5, <2>4, <2>6, <2>7, <2>8, <2>9, <2>10, Alone DEF Waiting
<1>7. CASE ~ (user[u].script # <<>> /\ Allowed(c, Head(user[u].script)))
  <2>1. PICK q : q = [user[u] EXCEPT !.pc = "close"]
    OBVIOUS
  <2>2. /\ q \in UserType /\ q.pc = "close" /\ q.client = c
        /\ [user EXCEPT ![u].pc = "close"] = [user EXCEPT ![u] = q]
    BY <1>1, <2>1, Renamed
  <2>3. user' = [user EXCEPT ![u] = q] /\ sent' = [sent EXCEPT ![c] = <<>>]
    BY <1>1, <1>3, <1>7, <2>2, Untouched DEF Command
  <2>4. pool' \in Seq(Clients) /\ PoolKept'
    BY <1>2, <1>5, <2>2, <2>3, SameKept
  <2>5. HolderSound(u, q, client[c], <<>>, <<>>, txn[c])
    BY <1>3, <2>2, PoolAssumption DEF HolderSound, Waiting
  <2>6. LineSound(client[c], <<>>, <<>>, txn[c])
    BY <1>3 DEF LineSound
  <2> QED BY <1>1, <1>2, <1>4, <1>5, <2>2, <2>3, <2>4, <2>5, <2>6, Alone
<1> QED BY <1>6, <1>7

(* What a user reads answers its command, and is the only thing under way. *)
LEMMA Answered ==
  ASSUME PoolInv, NEW u \in Users, NEW c \in Clients, user[u].client = c,
         user[u].pc \in Waiting, answers[c] # <<>>
  PROVE  /\ sent[c] = <<>> /\ Tail(answers[c]) = <<>> /\ client[c].open
         /\ \E word \in {"OK", "ERR"} : answers[c] = << <<u, Asked(user[u]), word>> >>
<1>1. HolderSound(u, user[u], client[c], sent[c], answers[c], txn[c])
  BY Holder
<1>2. client[c].open /\ sent[c] = <<>>
      /\ \E word \in {"OK", "ERR"} : answers[c] = << <<u, Asked(user[u]), word>> >>
  BY <1>1 DEF HolderSound
<1>3. \A x : Tail(<<x>>) = <<>>
  OBVIOUS
<1> QED BY <1>2, <1>3

(* The flag after an answer. *)
LEMMA FlaggedTyped ==
  ASSUME PoolInv, NEW c \in Clients, NEW command, client[c].open
  PROVE  \E k \in ClientType : k.open /\ Flagged(c, command) = [client EXCEPT ![c] = k]
<1>1. client[c] \in ClientType /\ client \in [Clients -> ClientType]
  BY DEF PoolInv, PoolTyped
<1>2. PICK b \in BOOLEAN : b = (CASE command = "begin" -> TRUE
                                  [] command \in {"commit", "rollback"} -> FALSE
                                  [] OTHER -> client[c].in_transaction)
  <2>1. client[c].in_transaction \in BOOLEAN
    BY <1>1 DEF ClientType
  <2> QED BY <2>1
<1>3. PICK k : k = [client[c] EXCEPT !.in_transaction = b]
  OBVIOUS
<1>4. k \in ClientType /\ k.open
  BY <1>1, <1>3 DEF ClientType
<1>5. Flagged(c, command) = [client EXCEPT ![c] = k]
  BY <1>1, <1>2, <1>3 DEF Flagged
<1> QED BY <1>4, <1>5

(* A user reads a line. *)
LEMMA ReadKeeps ==
  ASSUME PoolInv, NEW u \in Users, Read(u)
  PROVE  PoolInv'
<1>0. user[u].pc \in Waiting /\ user[u].pc \notin {"idle", "reconnect"}
  BY DEF Read, Waiting
<1>1. PICK c \in Clients : c = user[u].client
  BY <1>0, Holds
<1>2. /\ \A v \in Users \ {u} : user[v].client # c
      /\ \A i \in 1 .. Len(pool) : pool[i] # c
      /\ HolderSound(u, user[u], client[c], sent[c], answers[c], txn[c])
  BY <1>0, <1>1, Holds
<1>3. answers[c] # <<>> /\ client[c].open /\ sent[c] = <<>> /\ Tail(answers[c]) = <<>>
  BY <1>0, <1>1, Answered DEF Read
<1>4. PICK word \in {"OK", "ERR"} : answers[c] = << <<u, Asked(user[u]), word>> >>
  BY <1>0, <1>1, <1>3, Answered
<1>5. client[c] \in ClientType /\ <<>> \in Lines /\ <<>> \in Sendings /\ user[u] \in UserType
  BY Typed DEF Lines, Sendings
<1>6. UNCHANGED server /\ pool' = pool
  BY DEF Read
<1>7. PICK ok \in BOOLEAN : ok = (word = "OK") /\ ok = (Head(answers[c])[3] = "OK")
                            /\ ok = (answers[c][1][3] = "OK")
  <2>1. Head(answers[c])[3] = word /\ answers[c][1][3] = word
    BY <1>4
  <2> QED BY <2>1
<1>8. sent = [sent EXCEPT ![c] = <<>>]
  BY <1>3, Untouched
<1>9. ASSUME NEW q \in UserType, NEW k \in ClientType, k.open, q.client = c,
             q.pc \in {"use", "close", "release"},
             user' = [user EXCEPT ![u] = q], client' = [client EXCEPT ![c] = k],
             answers' = [answers EXCEPT ![c] = Tail(answers[c])], UNCHANGED sent,
             q.pc = "use" /\ q.script \in PastBegin => Owned(txn[c], u)
      PROVE  PoolInv'
  <2>1. pool' \in Seq(Clients) /\ PoolKept'
    BY <1>2, <1>6, <1>9, SameKept
  <2>2. HolderSound(u, q, k, <<>>, <<>>, txn[c])
    BY <1>9, PoolAssumption DEF HolderSound, Waiting, PastBegin
  <2>3. LineSound(k, <<>>, <<>>, txn[c])
    BY <1>9 DEF LineSound
  <2>4. answers' = [answers EXCEPT ![c] = <<>>] /\ sent' = [sent EXCEPT ![c] = <<>>]
    BY <1>3, <1>8, <1>9
  <2>5. user' = [user EXCEPT ![u] = q] /\ client' = [client EXCEPT ![c] = k]
    BY <1>9
  <2>6. user[u].client \in {c, NoClient} /\ q.client \in {c, NoClient}
    BY <1>1, <1>9
  <2> QED BY <1>2, <1>5, <1>6, <2>1, <2>2, <2>3, <2>4, <2>5, <2>6, Alone
<1>10. client = [client EXCEPT ![c] = client[c]]
  BY Untouched
<1>11. CASE /\ user[u].pc = "ping" /\ ok
            /\ user' = [user EXCEPT ![u].pc = "use"]
            /\ answers' = [answers EXCEPT ![c] = Tail(answers[c])] /\ UNCHANGED <<client, sent>>
  <2>1. PICK q : q = [user[u] EXCEPT !.pc = "use"]
    OBVIOUS
  <2>2. /\ q \in UserType /\ q.pc = "use" /\ q.client = c /\ q.script = user[u].script
        /\ user' = [user EXCEPT ![u] = q]
    BY <1>1, <1>11, <2>1, Renamed
  <2>3. q.script \notin PastBegin
    BY <1>2, <1>11, <2>2, ScriptsBegin DEF HolderSound
  <2>4. client' = [client EXCEPT ![c] = client[c]] /\ UNCHANGED sent
    BY <1>10, <1>11
  <2>5. answers' = [answers EXCEPT ![c] = Tail(answers[c])]
    BY <1>11
  <2>6. PICK k \in ClientType : k = client[c] /\ k.open
    BY <1>3, <1>5
  <2>7. client' = [client EXCEPT ![c] = k] /\ UNCHANGED sent
    BY <2>4, <2>6
  <2> QED BY <1>9, <2>2, <2>3, <2>5, <2>6, <2>7
<1>12. CASE /\ user[u].pc = "ping" /\ ~ ok
            /\ user' = [user EXCEPT ![u].pc = "reconnect", ![u].client = NoClient]
            /\ Close(u, c)
  <2>1. PICK q : q = [user[u] EXCEPT !.pc = "reconnect", !.client = NoClient]
    OBVIOUS
  <2>2. /\ q \in UserType /\ q.pc = "reconnect" /\ q.client = NoClient /\ q.script = user[u].script
        /\ user' = [user EXCEPT ![u] = q]
    BY <1>5, <1>12, <2>1 DEF UserType, PoolInv, PoolTyped
  <2>3. PICK s \in Sendings :
          /\ client' = [client EXCEPT ![c] = Closed] /\ sent' = [sent EXCEPT ![c] = s]
          /\ answers' = [answers EXCEPT ![c] = <<>>] /\ LineSound(Closed, s, <<>>, txn[c])
    BY <1>12, Closes
  <2>4. pool' \in Seq(Clients) /\ PoolKept'
    BY <1>2, <1>6, <2>2, <2>3, SameKept
  <2>5. HolderSound(u, q, Closed, s, <<>>, txn[c])
    <3>1. user[u].script \in Scripts
      BY <1>2, <1>12 DEF HolderSound
    <3> QED BY <2>2, <3>1 DEF HolderSound, Waiting
  <2> QED BY <1>1, <1>2, <1>5, <1>6, <2>2, <2>3, <2>4, <2>5, ClosedTyped, Alone
<1>13. CASE /\ user[u].pc = "wait"
            /\ user' = [user EXCEPT ![u].pc = IF ok THEN "use" ELSE "close",
                                    ![u].script = IF ok THEN Tail(@) ELSE @]
            /\ client' = IF ok THEN Flagged(c, Head(user[u].script)) ELSE client
            /\ answers' = [answers EXCEPT ![c] = Tail(answers[c])] /\ UNCHANGED sent
  <2>1. PICK r \in Rests : r = user[u].script /\ r # <<>>
    BY <1>2, <1>5, <1>13 DEF HolderSound, UserType
  <2>2. Asked(user[u]) = Head(r)
    BY <1>13, <2>1 DEF Asked
  <2>3. CASE ok
    <3>1. PICK q : q = [user[u] EXCEPT !.pc = "use", !.script = Tail(r)]
      OBVIOUS
    <3>2. /\ q \in UserType /\ q.pc = "use" /\ q.client = c /\ q.script = Tail(r)
          /\ user' = [user EXCEPT ![u] = q]
      <4>1. Tail(r) \in Rests
        BY <2>1, RestsGoOn
      <4> QED BY <1>1, <1>5, <1>13, <2>1, <2>3, <3>1, <4>1 DEF UserType, PoolInv, PoolTyped
    <3>3. Tail(r) \in PastBegin => Owned(txn[c], u)
      <4>1. Tail(r) \in PastBegin => r \in PastBegin \/ Head(r) = "begin"
        BY <2>1, RestsGoOn
      <4>2. Head(r) = "begin" => Owned(txn[c], u)
        BY <1>2, <1>3, <1>4, <1>7, <1>13, <2>1, <2>3 DEF HolderSound
      <4>3. r \in PastBegin => Owned(txn[c], u)
        BY <1>2, <1>13, <2>1 DEF HolderSound, PastBegin
      <4> QED BY <4>1, <4>2, <4>3
    <3>4. PICK k \in ClientType : k.open /\ client' = [client EXCEPT ![c] = k]
      <4>1. PICK command : command = Head(user[u].script)
        OBVIOUS
      <4>2. client' = Flagged(c, command)
        BY <1>13, <2>3, <4>1
      <4> QED BY <1>3, <4>2, FlaggedTyped
    <3> QED BY <1>9, <1>13, <3>2, <3>3, <3>4
  <2>4. CASE ~ ok
    <3>1. PICK q : q = [user[u] EXCEPT !.pc = "close"]
      OBVIOUS
    <3>2. /\ q \in UserType /\ q.pc = "close" /\ q.client = c
          /\ user' = [user EXCEPT ![u] = q]
      BY <1>1, <1>5, <1>13, <2>4, <3>1 DEF UserType, PoolInv, PoolTyped
    <3> QED BY <1>3, <1>5, <1>9, <1>10, <1>13, <2>4, <3>2
  <2> QED BY <2>3, <2>4
<1>14. CASE /\ user[u].pc = "rollback"
            /\ user' = [user EXCEPT ![u].pc = "release"]
            /\ client' = IF ok THEN Flagged(c, "rollback") ELSE client
            /\ answers' = [answers EXCEPT ![c] = Tail(answers[c])] /\ UNCHANGED sent
  <2>1. PICK q : q = [user[u] EXCEPT !.pc = "release"]
    OBVIOUS
  <2>2. /\ q \in UserType /\ q.pc = "release" /\ q.client = c /\ user' = [user EXCEPT ![u] = q]
    BY <1>1, <1>14, <2>1, Renamed
  <2>3. PICK k \in ClientType : k.open /\ client' = [client EXCEPT ![c] = k]
    <3>1. CASE ok
      <4>1. client' = Flagged(c, "rollback")
        BY <1>14, <3>1
      <4> QED BY <1>3, <4>1, FlaggedTyped
    <3>2. CASE ~ ok
      <4>1. client' = [client EXCEPT ![c] = client[c]]
        BY <1>10, <1>14, <3>2
      <4> QED BY <1>3, <1>5, <4>1
    <3> QED BY <3>1, <3>2
  <2> QED BY <1>9, <1>14, <2>2, <2>3
<1>15. \/ /\ user[u].pc = "ping" /\ ok
          /\ user' = [user EXCEPT ![u].pc = "use"]
          /\ answers' = [answers EXCEPT ![c] = Tail(answers[c])] /\ UNCHANGED <<client, sent>>
       \/ /\ user[u].pc = "ping" /\ ~ ok
          /\ user' = [user EXCEPT ![u].pc = "reconnect", ![u].client = NoClient]
          /\ Close(u, c)
       \/ /\ user[u].pc = "wait"
          /\ user' = [user EXCEPT ![u].pc = IF ok THEN "use" ELSE "close",
                                  ![u].script = IF ok THEN Tail(@) ELSE @]
          /\ client' = IF ok THEN Flagged(c, Head(user[u].script)) ELSE client
          /\ answers' = [answers EXCEPT ![c] = Tail(answers[c])] /\ UNCHANGED sent
       \/ /\ user[u].pc = "rollback"
          /\ user' = [user EXCEPT ![u].pc = "release"]
          /\ client' = IF ok THEN Flagged(c, "rollback") ELSE client
          /\ answers' = [answers EXCEPT ![c] = Tail(answers[c])] /\ UNCHANGED sent
  BY <1>1, <1>7 DEF Read
<1> QED BY <1>11, <1>12, <1>13, <1>14, <1>15

(* A user stops waiting, and closes the connection. *)
LEMMA GiveUpKeeps ==
  ASSUME PoolInv, NEW u \in Users, GiveUp(u)
  PROVE  PoolInv'
<1>0. user[u].pc \in {"ping", "wait", "rollback"} /\ user[u].pc \notin {"idle", "reconnect"}
  BY DEF GiveUp
<1>1. PICK c \in Clients : c = user[u].client
  BY <1>0, Holds
<1>2. /\ \A v \in Users \ {u} : user[v].client # c
      /\ \A i \in 1 .. Len(pool) : pool[i] # c
      /\ HolderSound(u, user[u], client[c], sent[c], answers[c], txn[c])
  BY <1>0, <1>1, Holds
<1>3. UNCHANGED server /\ pool' = pool /\ <<>> \in Lines /\ user[u] \in UserType
  BY Typed DEF GiveUp, Lines
<1>4. PICK s \in Sendings :
        /\ client' = [client EXCEPT ![c] = Closed] /\ sent' = [sent EXCEPT ![c] = s]
        /\ answers' = [answers EXCEPT ![c] = <<>>] /\ LineSound(Closed, s, <<>>, txn[c])
  BY <1>1, Closes DEF GiveUp
<1>5. ASSUME NEW q \in UserType, user' = [user EXCEPT ![u] = q], q.client \in {c, NoClient},
             HolderSound(u, q, Closed, s, <<>>, txn[c])
      PROVE  PoolInv'
  <2>1. pool' \in Seq(Clients) /\ PoolKept'
    BY <1>2, <1>3, <1>4, <1>5, SameKept
  <2>2. user[u].client \in {c, NoClient}
    BY <1>1
  <2> QED BY <1>2, <1>3, <1>4, <1>5, <2>1, <2>2, ClosedTyped, Alone
<1>6. CASE user[u].pc = "ping"
  <2>1. PICK q : q = [user[u] EXCEPT !.pc = "reconnect", !.client = NoClient]
    OBVIOUS
  <2>2. /\ q \in UserType /\ q.pc = "reconnect" /\ q.client = NoClient /\ q.script = user[u].script
        /\ user' = [user EXCEPT ![u] = q]
    BY <1>3, <1>6, <2>1 DEF UserType, PoolInv, PoolTyped, GiveUp
  <2>3. HolderSound(u, q, Closed, s, <<>>, txn[c])
    <3>1. user[u].script \in Scripts
      BY <1>2, <1>6 DEF HolderSound
    <3> QED BY <2>2, <3>1 DEF HolderSound, Waiting
  <2> QED BY <1>5, <2>2, <2>3
<1>7. CASE user[u].pc # "ping"
  <2>1. PICK q : q = [user[u] EXCEPT !.pc = "release"]
    OBVIOUS
  <2>2. /\ q \in UserType /\ q.pc = "release" /\ q.client = c
        /\ [user EXCEPT ![u].pc = "release"] = [user EXCEPT ![u] = q]
    BY <1>1, <2>1, Renamed
  <2>3. user' = [user EXCEPT ![u] = q]
    BY <1>7, <2>2 DEF GiveUp
  <2>4. HolderSound(u, q, Closed, s, <<>>, txn[c])
    BY <2>2, PoolAssumption DEF HolderSound, Waiting
  <2> QED BY <1>5, <2>2, <2>3, <2>4
<1> QED BY <1>6, <1>7

(* The wrapper is closed: it rolls back first when the flag says so. *)
LEMMA WrapperCloseKeeps ==
  ASSUME PoolInv, NEW u \in Users, WrapperClose(u)
  PROVE  PoolInv'
<1>0. user[u].pc = "close"
  BY DEF WrapperClose
<1>1. PICK c \in Clients : c = user[u].client
  BY <1>0, Holds
<1>2. /\ \A v \in Users \ {u} : user[v].client # c
      /\ \A i \in 1 .. Len(pool) : pool[i] # c
      /\ HolderSound(u, user[u], client[c], sent[c], answers[c], txn[c])
  BY <1>0, <1>1, Holds
<1>3. client[c].open /\ sent[c] = <<>> /\ answers[c] = <<>>
  <2>1. client[c].open
    BY <1>0, <1>2 DEF HolderSound
  <2> QED BY <1>0, <1>1, <2>1, Quiet DEF Waiting
<1>4. client[c] \in ClientType /\ <<>> \in Lines /\ <<>> \in Sendings
  BY Typed DEF Lines, Sendings
<1>5. /\ client' = [client EXCEPT ![c] = client[c]] /\ answers' = [answers EXCEPT ![c] = <<>>]
      /\ UNCHANGED server /\ pool' = pool
  BY <1>3, Untouched DEF WrapperClose
<1>6. ASSUME NEW q \in UserType, NEW s \in Sendings, user' = [user EXCEPT ![u] = q],
             sent' = [sent EXCEPT ![c] = s], q.client = c,
             \A i \in 1 .. Len(s) : s[i][2] # "commit",
             s # <<>> => q.pc \in Waiting, HolderSound(u, q, client[c], s, <<>>, txn[c])
      PROVE  PoolInv'
  <2>1. pool' \in Seq(Clients) /\ PoolKept'
    BY <1>2, <1>5, <1>6, SameKept
  <2>2. LineSound(client[c], s, <<>>, txn[c])
    BY <1>3, <1>6 DEF LineSound
  <2>3. user[u].client \in {c, NoClient} /\ q.client \in {c, NoClient}
    BY <1>1, <1>6
  <2> QED BY <1>2, <1>4, <1>5, <1>6, <2>1, <2>2, <2>3, Alone
<1>7. CASE client[c].in_transaction
  <2>1. PICK q : q = [user[u] EXCEPT !.pc = "rollback"]
    OBVIOUS
  <2>2. /\ q \in UserType /\ q.pc = "rollback" /\ q.client = c
        /\ [user EXCEPT ![u].pc = "rollback"] = [user EXCEPT ![u] = q]
    BY <1>1, <2>1, Renamed
  <2>3. PICK s : s = << <<u, "rollback">> >>
    OBVIOUS
  <2>4. s \in Sendings /\ \A i \in 1 .. Len(s) : s[i][2] # "commit"
    BY <2>3 DEF Sendings, Commands
  <2>5. user' = [user EXCEPT ![u] = q] /\ sent' = [sent EXCEPT ![c] = s]
    BY <1>1, <1>3, <1>7, <2>2, <2>3 DEF WrapperClose, Send
  <2>6. HolderSound(u, q, client[c], s, <<>>, txn[c])
    <3>1. Asked(q) = "rollback"
      BY <2>2 DEF Asked
    <3> QED BY <1>3, <2>2, <2>3, <3>1, PoolAssumption DEF HolderSound, Waiting
  <2>7. q.pc \in Waiting
    BY <2>2 DEF Waiting
  <2> QED BY <1>6, <2>2, <2>4, <2>5, <2>6, <2>7
<1>8. CASE ~ client[c].in_transaction
  <2>1. PICK q : q = [user[u] EXCEPT !.pc = "release"]
    OBVIOUS
  <2>2. /\ q \in UserType /\ q.pc = "release" /\ q.client = c
        /\ [user EXCEPT ![u].pc = "release"] = [user EXCEPT ![u] = q]
    BY <1>1, <2>1, Renamed
  <2>3. user' = [user EXCEPT ![u] = q] /\ sent' = [sent EXCEPT ![c] = <<>>]
    BY <1>1, <1>3, <1>8, <2>2, Untouched DEF WrapperClose
  <2>4. HolderSound(u, q, client[c], <<>>, <<>>, txn[c])
    BY <2>2, PoolAssumption DEF HolderSound, Waiting
  <2>5. \A i \in 1 .. Len(<<>>) : <<>>[i][2] # "commit"
    OBVIOUS
  <2> QED BY <1>4, <1>6, <2>2, <2>3, <2>4, <2>5
<1> QED BY <1>7, <1>8

(* The client goes back, unless it is closed or there are enough. *)
LEMMA ReleaseKeeps ==
  ASSUME PoolInv, NEW u \in Users, Release(u)
  PROVE  PoolInv'
<1>0. user[u].pc = "release"
  BY DEF Release
<1>1. PICK c \in Clients : c = user[u].client
  BY <1>0, Holds
<1>2. /\ \A v \in Users \ {u} : user[v].client # c
      /\ \A i \in 1 .. Len(pool) : pool[i] # c
  BY <1>0, <1>1, Holds
<1>3. /\ client[c] \in ClientType /\ sent[c] \in Sendings /\ answers[c] \in Lines
      /\ <<>> \in Lines /\ user[u] \in UserType /\ UNCHANGED server
  BY Typed DEF Lines, Release
<1>4. PICK q : q = Idle
  OBVIOUS
<1>5. q \in UserType /\ q.pc = "idle" /\ q.client = NoClient /\ user' = [user EXCEPT ![u] = q]
  BY <1>4 DEF Idle, UserType, Rests, Scripts, Release
<1>6. \A k, s, a : HolderSound(u, q, k, s, a, txn[c])
  BY <1>5 DEF HolderSound, Waiting
<1>7. user[u].client \in {c, NoClient} /\ q.client \in {c, NoClient}
  BY <1>1, <1>5
<1>8. CASE client[c].open /\ Len(pool) >= MaxIdleClients
  <2>1. Close(u, c) /\ pool' = pool
    BY <1>1, <1>8 DEF Release
  <2>2. PICK s \in Sendings :
          /\ client' = [client EXCEPT ![c] = Closed] /\ sent' = [sent EXCEPT ![c] = s]
          /\ answers' = [answers EXCEPT ![c] = <<>>] /\ LineSound(Closed, s, <<>>, txn[c])
    BY <2>1, Closes
  <2>3. pool' \in Seq(Clients) /\ PoolKept'
    BY <1>2, <1>5, <2>1, <2>2, SameKept
  <2> QED BY <1>2, <1>3, <1>5, <1>6, <1>7, <2>2, <2>3, ClosedTyped, Alone
<1>9. CASE ~ (client[c].open /\ Len(pool) >= MaxIdleClients)
  <2>1. /\ pool' = IF client[c].open THEN Append(pool, c) ELSE pool
        /\ UNCHANGED <<client, answers, sent>>
    BY <1>1, <1>9 DEF Release
  <2>2. /\ client' = [client EXCEPT ![c] = client[c]] /\ sent' = [sent EXCEPT ![c] = sent[c]]
        /\ answers' = [answers EXCEPT ![c] = answers[c]]
    BY <2>1, Untouched
  <2>3. LineSound(client[c], sent[c], answers[c], txn[c])
    BY Line
  <2>4. ~ (client[c].open /\ (sent[c] # <<>> \/ answers[c] # <<>>))
    BY <1>0, <1>1, Quiet DEF Waiting
  <2>5. pool' \in Seq(Clients) /\ PoolKept'
    <3>1. CASE client[c].open
      <4>1. /\ pool \in Seq(Clients) /\ user \in [Users -> UserType] /\ PoolKept
            /\ NoClient \notin Clients
        BY PoolAssumption DEF PoolInv, PoolTyped
      <4>2. pool' = Append(pool, c) /\ client' = client
        BY <2>1, <3>1
      <4>3. pool' \in Seq(Clients) /\ Len(pool') = Len(pool) + 1 /\ Len(pool) < MaxIdleClients
        BY <1>9, <3>1, <4>1, <4>2, PoolAssumption
      <4>4. \A v \in Users : user'[v] = user[v] \/ user'[v].client = NoClient
        BY <1>5, <4>1
      <4>5. \A i \in 1 .. Len(pool') :
              \/ i \in 1 .. Len(pool) /\ pool'[i] = pool[i]
              \/ i = Len(pool) + 1 /\ pool'[i] = c
        BY <4>1, <4>2
      <4>6. ASSUME NEW i \in 1 .. Len(pool'), NEW j \in 1 .. Len(pool'), pool'[i] = pool'[j]
            PROVE  i = j
        BY <1>2, <4>1, <4>5, <4>6 DEF PoolKept
      <4>7. ASSUME NEW i \in 1 .. Len(pool')
            PROVE  client'[pool'[i]].open /\ \A v \in Users : user'[v].client # pool'[i]
        <5>1. client[pool'[i]].open /\ pool'[i] \in Clients
          BY <3>1, <4>1, <4>5 DEF PoolKept
        <5>2. ASSUME NEW v \in Users
              PROVE  user'[v].client # pool'[i]
          <6>1. CASE v = u
            BY <1>5, <4>1, <5>1, <6>1
          <6>2. CASE v # u
            <7>1. user'[v] = user[v] /\ user[v].client # c
              BY <1>2, <1>5, <4>1, <6>2
            <7> QED BY <7>1, <4>1, <4>5 DEF PoolKept
          <6> QED BY <6>1, <6>2
        <5> QED BY <5>1, <5>2, <4>2
      <4>8. Len(pool') <= MaxIdleClients
        BY <4>1, <4>3, PoolAssumption
      <4> QED BY <4>3, <4>6, <4>7, <4>8 DEF PoolKept
    <3>2. CASE ~ client[c].open
      BY <1>2, <1>5, <2>1, <2>2, <3>2, SameKept
    <3> QED BY <3>1, <3>2
  <2> QED BY <1>2, <1>3, <1>5, <1>6, <1>7, <2>2, <2>3, <2>4, <2>5, Alone
<1> QED BY <1>8, <1>9

(* What the server does to a transaction: it stays the user's own. *)
LEMMA OwnStays ==
  ASSUME NEW c \in Clients, NEW who \in Users, NEW command \in Commands,
         txn = [d \in Clients |-> txn[d]], foreign = FALSE,
         command = "commit" => Owned(txn[c], who),
         Acceptable(c, command), Executed(c, who, command)
  PROVE  \E t : /\ txn' = [txn EXCEPT ![c] = t] /\ foreign' = FALSE
                /\ Owned(txn[c], who) \/ command = "begin" => Owned(t, who)
<1>1. PICK t : t = (CASE command = "begin" -> {}
                      [] command = "insert" -> txn[c] \union {who}
                      [] command \in {"commit", "rollback"} -> NoClient
                      [] OTHER -> txn[c])
  OBVIOUS
<1>2. txn' = [txn EXCEPT ![c] = t]
  BY <1>1 DEF Executed
<1>3. foreign' = FALSE
  <2>1. command = "commit" => txn[c] \subseteq {who}
    BY DEF Acceptable, Owned
  <2> QED BY <2>1 DEF Executed
<1>4. CASE command = "begin"
  BY <1>1, <1>2, <1>3, <1>4 DEF Owned
<1>5. CASE command = "insert"
  <2>1. t = txn[c] \union {who} /\ txn[c] # NoClient
    BY <1>1, <1>5 DEF Acceptable
  <2> QED BY <1>2, <1>3, <1>5, <2>1 DEF Owned
<1>6. CASE command \in {"commit", "rollback"}
  BY <1>1, <1>2, <1>3, <1>6 DEF Owned
<1>7. CASE command \notin {"begin", "insert", "commit", "rollback"}
  BY <1>1, <1>2, <1>3, <1>7 DEF Owned
<1> QED BY <1>4, <1>5, <1>6, <1>7

(* Whoever has a connection, has it alone, before and after a step that leaves
   the users alone; the pool too is as it was. *)
LEMMA ServerLeaves ==
  ASSUME PoolInv, UNCHANGED <<pool, client, user>>
  PROVE  /\ user' \in [Users -> UserType] /\ pool' \in Seq(Clients) /\ PoolKept' /\ HeldOnce'
         /\ \A c \in Clients : client' = [client EXCEPT ![c] = client[c]]
  BY DEF PoolInv, PoolTyped, PoolKept, HeldOnce

(* The server handles a command. *)
LEMMA ServerHandlesKeeps ==
  ASSUME PoolInv, NEW c \in Clients, ServerHandles(c)
  PROVE  PoolInv'
<1>1. /\ client[c] \in ClientType /\ sent[c] \in Sendings /\ sent[c] # <<>> /\ answers[c] \in Lines
      /\ UNCHANGED <<pool, client, user>> /\ sent' = [sent EXCEPT ![c] = Tail(sent[c])]
  BY Typed DEF ServerHandles
<1>2. PICK who \in Users, command \in Commands :
        Head(sent[c])[1] = who /\ Head(sent[c])[2] = command
  BY <1>1 DEF Sendings
<1>3. LineSound(client[c], sent[c], answers[c], txn[c])
  BY Line
<1>4. command = "commit" => Owned(txn[c], who)
  <2>1. 1 \in 1 .. Len(sent[c]) /\ sent[c][1] = Head(sent[c])
    BY <1>1 DEF Sendings
  <2> QED BY <1>2, <1>3, <2>1 DEF LineSound
<1>5. PICK s \in Sendings : s = Tail(sent[c])
  <2>1. \A S : \A x \in Seq(S) : x # <<>> => Tail(x) \in Seq(S)
    OBVIOUS
  <2> QED BY <1>1, <2>1 DEF Sendings
<1>6. \A i \in 1 .. Len(s) : s[i][2] # "commit"
  <2>1. ASSUME NEW i \in 1 .. Len(s)
        PROVE  s[i] = sent[c][i + 1] /\ i + 1 \in 1 .. Len(sent[c]) /\ i + 1 # 1
    BY <1>1, <1>5 DEF Sendings
  <2> QED BY <1>3, <2>1 DEF LineSound
<1>7. txn = [d \in Clients |-> txn[d]] /\ foreign = FALSE /\ answers = [d \in Clients |-> answers[d]]
  BY DEF PoolInv, PoolTyped, OwnCommits
<1>8. PICK t, word :
        /\ word \in {"OK", "ERR"}
        /\ txn' = [txn EXCEPT ![c] = t] /\ foreign' = FALSE
        /\ Owned(txn[c], who) \/ (command = "begin" /\ word = "OK") => Owned(t, who)
        /\ answers' = IF client[c].open
                        THEN [answers EXCEPT ![c] = Append(answers[c], <<who, command, word>>)]
                        ELSE answers
  <2>1. CASE Acceptable(c, command) /\ Executed(c, who, command)
             /\ answers' = IF client[c].open
                             THEN [answers EXCEPT ![c] = Append(answers[c], <<who, command, "OK">>)]
                             ELSE answers
    <3>1. PICK t : /\ txn' = [txn EXCEPT ![c] = t] /\ foreign' = FALSE
                   /\ Owned(txn[c], who) \/ command = "begin" => Owned(t, who)
      BY <1>4, <1>7, <2>1, OwnStays
    <3> QED BY <2>1, <3>1
  <2>2. CASE UNCHANGED server
             /\ answers' = IF client[c].open
                             THEN [answers EXCEPT ![c] = Append(answers[c], <<who, command, "ERR">>)]
                             ELSE answers
    <3>1. txn' = [txn EXCEPT ![c] = txn[c]] /\ foreign' = FALSE
      BY <1>7, <2>2 DEF server
    <3> QED BY <2>2, <3>1
  <2> QED BY <1>2, <2>1, <2>2 DEF ServerHandles
<1>9. PICK D \in SUBSET Users : D = {v \in Users : user[v].client = c}
  OBVIOUS
<1>10. \A v \in Users \ D : user'[v] = user[v] /\ user[v].client # c
  BY <1>1, <1>9
<1>11. NoClient # c
  BY PoolAssumption
<1>12. /\ user' \in [Users -> UserType] /\ pool' \in Seq(Clients) /\ PoolKept' /\ HeldOnce'
       /\ client' = [client EXCEPT ![c] = client[c]]
  BY <1>1, ServerLeaves
<1>13. CASE client[c].open
  <2>1. PICK u \in Users : user[u].client = c /\ user[u].pc \in Waiting
    BY <1>1, <1>13, Line
  <2>2. HolderSound(u, user[u], client[c], sent[c], answers[c], txn[c])
    BY <2>1, Holder
  <2>3. sent[c] = << <<u, Asked(user[u])>> >> /\ answers[c] = <<>>
    BY <1>1, <2>1, <2>2 DEF HolderSound
  <2>4. who = u /\ command = Asked(user[u]) /\ s = <<>>
    BY <1>2, <1>5, <2>3
  <2>5. PICK a : a = << <<who, command, word>> >>
    OBVIOUS
  <2>6. a \in Lines /\ a # <<>> /\ a[1][3] = word
    BY <1>8, <2>5 DEF Lines
  <2>7. answers' = [answers EXCEPT ![c] = a]
    BY <1>8, <1>13, <2>3, <2>5
  <2>8. LineSound(client[c], s, a, t)
    BY <1>6, <1>13 DEF LineSound
  <2>9. \A v \in D : v = u
    <3>1. HeldOnce
      BY DEF PoolInv
    <3> QED BY <1>9, <1>11, <2>1, <3>1 DEF HeldOnce
  <2>10. HolderSound(u, user[u], client[c], s, a, t)
    <3>1. user[u].pc \in {"use", "wait"}
              /\ user[u].script \in {<<"insert", "commit">>, <<"commit">>} => Owned(t, u)
      BY <1>8, <2>2, <2>4 DEF HolderSound
    <3>2. user[u].pc = "wait" /\ Head(user[u].script) = "begin" /\ a # <<>> /\ a[1][3] = "OK" =>
            Owned(t, u)
      <4>1. user[u].pc = "wait" => Asked(user[u]) = Head(user[u].script)
        BY DEF Asked
      <4> QED BY <1>8, <2>4, <2>6, <4>1
    <3>3. s = <<>> /\ \E w \in {"OK", "ERR"} : a = << <<u, Asked(user[u]), w>> >>
      BY <1>8, <2>4, <2>5
    <3> QED BY <2>2, <3>1, <3>2, <3>3 DEF HolderSound
  <2>11. \A v \in D : /\ user[v].client \in {c, NoClient} /\ user'[v].client \in {c, NoClient}
                      /\ HolderSound(v, user'[v], client[c], s, a, t)
    BY <1>1, <1>9, <2>9, <2>10
  <2>12. \E v \in D : user'[v].client = c /\ user'[v].pc \in Waiting
    BY <1>1, <1>9, <2>1
  <2>13. sent' = [sent EXCEPT ![c] = s]
    BY <1>1, <1>5
  <2> QED BY <1>1, <1>8, <1>10, <1>12, <2>6, <2>7, <2>8, <2>11, <2>12, <2>13, Elsewhere
<1>14. CASE ~ client[c].open
  <2>1. answers[c] = <<>> /\ answers' = answers /\ answers' = [answers EXCEPT ![c] = <<>>]
    BY <1>3, <1>7, <1>8, <1>14 DEF LineSound
  <2>2. LineSound(client[c], s, <<>>, t)
    BY <1>3, <1>6, <1>14 DEF LineSound
  <2>3. ASSUME NEW v \in D
        PROVE  /\ user[v].client \in {c, NoClient} /\ user'[v].client \in {c, NoClient}
               /\ HolderSound(v, user'[v], client[c], s, <<>>, t)
    <3>1. user[v].client = c /\ user'[v] = user[v]
      BY <1>1, <1>9
    <3>2. HolderSound(v, user[v], client[c], sent[c], answers[c], txn[c])
      BY <3>1, Holder
    <3> QED BY <1>11, <1>14, <3>1, <3>2 DEF HolderSound, Waiting
  <2>4. sent' = [sent EXCEPT ![c] = s] /\ <<>> \in Lines
    BY <1>1, <1>5 DEF Lines
  <2>5. client[c].open /\ (s # <<>> \/ <<>> # <<>>) =>
          \E v \in D : user'[v].client = c /\ user'[v].pc \in Waiting
    BY <1>14
  <2> QED BY <1>1, <1>8, <1>10, <1>12, <2>1, <2>2, <2>3, <2>4, <2>5, Elsewhere
<1> QED BY <1>13, <1>14

(* The server notices that a client is gone. *)
LEMMA DisconnectKeeps ==
  ASSUME PoolInv, NEW c \in Clients, Disconnect(c)
  PROVE  PoolInv'
<1>1. /\ client[c] \in ClientType /\ ~ client[c].open /\ <<>> \in Sendings /\ <<>> \in Lines
      /\ UNCHANGED <<pool, client, user>> /\ sent' = [sent EXCEPT ![c] = <<>>]
      /\ txn' = [txn EXCEPT ![c] = NoClient]
  BY Typed DEF Disconnect, Sendings, Lines
<1>2. LineSound(client[c], sent[c], answers[c], txn[c])
  BY Line
<1>3. answers' = [answers EXCEPT ![c] = <<>>] /\ foreign' = FALSE
  <2>1. answers[c] = <<>> /\ answers = [answers EXCEPT ![c] = answers[c]] /\ foreign = FALSE
    BY <1>1, <1>2, Untouched DEF LineSound, PoolInv, OwnCommits
  <2> QED BY <2>1 DEF Disconnect
<1>4. LineSound(client[c], <<>>, <<>>, NoClient)
  BY <1>1, <1>2 DEF LineSound
<1>5. PICK D \in SUBSET Users : D = {v \in Users : user[v].client = c}
  OBVIOUS
<1>6. \A v \in Users \ D : user'[v] = user[v] /\ user[v].client # c
  BY <1>1, <1>5
<1>7. ASSUME NEW v \in D
      PROVE  /\ user[v].client \in {c, NoClient} /\ user'[v].client \in {c, NoClient}
             /\ HolderSound(v, user'[v], client[c], <<>>, <<>>, NoClient)
  <2>1. user[v].client = c /\ user'[v] = user[v] /\ NoClient # c
    BY <1>1, <1>5, PoolAssumption
  <2>2. HolderSound(v, user[v], client[c], sent[c], answers[c], txn[c])
    BY <2>1, Holder
  <2> QED BY <1>1, <2>1, <2>2 DEF HolderSound, Waiting
<1> QED BY <1>1, <1>3, <1>4, <1>6, <1>7, ServerLeaves, Elsewhere

\* At first all clients are closed and nobody holds one.
LEMMA PoolInitSound == PoolInit => PoolInv
<1> SUFFICES ASSUME PoolInit
             PROVE  PoolInv
  OBVIOUS
<1> USE DEF PoolInit
<1>1. PoolTyped
  BY DEF PoolTyped, Closed, Idle, ClientType, UserType, Rests, Scripts
<1>2. HeldOnce /\ OwnCommits
  BY DEF HeldOnce, OwnCommits, Idle
<1>3. PoolKept
  BY PoolAssumption DEF PoolKept
<1>4. ASSUME NEW c \in Clients
      PROVE  ClientSound(c)
  BY DEF ClientSound, Closed
<1>5. ASSUME NEW u \in Users
      PROVE  UserSound(u)
  BY DEF UserSound, Idle, Waiting
<1> QED BY <1>1, <1>2, <1>3, <1>4, <1>5 DEF PoolInv

\* Every step of a user, of the server and of the network keeps the invariant.
LEMMA PoolStepKeeps == PoolInv /\ [PoolNext]_pvars => PoolInv'
<1> SUFFICES ASSUME PoolInv, [PoolNext]_pvars
             PROVE  PoolInv'
  OBVIOUS
<1>1. ASSUME NEW u \in Users, NEW s \in Scripts,
             ConnectIdle(u, s) \/ \E c \in Clients : ConnectNew(u, s, c)
      PROVE  PoolInv'
  BY <1>1, ConnectIdleKeeps, ConnectNewKeeps
<1>2. ASSUME NEW u \in Users,
             \/ Recycle(u) \/ Command(u) \/ Read(u) \/ GiveUp(u)
             \/ WrapperClose(u) \/ Release(u) \/ Dispose(u)
      PROVE  PoolInv'
  BY <1>2, RecycleKeeps, CommandKeeps, ReadKeeps, GiveUpKeeps, WrapperCloseKeeps, ReleaseKeeps,
     DisposeKeeps
<1>3. ASSUME NEW c \in Clients, ServerHandles(c) \/ Disconnect(c)
      PROVE  PoolInv'
  BY <1>3, ServerHandlesKeeps, DisconnectKeeps
<1>4. CASE UNCHANGED pvars
  <2>1. PoolTyped' /\ HeldOnce' /\ PoolKept' /\ OwnCommits'
    BY <1>4 DEF pvars, PoolInv, PoolTyped, HeldOnce, PoolKept, OwnCommits
  <2>2. ASSUME NEW c \in Clients
        PROVE  ClientSound(c)'
    BY <1>4 DEF pvars, PoolInv, ClientSound, Own
  <2>3. ASSUME NEW u \in Users
        PROVE  UserSound(u)'
    BY <1>4 DEF pvars, PoolInv, UserSound, Own
  <2> QED BY <2>1, <2>2, <2>3 DEF PoolInv
<1> QED BY <1>1, <1>2, <1>3, <1>4 DEF PoolNext

(* Something is under way on an open connection only while its one user waits
   for it, whoever checks in and out, gives up or is refused. *)
THEOREM PoolInvAlways == PoolSpec => []PoolInv
BY PoolInitSound, PoolStepKeeps, PTL DEF PoolSpec

(* Two users never have the same client of the pool, and a client that is in the
   pool is open and nobody's (indexclient.py, connect and _release). *)
THEOREM ClientsAreNotShared == PoolSpec => []PoolSound
<1>1. PoolInv => PoolSound
  <2> SUFFICES ASSUME PoolInv
               PROVE  PoolSound
    OBVIOUS
  <2>1. HeldOnce /\ PoolKept /\ NoClient \notin Clients
    BY PoolAssumption DEF PoolInv
  <2>2. ASSUME NEW i \in 1 .. Len(pool)
        PROVE  client[pool[i]].open /\ InUse(pool[i]) = {}
    BY <2>1 DEF PoolKept, InUse
  <2>3. ASSUME NEW c \in Clients
        PROVE  Cardinality(InUse(c)) <= 1
    <3>1. CASE InUse(c) = {}
      BY <3>1, FS_EmptySet
    <3>2. ASSUME NEW u \in InUse(c)
          PROVE  Cardinality(InUse(c)) <= 1
      <4>1. InUse(c) = {u}
        BY <2>1, <3>2 DEF InUse, HeldOnce
      <4>2. Cardinality({u}) = 1
        BY FS_Singleton
      <4> QED BY <4>1, <4>2
    <3> QED BY <3>1, <3>2
  <2> QED BY <2>1, <2>2, <2>3 DEF PoolSound, PoolKept
<1> QED BY <1>1, PoolInvAlways, PTL

(* The line that a user reads is the answer to its own command, although answers
   may come late (indexclient.py, _getline and close). *)
THEOREM AnswersReachTheirUser == PoolSpec => []AnswersMatch
<1>1. PoolInv => AnswersMatch
  <2> SUFFICES ASSUME PoolInv, NEW u \in Users, NEW c, c = user[u].client,
                      user[u].pc \in {"ping", "wait", "rollback"}, answers[c] # <<>>
               PROVE  /\ Len(answers[c]) = 1 /\ answers[c][1][1] = u
                      /\ answers[c][1][2] = CASE user[u].pc = "ping" -> "echo"
                                               [] user[u].pc = "rollback" -> "rollback"
                                               [] OTHER -> Head(user[u].script)
    BY DEF AnswersMatch
  <2>1. c \in Clients
    BY Holds
  <2>2. PICK word \in {"OK", "ERR"} : answers[c] = << <<u, Asked(user[u]), word>> >>
    BY <2>1, Answered DEF Waiting
  <2>3. Len(answers[c]) = 1 /\ answers[c][1][1] = u /\ answers[c][1][2] = Asked(user[u])
    BY <2>2
  <2> QED BY <2>3 DEF Asked
<1> QED BY <1>1, PoolInvAlways, PTL

(* What one user of a connection inserted is never committed by the next one
   (indexclient.py, IndexClientWrapper.close: the flag makes it roll back). *)
THEOREM CommitsAreOwn == PoolSpec => []OwnCommits
<1>1. PoolInv => OwnCommits
  BY DEF PoolInv
<1> QED BY <1>1, PoolInvAlways, PTL

=============================================================================
