------------------------------ MODULE IndexPool ------------------------------
(***************************************************************************)
(* Connections to the legacy index server (acoustid/indexclient.py).       *)
(* A user takes a client from the pool or makes one, sends one command at  *)
(* a time, waits for a line, and gives the client back.  The server        *)
(* answers OK or ERR, late, or never; a client that has waited too long is *)
(* closed, and what the server still does with its commands is not known.  *)
(*                                                                         *)
(* A command is tagged with the user who sent it, and a transaction of the *)
(* server is the set of users whose inserts are in it, so that answers and *)
(* documents that reach the wrong user can be told.                        *)
(***************************************************************************)
EXTENDS Integers, Sequences, FiniteSets

CONSTANTS
  Users,
  Clients,         \* client objects; one that was closed may be used again
  NoClient,
  MaxIdleClients,  \* clients the pool keeps (5 in the code)
  MaxUses,         \* bound: times the pool is used
  MaxFaults        \* bound: refused commands and lost answers

ASSUME PoolAssumption ==
  IsFiniteSet(Users) /\ NoClient \notin Clients /\ MaxIdleClients \in Nat

VARIABLES
  pool,     \* the idle clients, a deque
  client,   \* of each client: is its socket open, and in_transaction
  user,     \* what each user does
  sent,     \* per client: commands the server has not handled
  answers,  \* per client: lines that were not read (_buffer and socket)
  txn,      \* server: of each connection, its transaction or NoClient
  index,    \* server: users whose inserts were committed
  foreign,  \* history: was anything committed for a user who did not?
  uses, faults  \* history

pvars == <<pool, client, user, sent, answers, txn, index, foreign, uses, faults>>

Closed == [open |-> FALSE, in_transaction |-> FALSE]
Idle == [pc |-> "idle", client |-> NoClient, script |-> <<>>]

\* The commands of a lookup of the API (fast: the index is not asked), of the
\* importer's search and of update_fingerprint_index.
Scripts == {<<>>, <<"get", "search">>, <<"get", "begin", "insert", "commit">>}

PoolInit ==
  /\ pool = <<>>
  /\ client = [c \in Clients |-> Closed]
  /\ user = [u \in Users |-> Idle]
  /\ sent = [c \in Clients |-> <<>>] /\ answers = [c \in Clients |-> <<>>]
  /\ txn = [c \in Clients |-> NoClient]
  /\ index = {} /\ foreign = FALSE
  /\ uses = 0 /\ faults = 0

server == <<txn, index, foreign>>

Fault == faults < MaxFaults /\ faults' = faults + 1

-----------------------------------------------------------------------------
(* Client *)

\* _putline
Send(u, c, command) == sent' = [sent EXCEPT ![c] = Append(@, <<u, command>>)]

\* close(): with a transaction open a rollback is sent, and the socket is closed
\* whatever becomes of it.  The user goes on at once, as it does when the answer
\* that it waits for does not come in time; nobody looks at the answer.
Close(u, c) ==
  /\ client' = [client EXCEPT ![c] = Closed]
  /\ answers' = [answers EXCEPT ![c] = <<>>]
  /\ IF client[c].in_transaction THEN Send(u, c, "rollback") ELSE UNCHANGED sent

\* A socket that is not in use: the server is done with the last one.
Unused(c) ==
  /\ ~ client[c].open /\ sent[c] = <<>> /\ txn[c] = NoClient
  /\ \A u \in Users : user[u].client # c

\* connect() with clients in the pool: the first is taken and pinged.
ConnectIdle(u, script) ==
  /\ user[u].pc = "idle" /\ pool # <<>>
  /\ uses < MaxUses /\ uses' = uses + 1
  /\ pool' = Tail(pool)
  /\ Send(u, Head(pool), "echo")
  /\ user' = [user EXCEPT ![u] = [pc |-> "ping", client |-> Head(pool), script |-> script]]
  /\ UNCHANGED <<client, answers, server, faults>>

\* connect() with none, or after a client that did not answer.
ConnectNew(u, script, c) ==
  /\ Unused(c)
  /\ \/ user[u].pc = "idle" /\ pool = <<>> /\ uses < MaxUses /\ uses' = uses + 1
     \/ user[u].pc = "reconnect" /\ script = user[u].script /\ UNCHANGED uses
  /\ client' = [client EXCEPT ![c] = [Closed EXCEPT !.open = TRUE]]
  /\ user' = [user EXCEPT ![u] = [pc |-> "use", client |-> c, script |-> script]]
  /\ UNCHANGED <<pool, sent, answers, server, faults>>

\* A client older than recycle seconds is closed without a ping.
Recycle(u) ==
  /\ user[u].pc = "idle" /\ pool # <<>> /\ Fault
  /\ uses < MaxUses /\ uses' = uses + 1
  /\ pool' = Tail(pool)
  /\ Close(u, Head(pool))
  /\ \E s \in Scripts : user' = [user EXCEPT ![u] = [Idle EXCEPT !.pc = "reconnect", !.script = s]]
  /\ UNCHANGED server

\* May the client send the command?  begin() and commit() check the flag.
Allowed(c, command) ==
  CASE command = "begin" -> ~ client[c].in_transaction
    [] command = "commit" -> client[c].in_transaction
    [] OTHER -> TRUE

\* begin() goes on in a transaction that is open already.
CommandJoins(u) ==
  LET c == user[u].client
      script == user[u].script
      joins == script # <<>> /\ Head(script) = "begin" /\ client[c].in_transaction
  IN
  /\ user[u].pc = "use"
  /\ IF joins THEN user' = [user EXCEPT ![u].script = Tail(@)] /\ UNCHANGED sent
     ELSE IF script # <<>> /\ Allowed(c, Head(script))
       THEN Send(u, c, Head(script)) /\ user' = [user EXCEPT ![u].pc = "wait"]
       ELSE UNCHANGED sent /\ user' = [user EXCEPT ![u].pc = "close"]
  /\ UNCHANGED <<pool, client, answers, server, uses, faults>>

\* The next command of the user; an exception or the end leads to close().
Command(u) ==
  LET c == user[u].client
      script == user[u].script
  IN
  /\ user[u].pc = "use"
  /\ IF script # <<>> /\ Allowed(c, Head(script))
       THEN Send(u, c, Head(script)) /\ user' = [user EXCEPT ![u].pc = "wait"]
       ELSE UNCHANGED sent /\ user' = [user EXCEPT ![u].pc = "close"]
  /\ UNCHANGED <<pool, client, answers, server, uses, faults>>

\* in_transaction after an OK.
Flagged(c, command) ==
  [client EXCEPT ![c].in_transaction =
     CASE command = "begin" -> TRUE
       [] command \in {"commit", "rollback"} -> FALSE
       [] OTHER -> @]

\* _getline: the first line is taken for the answer, whosever it is.
Read(u) ==
  LET c == user[u].client
      ok == Head(answers[c])[3] = "OK"
      command == IF user[u].pc = "rollback" THEN "rollback" ELSE Head(user[u].script)
  IN
  /\ user[u].pc \in {"ping", "wait", "rollback"} /\ client[c].open
  /\ answers[c] # <<>>
  /\ \/ /\ user[u].pc = "ping" /\ ok
        /\ user' = [user EXCEPT ![u].pc = "use"]
        /\ answers' = [answers EXCEPT ![c] = Tail(@)] /\ UNCHANGED <<client, sent>>
     \/ /\ user[u].pc = "ping" /\ ~ ok
        /\ user' = [user EXCEPT ![u].pc = "reconnect", ![u].client = NoClient]
        /\ Close(u, c)
     \/ /\ user[u].pc = "wait"
        /\ user' = [user EXCEPT ![u].pc = IF ok THEN "use" ELSE "close",
                                ![u].script = IF ok THEN Tail(@) ELSE @]
        /\ client' = IF ok THEN Flagged(c, command) ELSE client
        /\ answers' = [answers EXCEPT ![c] = Tail(@)] /\ UNCHANGED sent
     \/ /\ user[u].pc = "rollback"
        /\ user' = [user EXCEPT ![u].pc = "release"]
        /\ client' = IF ok THEN Flagged(c, command) ELSE client
        /\ answers' = [answers EXCEPT ![c] = Tail(@)] /\ UNCHANGED sent
  /\ UNCHANGED <<pool, server, uses, faults>>

\* A client that has waited too long stays open.
GiveUpOpen(u) ==
  /\ user[u].pc \in {"ping", "wait", "rollback"} /\ answers[user[u].client] = <<>> /\ Fault
  /\ user' = CASE user[u].pc = "ping" ->
                    [user EXCEPT ![u].pc = "reconnect", ![u].client = NoClient]
               [] OTHER -> [user EXCEPT ![u].pc = "release"]
  /\ UNCHANGED <<pool, client, sent, answers, server, uses>>

\* The deadline passes, or the socket fails: the client is closed.
GiveUp(u) ==
  LET c == user[u].client IN
  /\ user[u].pc \in {"ping", "wait", "rollback"} /\ answers[c] = <<>> /\ Fault
  /\ Close(u, c)
  /\ user' = CASE user[u].pc = "ping" ->
                    [user EXCEPT ![u].pc = "reconnect", ![u].client = NoClient]
               [] OTHER -> [user EXCEPT ![u].pc = "release"]
  /\ UNCHANGED <<pool, server, uses>>

\* IndexClientWrapper.close
WrapperClose(u) ==
  LET c == user[u].client IN
  /\ user[u].pc = "close"
  /\ IF client[c].in_transaction
       THEN Send(u, c, "rollback") /\ user' = [user EXCEPT ![u].pc = "rollback"]
       ELSE UNCHANGED sent /\ user' = [user EXCEPT ![u].pc = "release"]
  /\ UNCHANGED <<pool, client, answers, server, uses, faults>>

\* Any client goes back, closed or not, however many there are.
ReleaseAny(u) ==
  /\ user[u].pc = "release"
  /\ user' = [user EXCEPT ![u] = Idle]
  /\ pool' = Append(pool, user[u].client)
  /\ UNCHANGED <<client, sent, answers, server, uses, faults>>

\* The client goes back to the pool, unless it is closed or the pool is full.
Release(u) ==
  LET c == user[u].client IN
  /\ user[u].pc = "release"
  /\ user' = [user EXCEPT ![u] = Idle]
  /\ IF client[c].open /\ Len(pool) >= MaxIdleClients
       THEN Close(u, c) /\ UNCHANGED pool
       ELSE /\ pool' = IF client[c].open THEN Append(pool, c) ELSE pool
            /\ UNCHANGED <<client, answers, sent>>
  /\ UNCHANGED <<server, uses, faults>>

\* dispose(): the process ends its idle connections.
Dispose(u) ==
  /\ pool # <<>> /\ Fault
  /\ pool' = Tail(pool)
  /\ Close(u, Head(pool))
  /\ UNCHANGED <<user, server, uses>>

-----------------------------------------------------------------------------
(* Server *)

\* What the server does for a command it accepts.
Executed(c, who, command) ==
  /\ txn' = [txn EXCEPT ![c] = CASE command = "begin" -> {}
                                 [] command = "insert" -> @ \union {who}
                                 [] command \in {"commit", "rollback"} -> NoClient
                                 [] OTHER -> @]
  /\ index' = IF command = "commit" THEN index \union txn[c] ELSE index
  /\ foreign' = (foreign \/ (command = "commit" /\ ~ txn[c] \subseteq {who}))

\* Does the state of the connection let the server accept it?
Acceptable(c, command) ==
  CASE command = "begin" -> txn[c] = NoClient
    [] command \in {"insert", "commit", "rollback"} -> txn[c] # NoClient
    [] OTHER -> TRUE

ServerHandles(c) ==
  LET who == Head(sent[c])[1]
      command == Head(sent[c])[2]
      Line(word) == IF client[c].open
                      THEN answers' = [answers EXCEPT ![c] = Append(@, <<who, command, word>>)]
                      ELSE UNCHANGED answers
  IN
  /\ sent[c] # <<>>
  /\ sent' = [sent EXCEPT ![c] = Tail(@)]
  /\ \/ Acceptable(c, command) /\ Executed(c, who, command) /\ Line("OK") /\ UNCHANGED faults
     \/ ~ Acceptable(c, command) /\ Line("ERR") /\ UNCHANGED <<server, faults>>
     \/ Acceptable(c, command) /\ Line("ERR") /\ Fault /\ UNCHANGED server
  /\ UNCHANGED <<pool, client, user, uses>>

\* The server notices that a connection is gone, and forgets its transaction.
Disconnect(c) ==
  /\ ~ client[c].open /\ (sent[c] # <<>> \/ txn[c] # NoClient)
  /\ sent' = [sent EXCEPT ![c] = <<>>]
  /\ txn' = [txn EXCEPT ![c] = NoClient]
  /\ UNCHANGED <<pool, client, user, answers, index, foreign, uses, faults>>

-----------------------------------------------------------------------------
PoolNext ==
  \/ \E u \in Users :
       \/ \E s \in Scripts : ConnectIdle(u, s) \/ \E c \in Clients : ConnectNew(u, s, c)
       \/ Recycle(u) \/ Command(u) \/ Read(u) \/ GiveUp(u)
       \/ WrapperClose(u) \/ Release(u) \/ Dispose(u)
  \/ \E c \in Clients : ServerHandles(c) \/ Disconnect(c)

PoolSpec == PoolInit /\ [][PoolNext]_pvars

-----------------------------------------------------------------------------
(* Properties *)

InUse(c) == {u \in Users : user[u].client = c}

(* A client is idle in the pool or in the hands of one user, and never both;
   the pool holds open connections only, and no more than its limit, although
   users check in and out at any time. *)
PoolSound ==
  /\ Len(pool) <= MaxIdleClients
  /\ \A i, j \in 1 .. Len(pool) : pool[i] = pool[j] => i = j
  /\ \A i \in 1 .. Len(pool) : client[pool[i]].open /\ InUse(pool[i]) = {}
  /\ \A c \in Clients : Cardinality(InUse(c)) <= 1

(* The line a user reads answers the command this user has just sent: an answer
   that came too late dies with its connection and is not read by the next user
   of the pool. *)
AnswersMatch ==
  \A u \in Users :
    LET c == user[u].client IN
    user[u].pc \in {"ping", "wait", "rollback"} /\ answers[c] # <<>> =>
      /\ Len(answers[c]) = 1 /\ answers[c][1][1] = u
      /\ answers[c][1][2] = CASE user[u].pc = "ping" -> "echo"
                               [] user[u].pc = "rollback" -> "rollback"
                               [] OTHER -> Head(user[u].script)

(* A rollback that the server refused leaves its transaction open, and the
   connection goes back to the pool.  in_transaction still says so: what one
   user inserted is never committed by the next one. *)
OwnCommits == ~ foreign

-----------------------------------------------------------------------------
(* The inductive invariant behind them *)

Commands == {"echo", "get", "search", "begin", "insert", "commit", "rollback"}

\* What is left of a script in the middle of it.
Rests ==
  Scripts \union {<<"search">>, <<"begin", "insert", "commit">>, <<"insert", "commit">>,
                  <<"commit">>}

ClientType == [open : BOOLEAN, in_transaction : BOOLEAN]

UserType ==
  [pc : {"idle", "ping", "reconnect", "use", "wait", "close", "rollback", "release"},
   client : Clients \union {NoClient}, script : Rests]

PoolTyped ==
  /\ pool \in Seq(Clients) /\ client \in [Clients -> ClientType] /\ user \in [Users -> UserType]
  /\ sent \in [Clients -> Seq(Users \X Commands)]
  /\ answers \in [Clients -> Seq(Users \X Commands \X {"OK", "ERR"})]
  /\ txn = [c \in Clients |-> txn[c]]

\* Two users never have the same client.
HeldOnce ==
  \A u, v \in Users : u # v /\ user[u].client = user[v].client => user[u].client = NoClient

\* The pool: open clients that nobody holds, each once.
PoolKept ==
  /\ Len(pool) <= MaxIdleClients
  /\ \A i, j \in 1 .. Len(pool) : pool[i] = pool[j] => i = j
  /\ \A i \in 1 .. Len(pool) :
       client[pool[i]].open /\ \A u \in Users : user[u].client # pool[i]

Waiting == {"ping", "wait", "rollback"}

\* The command whose answer a user waits for.
Asked(q) ==
  CASE q.pc = "ping" -> "echo" [] q.pc = "rollback" -> "rollback" [] OTHER -> Head(q.script)

\* The transaction of c, if there is one, holds nothing but what u inserted.
Own(c, u) == txn[c] = NoClient \/ txn[c] \subseteq {u}

\* Something is under way on an open connection only when its user waits for it;
\* a commit that the server has not handled yet is of what its user inserted.
ClientSound(c) ==
  /\ ~ client[c].open => answers[c] = <<>> /\ ~ client[c].in_transaction
  /\ client[c].open /\ (sent[c] # <<>> \/ answers[c] # <<>>) =>
       \E u \in Users : user[u].client = c /\ user[u].pc \in Waiting
  /\ \A i \in 1 .. Len(sent[c]) :
       sent[c][i][2] = "commit" => i = 1 /\ Own(c, sent[c][i][1])

\* A user who waits has asked once and was answered at most once; past begin, the
\* transaction is the user's.
UserSound(u) ==
  LET q == user[u]
      c == q.client
  IN
  /\ c = NoClient <=> q.pc \in {"idle", "reconnect"}
  /\ q.pc \in Waiting \union {"use", "close"} => client[c].open
  /\ q.pc \in Waiting =>
       \/ sent[c] = << <<u, Asked(q)>> >> /\ answers[c] = <<>>
       \/ sent[c] = <<>> /\ \E word \in {"OK", "ERR"} : answers[c] = << <<u, Asked(q), word>> >>
  /\ q.pc = "wait" => q.script # <<>>
  /\ q.pc \in {"ping", "reconnect"} => q.script \in Scripts
  /\ q.pc \in {"use", "wait"} /\ q.script \in {<<"insert", "commit">>, <<"commit">>} => Own(c, u)
  /\ q.pc = "wait" /\ Head(q.script) = "begin" /\ answers[c] # <<>> /\ answers[c][1][3] = "OK" =>
       Own(c, u)

PoolInv ==
  /\ PoolTyped /\ HeldOnce /\ PoolKept /\ OwnCommits
  /\ \A c \in Clients : ClientSound(c)
  /\ \A u \in Users : UserSound(u)
=============================================================================
