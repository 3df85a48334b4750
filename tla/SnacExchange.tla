---------------------------- MODULE SnacExchange ----------------------------
(***************************************************************************)
(* How a thread of zMessanger exchanges SNACs with the ICQ server:         *)
(* sendSNAC numbers and sends a request, the reader thread (readSNAC) puts *)
(* every reply into the shared snac_cache, and waitSNAC looks for the      *)
(* reply there: once in the whole cache, then again and again among the    *)
(* entries not older than the start of the wait.                           *)
(*                                                                         *)
(* One request stands for one call of sendSNAC, one wait for the calls of  *)
(* waitSNAC that collect its reply, part after part.  Times are relative:  *)
(* an entry has an age, a wait has an elapsed time, and Tick is a second   *)
(* of the clock behind time(NULL).                                         *)
(***************************************************************************)
EXTENDS Naturals

CONSTANTS
  Threads,     \* threads that send requests: connect thread, GUI, status clicks
  Kinds,       \* reply families: a (service_id, subtype_id) pair waitSNAC looks for
  WildKinds,   \* families some caller waits for with req_id 0 (01,03  01,18  01,0f)
  PostKinds,   \* families whose reply the login leaves uncollected (01,0f)
  MultiKinds,  \* families whose reply may come in several parts (13,06  15,03)
  WaitLimit,   \* a wait gives up after this many seconds (50)
  Lifetime,    \* SNAC_CACHE_LIFETIME: entries this old are cleared (300)
  MaxReq,      \* bound: requests issued
  MaxParts,    \* bound: parts of one reply
  MaxConn      \* bound: connections made

ASSUME SnacExchangeAssumption ==
  /\ Kinds # {}
  /\ WildKinds \subseteq Kinds
  /\ PostKinds \subseteq Kinds
  /\ MultiKinds \subseteq Kinds \ WildKinds
  /\ WaitLimit \in Nat \ {0}
  /\ Lifetime \in Nat /\ WaitLimit < Lifetime
  /\ MaxReq \in Nat /\ MaxParts \in Nat \ {0} /\ MaxConn \in Nat

VARIABLES
  snac_seq_number,     \* req_id of the next request
  raced,               \* history: an increment of it has been lost, stored over by
                       \* a thread that had loaded the number before
  network_break_flag,
  up,                  \* a socket is open and the reader thread reads it
  online,              \* stepConnect > 39: the login is over
  conns,               \* connections made so far
  issued,              \* requests issued so far
  reqs,                \* history: reqs[n] is the n-th request issued, [kind, id, wild]: its
                       \* caller waits with req_id 0 if it is wild, else with id
  status,              \* status[n]: what has become of it, see RequestReply
  sent,                \* sent[n]: parts of the reply to n the server has sent
  open,                \* requests whose reply the server has not finished
  snac_cache,          \* entries [req, kind, id, part, more, age, at]
  added,               \* entries added so far
  taken,               \* history: <<n, r, p>>, request n got part p of r's reply
  pc,                  \* where each thread is
  owed,                \* the requests whose sync ids it holds and has still to collect
  loaded,              \* the sequence number it has read and not yet stored, or 0
  cur,                 \* the request whose reply it collects, 0 if none
  elapsed              \* seconds since startWait of its wait

numbering == <<snac_seq_number, raced>>
link   == <<network_break_flag, up, online, conns>>
server == <<sent, open>>
asked  == <<issued, reqs, status>>
thread == <<pc, owed, loaded, cur, elapsed>>
vars == <<numbering, link, asked, server, snac_cache, added, taken, thread>>

Request == [kind : Kinds, id : Nat, wild : BOOLEAN]

Status == {"none", "posted", "sent", "waiting", "done", "failed"}

PC == {"idle", "numbered", "start", "lookup", "poll"}
\* An entry keeps, beside what is received, the request it answers (req) and
\* a number that grows along the list (at): the code has neither, it walks the
\* list from the front.
Entry == [req : Nat, kind : Kinds, id : Nat, part : Nat, more : BOOLEAN,
          age : 0..Lifetime, at : Nat]

Least(a, b) == IF a <= b THEN a ELSE b

-----------------------------------------------------------------------------
(* The cache *)

\* Mutant: the comparison of ages turned round.
Cleared_Inverted(c) == {e \in c : e.age >= Lifetime}

\* SnacCache::clearOlderThan(SNAC_CACHE_LIFETIME)
Cleared(c) == {e \in c : e.age < Lifetime}

\* The test of findEntry for the filter of request n; a req_id of 0 in the
\* filter matches every id.
Matches(e, n) ==
  /\ e.kind = reqs[n].kind
  /\ reqs[n].wild \/ e.id = reqs[n].id

\* SnacCache::findEntry looks at the whole list ...
Found(n) == {e \in snac_cache : Matches(e, n)}

\* ... findEntryFromTime skips what is older than the start of the wait.
FoundFrom(n, time) == {e \in Found(n) : e.age <= time}

\* Mutant: the list is walked from the back.
First_FromBack(found) == {e \in found : \A f \in found : e.at >= f.at}

First(found) == {e \in found : \A f \in found : e.at <= f.at}

\* An entry one second later.
Aged(e) == [e EXCEPT !.age = Least(@ + 1, Lifetime)]

-----------------------------------------------------------------------------
Init ==
  /\ snac_seq_number = 1 /\ raced = FALSE
  /\ network_break_flag = FALSE /\ up = FALSE /\ online = FALSE /\ conns = 0
  /\ issued = 0
  /\ reqs = [n \in 1..MaxReq |-> [kind |-> CHOOSE k \in Kinds : TRUE, id |-> 0, wild |-> FALSE]]
  /\ status = [n \in 1..MaxReq |-> "none"]
  /\ sent = [n \in 1..MaxReq |-> 0] /\ open = {}
  /\ snac_cache = {} /\ added = 0
  /\ taken = {}
  /\ pc = [t \in Threads |-> "idle"]
  /\ owed = [t \in Threads |-> {}]
  /\ loaded = [t \in Threads |-> 0]
  /\ cur = [t \in Threads |-> 0]
  /\ elapsed = [t \in Threads |-> 0]

-----------------------------------------------------------------------------
(* sendSNAC *)

\* snac_seq_number++ is a load and a store with no lock: this is the load.
LoadSeq(t) ==
  /\ pc[t] = "idle"
  /\ issued < MaxReq
  /\ loaded' = [loaded EXCEPT ![t] = snac_seq_number]
  /\ pc' = [pc EXCEPT ![t] = "numbered"]
  /\ UNCHANGED <<numbering, link, asked, server, snac_cache, added, taken, owed, cur, elapsed>>

\* The store, then the loop around FlapPacket::send_to: a set break flag is
\* taken down and nothing is sent; with no socket the send fails, and it may
\* meet an error of the socket ("failed").  What the caller does after a send that
\* goes well is s: it leaves the reply alone ("posted", the sendStatus of the
\* login), collects it later by its id ("sent"), or waits for it at once with
\* req_id 0 ("waiting"; for the 01,0f of setStatus only once the login is over).
SendSNAC(t, k, s) ==
  LET goes == ~network_break_flag /\ up /\ s # "failed"
      n == issued + 1
      waits == goes /\ s = "waiting"
  IN
  /\ pc[t] = "numbered"
  /\ issued < MaxReq
  /\ s = "posted" => ~online /\ k \in PostKinds
  /\ s = "waiting" => k \in WildKinds /\ (k \in PostKinds => online)
  /\ snac_seq_number' = loaded[t] + 1
  /\ raced' = (raced \/ snac_seq_number # loaded[t])
  /\ issued' = n
  /\ reqs' = [reqs EXCEPT ![n] = [kind |-> k, id |-> loaded[t], wild |-> s = "waiting"]]
  /\ status' = [status EXCEPT ![n] = IF goes THEN s ELSE "failed"]
  /\ open' = IF goes THEN open \cup {n} ELSE open
  /\ network_break_flag' = FALSE
  /\ pc' = [pc EXCEPT ![t] = IF waits THEN "start" ELSE "idle"]
  /\ cur' = [cur EXCEPT ![t] = IF waits THEN n ELSE 0]
  /\ owed' = [owed EXCEPT ![t] = IF goes /\ s = "sent" THEN @ \cup {n} ELSE @]
  /\ loaded' = [loaded EXCEPT ![t] = 0]
  /\ UNCHANGED <<up, online, conns, sent, snac_cache, added, taken, elapsed>>

-----------------------------------------------------------------------------
(* waitSNAC *)

\* Mutant: the caller keeps the sync id of another request.
Collect_WrongRequest(t, n) ==
  /\ pc[t] = "idle"
  /\ n \in owed[t]
  /\ owed' = [owed EXCEPT ![t] = @ \ {n}]
  /\ status' = [status EXCEPT ![n] = "waiting"]
  /\ cur' = [cur EXCEPT ![t] = n + 1]
  /\ pc' = [pc EXCEPT ![t] = "start"]
  /\ UNCHANGED <<numbering, link, issued, reqs, server, snac_cache, added, taken, loaded, elapsed>>

\* A thread turns to one of the requests it has sent (the login sends seven
\* before it collects the first reply).
Collect(t, n) ==
  /\ pc[t] = "idle"
  /\ n \in owed[t]
  /\ owed' = [owed EXCEPT ![t] = @ \ {n}]
  /\ status' = [status EXCEPT ![n] = "waiting"]
  /\ cur' = [cur EXCEPT ![t] = n]
  /\ pc' = [pc EXCEPT ![t] = "start"]
  /\ UNCHANGED <<numbering, link, issued, reqs, server, snac_cache, added, taken, loaded, elapsed>>

\* startWait = time(NULL), then clearOlderThan.
StartWait(t) ==
  /\ pc[t] = "start"
  /\ elapsed' = [elapsed EXCEPT ![t] = 0]
  /\ snac_cache' = Cleared(snac_cache)
  /\ pc' = [pc EXCEPT ![t] = "lookup"]
  /\ UNCHANGED <<numbering, link, asked, server, added, taken, owed, loaded, cur>>

\* Mutant: the entry is copied out and not removed.
Take_KeepsEntry(t, e) ==
  /\ taken' = taken \cup {<<cur[t], e.req, e.part>>}
  /\ status' = [status EXCEPT ![cur[t]] = "done"]
  /\ pc' = [pc EXCEPT ![t] = "idle"]
  /\ cur' = [cur EXCEPT ![t] = 0]
  /\ elapsed' = [elapsed EXCEPT ![t] = 0]
  /\ UNCHANGED <<numbering, link, issued, reqs, server, snac_cache, added, owed, loaded>>

\* The caller has a part.  It loops for the next one while flags&1 is set
\* (getSSICopy, getFullInfo, getOfflMsg, getSearchAnswer) unless it cannot
\* decode what it got.
Take(t, e) ==
  LET n == cur[t] IN
  \E s \in {"waiting", "done", "failed"} :
    /\ s = "waiting" => e.more
    /\ s = "done" => ~e.more
    /\ snac_cache' = snac_cache \ {e}
    /\ taken' = taken \cup {<<n, e.req, e.part>>}
    /\ status' = [status EXCEPT ![n] = s]
    /\ pc' = [pc EXCEPT ![t] = IF s = "waiting" THEN "start" ELSE "idle"]
    /\ cur' = [cur EXCEPT ![t] = IF s = "waiting" THEN n ELSE 0]
    /\ elapsed' = [elapsed EXCEPT ![t] = 0]
    /\ UNCHANGED <<numbering, link, issued, reqs, server, added, owed, loaded>>

\* Mutant: the first lookup already skips what is older than startWait.
Lookup_FromStart(t) ==
  /\ pc[t] = "lookup"
  /\ \/ \E e \in First(FoundFrom(cur[t], elapsed[t])) : Take(t, e)
     \/ /\ FoundFrom(cur[t], elapsed[t]) = {}
        /\ pc' = [pc EXCEPT ![t] = "poll"]
        /\ UNCHANGED <<numbering, link, asked, server, snac_cache, added, taken,
                       owed, loaded, cur, elapsed>>

\* findEntry: the first match in the whole cache, else on to the loop.
Lookup(t) ==
  /\ pc[t] = "lookup"
  /\ \/ \E e \in First(Found(cur[t])) : Take(t, e)
     \/ /\ Found(cur[t]) = {}
        /\ pc' = [pc EXCEPT ![t] = "poll"]
        /\ UNCHANGED <<numbering, link, asked, server, snac_cache, added, taken,
                       owed, loaded, cur, elapsed>>

\* A round of the loop that finds the reply.
Poll(t) ==
  /\ pc[t] = "poll"
  /\ ~network_break_flag /\ elapsed[t] < WaitLimit
  /\ \E e \in First(FoundFrom(cur[t], elapsed[t])) : Take(t, e)

\* The loop ends without a reply: waitSNAC returns 0, its caller false.
GiveUp(t) ==
  /\ pc[t] = "poll"
  /\ network_break_flag \/ elapsed[t] >= WaitLimit
  /\ status' = [status EXCEPT ![cur[t]] = "failed"]
  /\ pc' = [pc EXCEPT ![t] = "idle"]
  /\ cur' = [cur EXCEPT ![t] = 0]
  /\ elapsed' = [elapsed EXCEPT ![t] = 0]
  /\ UNCHANGED <<numbering, link, issued, reqs, server, snac_cache, added, taken, owed, loaded>>

-----------------------------------------------------------------------------
(* readSNAC, the server behind it, and the life of a connection *)

\* The reader receives the next part of the reply to n and appends it; once
\* online it clears old entries before it does.
ReadSNAC(n, more) ==
  /\ up /\ n \in open
  /\ more => reqs[n].kind \in MultiKinds /\ sent[n] + 1 < MaxParts
  /\ sent' = [sent EXCEPT ![n] = @ + 1]
  /\ open' = IF more THEN open ELSE open \ {n}
  /\ snac_cache' = (IF online THEN Cleared(snac_cache) ELSE snac_cache) \cup
       {[req |-> n, kind |-> reqs[n].kind, id |-> reqs[n].id, part |-> sent[n] + 1,
         more |-> more, age |-> 0, at |-> added]}
  /\ added' = added + 1
  /\ UNCHANGED <<numbering, link, asked, taken, thread>>

\* Mutant: a new connection numbers its requests from 1 again.
Connect_ResetsSeq ==
  /\ ~up /\ conns < MaxConn
  /\ network_break_flag' = FALSE
  /\ up' = TRUE /\ online' = FALSE
  /\ conns' = conns + 1
  /\ snac_seq_number' = 1
  /\ UNCHANGED <<raced, asked, server, snac_cache, added, taken, thread>>

\* Connect(): takes the break flag down; neither the cache nor the sequence
\* number is reset.
Connect ==
  /\ ~up /\ conns < MaxConn
  /\ network_break_flag' = FALSE
  /\ up' = TRUE /\ online' = FALSE
  /\ conns' = conns + 1
  /\ UNCHANGED <<numbering, asked, server, snac_cache, added, taken, thread>>

\* Mutant: the session that begins after the login numbers from 1 again.
LoginDone_ResetsSeq ==
  /\ up /\ ~online
  /\ online' = TRUE
  /\ snac_seq_number' = 1
  /\ UNCHANGED <<raced, network_break_flag, up, conns, asked, server,
                 snac_cache, added, taken, thread>>

\* The last step of doConnect_phase2.
LoginDone ==
  /\ up /\ ~online
  /\ online' = TRUE
  /\ UNCHANGED <<numbering, network_break_flag, up, conns, asked, server,
                 snac_cache, added, taken, thread>>

\* doDisconnect, with the break flag (breakNetworkOperation) or without it
\* (Disconnect): the reader is cancelled and the socket closed, so what the
\* server had still to say is lost.
Disconnect(break) ==
  /\ up
  /\ network_break_flag' = (break \/ network_break_flag)
  /\ up' = FALSE
  /\ open' = {}
  /\ UNCHANGED <<numbering, online, conns, asked, sent, snac_cache, added, taken, thread>>

\* A second passes.  Nothing is told apart beyond Lifetime and WaitLimit.
Tick ==
  /\ snac_cache' = {Aged(e) : e \in snac_cache}
  /\ elapsed' = [t \in Threads |-> IF pc[t] \in {"lookup", "poll"}
                                    THEN Least(elapsed[t] + 1, WaitLimit)
                                    ELSE elapsed[t]]
  /\ UNCHANGED <<numbering, link, asked, server, added, taken, pc, owed, loaded, cur>>

-----------------------------------------------------------------------------
Send(t) ==
  \/ LoadSeq(t)
  \/ \E k \in Kinds, s \in {"posted", "sent", "waiting", "failed"} : SendSNAC(t, k, s)

Wait(t) ==
  \/ \E n \in 1..issued : Collect(t, n)
  \/ StartWait(t)
  \/ Lookup(t)
  \/ Poll(t)
  \/ GiveUp(t)

Next ==
  \/ \E t \in Threads : Send(t) \/ Wait(t)
  \/ \E n \in 1..issued, more \in BOOLEAN : ReadSNAC(n, more)
  \/ Connect
  \/ LoginDone
  \/ \E break \in BOOLEAN : Disconnect(break)
  \/ Tick

Spec == Init /\ [][Next]_vars

-----------------------------------------------------------------------------
(* Properties *)

\* The values the variables may have.
TypeOK ==
  /\ snac_seq_number \in Nat /\ raced \in BOOLEAN
  /\ network_break_flag \in BOOLEAN /\ up \in BOOLEAN /\ online \in BOOLEAN
  /\ conns \in 0..MaxConn
  /\ issued \in 0..MaxReq
  /\ reqs \in [1..MaxReq -> Request]
  /\ status \in [1..MaxReq -> Status]
  /\ sent \in [1..MaxReq -> Nat]
  /\ open \subseteq 1..issued
  /\ snac_cache \subseteq Entry
  /\ added \in Nat
  /\ taken \subseteq (1..issued) \X (1..issued) \X Nat
  /\ pc \in [Threads -> PC]
  /\ owed \in [Threads -> SUBSET (1..issued)]
  /\ loaded \in [Threads -> Nat]
  /\ cur \in [Threads -> 0..issued]
  /\ elapsed \in [Threads -> 0..WaitLimit]

\* No two requests carry the same req_id.  The unlocked increment in sendSNAC
\* keeps this only while one thread sends.
UniqueIds == \A m, n \in 1..issued : reqs[m].id = reqs[n].id => m = n

\* A caller that asks with its req_id is given nothing but the reply to its own
\* request, across reconnections too, which reset neither the cache nor the
\* sequence number.
OwnReply == \A x \in taken : ~reqs[x[1]].wild => x[1] = x[2]

\* A lost increment of snac_seq_number is the only way to another's reply: as
\* long as every store of snac_seq_number++ has met the number it was computed
\* from, the callers of any number of threads are given their own replies, with
\* requests collected late, replies left in the cache and new connections.
OwnReplyUnlessRaced == ~raced => OwnReply

\* A part of a reply is given to one caller, once, and is then gone from the
\* cache: two threads that wait with filters matching the same entry never both
\* get it.
AtMostOnce ==
  /\ \A x, y \in taken : x[2] = y[2] /\ x[3] = y[3] => x = y
  /\ \A e \in snac_cache, x \in taken : ~(x[2] = e.req /\ x[3] = e.part)

\* A reply cannot fall between the lookup in the whole cache and the loop, which
\* skips entries older than startWait: while the loop runs, every entry that
\* matches its filter is young enough for it.
PollSeesReply ==
  \A t \in Threads :
    pc[t] = "poll" /\ elapsed[t] < WaitLimit =>
      \A e \in Found(cur[t]) : e.age <= elapsed[t]

\* clearOlderThan, which every wait and the reader call for everybody, never
\* removes an entry that matches the filter of a loop with time left: the entry
\* stays or is given to a caller.
ClearSparesWaited ==
  [][\A t \in Threads :
       pc[t] = "poll" /\ elapsed[t] < WaitLimit =>
         \A e \in Found(cur[t]) :
           \/ \E f \in snac_cache' : f.req = e.req /\ f.part = e.part
           \/ \E x \in taken' : x[2] = e.req /\ x[3] = e.part]_vars

\* The reply setStatus takes confirms the status it has just sent: no request
\* collected with req_id 0 is given the reply to another one.
OwnStatusReply == \A x \in taken : reqs[x[1]].wild => x[1] = x[2]

\* The exchange keeps the promise of RequestReply.
Promise == INSTANCE RequestReply WITH Ids <- 1..MaxReq, Parts <- 1..MaxParts

PromiseSpec == Promise!Spec
=============================================================================
