------------------------- MODULE SnacExchangeProofs -------------------------
(***************************************************************************)
(* Theorems about SnacExchange for any number of threads, requests, parts  *)
(* and connections.                                                        *)
(***************************************************************************)
EXTENDS SnacExchange, TLAPS

-----------------------------------------------------------------------------
(* The inductive invariants *)

\* A thread is inside waitSNAC, or about to enter it, exactly while it collects.
Collecting ==
  \A t \in Threads : pc[t] \in {"start", "lookup", "poll"} <=> cur[t] # 0

\* Every entry is a part, already sent, of the reply to a request issued.
Genuine ==
  \A e \in snac_cache :
    /\ e.req \in 1..issued
    /\ e.kind = reqs[e.req].kind /\ e.id = reqs[e.req].id
    /\ e.part \in 1..sent[e.req]

TypeInv == TypeOK /\ Collecting /\ Genuine

-----------------------------------------------------------------------------
(* What the helpers return *)

\* Clearing only removes entries.
LEMMA ClearedSubset == \A c : Cleared(c) \subseteq c
  BY DEF Cleared

\* A second changes the age of an entry and nothing else.
LEMMA AgedFields ==
  ASSUME NEW e \in Entry
  PROVE  /\ Aged(e) \in Entry
         /\ Aged(e).age <= e.age + 1
         /\ Aged(e).req = e.req /\ Aged(e).kind = e.kind /\ Aged(e).id = e.id
         /\ Aged(e).part = e.part /\ Aged(e).more = e.more /\ Aged(e).at = e.at
  <1>1. Least(e.age + 1, Lifetime) \in 0..Lifetime /\ Least(e.age + 1, Lifetime) <= e.age + 1
    BY SnacExchangeAssumption DEF Least, Entry
  <1> QED
    BY <1>1 DEF Aged, Entry

\* The entry the reader adds is an entry.
LEMMA NewEntryType ==
  ASSUME TypeOK, NEW n \in open, NEW more \in BOOLEAN
  PROVE  [req |-> n, kind |-> reqs[n].kind, id |-> reqs[n].id, part |-> sent[n] + 1,
          more |-> more, age |-> 0, at |-> added] \in Entry
  <1>1. n \in 1..MaxReq /\ n \in Nat
    BY SnacExchangeAssumption DEF TypeOK
  <1>2. reqs[n].kind \in Kinds /\ reqs[n].id \in Nat
    BY <1>1 DEF TypeOK, Request
  <1>3. added \in Nat /\ sent \in [1..MaxReq -> Nat]
    BY DEF TypeOK
  <1>4. 0 \in 0..Lifetime
    BY SnacExchangeAssumption
  <1> QED
    BY <1>1, <1>2, <1>3, <1>4 DEF Entry

-----------------------------------------------------------------------------
(* Type correctness *)

\* The initial state has the types.
LEMMA TypeInit == Init => TypeInv
  <1> SUFFICES ASSUME Init PROVE TypeInv
    OBVIOUS
  <1>1. (CHOOSE k \in Kinds : TRUE) \in Kinds
    BY SnacExchangeAssumption
  <1>2. reqs \in [1..MaxReq -> Request]
    BY <1>1 DEF Init, Request
  <1>3. TypeOK
    <2>1. status \in [1..MaxReq -> Status] /\ pc \in [Threads -> PC]
      BY DEF Init, Status, PC
    <2>2. /\ snac_seq_number \in Nat /\ added \in Nat /\ conns \in 0..MaxConn
          /\ issued \in 0..MaxReq
      BY SnacExchangeAssumption DEF Init
    <2>3. network_break_flag \in BOOLEAN /\ up \in BOOLEAN /\ online \in BOOLEAN /\ raced \in BOOLEAN
      BY DEF Init
    <2>4. /\ sent \in [1..MaxReq -> Nat] /\ loaded \in [Threads -> Nat]
          /\ owed \in [Threads -> SUBSET (1..issued)]
          /\ cur \in [Threads -> 0..issued] /\ elapsed \in [Threads -> 0..WaitLimit]
      BY SnacExchangeAssumption DEF Init
    <2>5. /\ open \subseteq 1..issued /\ snac_cache \subseteq Entry
          /\ taken \subseteq (1..issued) \X (1..issued) \X Nat
      BY DEF Init
    <2> QED
      BY <1>2, <2>1, <2>2, <2>3, <2>4, <2>5 DEF TypeOK
  <1>4. Collecting /\ Genuine
    BY DEF Init, Collecting, Genuine
  <1> QED
    BY <1>3, <1>4 DEF TypeInv

\* One part handed over keeps the types.
LEMMA TypeTake ==
  ASSUME TypeInv, NEW t \in Threads, cur[t] # 0, NEW e \in snac_cache, Take(t, e)
  PROVE  TypeInv'
  <1> USE SnacExchangeAssumption
  <1>1. PICK s \in {"waiting", "done", "failed"} :
          /\ snac_cache' = snac_cache \ {e}
          /\ taken' = taken \cup {<<cur[t], e.req, e.part>>}
          /\ status' = [status EXCEPT ![cur[t]] = s]
          /\ pc' = [pc EXCEPT ![t] = IF s = "waiting" THEN "start" ELSE "idle"]
          /\ cur' = [cur EXCEPT ![t] = IF s = "waiting" THEN cur[t] ELSE 0]
          /\ elapsed' = [elapsed EXCEPT ![t] = 0]
          /\ UNCHANGED <<numbering, link, issued, reqs, server, added, owed, loaded>>
    BY DEF Take
  <1>2. cur[t] \in 1..issued /\ e.req \in 1..issued /\ e.part \in Nat
    BY DEF TypeInv, TypeOK, Genuine, Entry
  <1>3. status' \in [1..MaxReq -> Status]
    BY <1>1 DEF TypeInv, TypeOK, Status
  <1>4. taken' \subseteq (1..issued) \X (1..issued) \X Nat
    BY <1>1, <1>2 DEF TypeInv, TypeOK
  <1>5. pc' \in [Threads -> PC]
    BY <1>1 DEF TypeInv, TypeOK, PC
  <1>6. cur' \in [Threads -> 0..issued] /\ elapsed' \in [Threads -> 0..WaitLimit]
    BY <1>1, <1>2 DEF TypeInv, TypeOK
  <1>7. TypeOK'
    BY <1>1, <1>3, <1>4, <1>5, <1>6 DEF numbering, TypeInv, TypeOK, link, server
  <1>8. Collecting'
    BY <1>1 DEF TypeInv, TypeOK, Collecting
  <1>9. Genuine'
    BY <1>1 DEF TypeInv, Genuine, server
  <1> QED
    BY <1>7, <1>8, <1>9 DEF TypeInv

\* Every step keeps the types.
LEMMA TypeNext == TypeInv /\ [Next]_vars => TypeInv'
  <1> SUFFICES ASSUME TypeInv, [Next]_vars PROVE TypeInv'
    OBVIOUS
  <1> USE SnacExchangeAssumption
  <1>1. ASSUME NEW t \in Threads, LoadSeq(t) PROVE TypeInv'
    <2>1. TypeOK'
      BY <1>1 DEF numbering, LoadSeq, TypeInv, TypeOK, PC, link, asked, server
    <2>2. Collecting' /\ Genuine'
      BY <1>1 DEF LoadSeq, TypeInv, TypeOK, Collecting, Genuine, link, asked, server
    <2> QED
      BY <2>1, <2>2 DEF TypeInv
  <1>2. ASSUME NEW t \in Threads, NEW k \in Kinds,
               NEW s \in {"posted", "sent", "waiting", "failed"}, SendSNAC(t, k, s)
        PROVE  TypeInv'
    <2>1. issued' = issued + 1 /\ issued' \in 0..MaxReq
      BY <1>2 DEF SendSNAC, TypeInv, TypeOK
    <2>2. reqs' \in [1..MaxReq -> Request]
      <3>1. [kind |-> k, id |-> loaded[t], wild |-> s = "waiting"] \in Request
        BY DEF TypeInv, TypeOK, Request
      <3> QED
        BY <1>2, <3>1 DEF SendSNAC, TypeInv, TypeOK
    <2>3. status' \in [1..MaxReq -> Status]
      BY <1>2 DEF SendSNAC, TypeInv, TypeOK, Status
    <2>4. open' \subseteq 1..issued' /\ owed' \in [Threads -> SUBSET (1..issued')]
      BY <1>2, <2>1, SMTT(60) DEF SendSNAC, TypeInv, TypeOK
    <2>5. pc' \in [Threads -> PC]
      BY <1>2 DEF SendSNAC, TypeInv, TypeOK, PC
    <2>6. cur' \in [Threads -> 0..issued'] /\ loaded' \in [Threads -> Nat]
      BY <1>2, <2>1, SMTT(60) DEF SendSNAC, TypeInv, TypeOK
    <2>7. taken' \subseteq (1..issued') \X (1..issued') \X Nat
      <3>1. taken' = taken /\ taken \subseteq (1..issued) \X (1..issued) \X Nat
        BY <1>2 DEF SendSNAC, TypeInv, TypeOK
      <3>2. 1..issued \subseteq 1..issued'
        BY <2>1 DEF TypeInv, TypeOK
      <3> QED
        BY <3>1, <3>2
    <2>8. snac_seq_number' \in Nat /\ raced' \in BOOLEAN
      BY <1>2 DEF SendSNAC, TypeInv, TypeOK
    <2>9. TypeOK'
      BY <1>2, <2>1, <2>2, <2>3, <2>4, <2>5, <2>6, <2>7, <2>8 DEF SendSNAC, TypeInv, TypeOK
    <2>10. Collecting'
      BY <1>2, <2>1 DEF SendSNAC, TypeInv, TypeOK, Collecting
    <2>11. Genuine'
      BY <1>2, <2>1, SMTT(60) DEF SendSNAC, TypeInv, TypeOK, Genuine
    <2> QED
      BY <2>9, <2>10, <2>11 DEF TypeInv
  <1>3. ASSUME NEW t \in Threads, NEW n \in 1..issued, Collect(t, n) PROVE TypeInv'
    <2>1. TypeOK'
      <3>1. status' \in [1..MaxReq -> Status] /\ pc' \in [Threads -> PC]
        BY <1>3 DEF Collect, TypeInv, TypeOK, PC, Status
      <3>2. /\ owed' \in [Threads -> SUBSET (1..issued)]
            /\ cur' \in [Threads -> 0..issued] /\ elapsed' \in [Threads -> 0..WaitLimit]
        BY <1>3 DEF Collect, TypeInv, TypeOK
      <3> QED
        BY <1>3, <3>1, <3>2 DEF numbering, Collect, TypeInv, TypeOK, link, server
    <2>2. Collecting' /\ Genuine'
      BY <1>3 DEF Collect, TypeInv, TypeOK, Collecting, Genuine, server
    <2> QED
      BY <2>1, <2>2 DEF TypeInv
  <1>4. ASSUME NEW t \in Threads, StartWait(t) PROVE TypeInv'
    <2>1. TypeOK'
      BY <1>4, ClearedSubset DEF numbering, StartWait, TypeInv, TypeOK, PC, link, asked, server
    <2>2. Collecting'
      BY <1>4 DEF StartWait, TypeInv, TypeOK, Collecting
    <2>3. Genuine'
      BY <1>4, ClearedSubset DEF StartWait, TypeInv, Genuine, asked, server
    <2> QED
      BY <2>1, <2>2, <2>3 DEF TypeInv
  <1>5. ASSUME NEW t \in Threads, Lookup(t) PROVE TypeInv'
    <2>1. cur[t] # 0
      BY <1>5 DEF Lookup, TypeInv, Collecting
    <2>2. CASE \E e \in First(Found(cur[t])) : Take(t, e)
      BY <2>1, <2>2, TypeTake DEF First, Found
    <2>3. CASE UNCHANGED <<numbering, link, asked, server, snac_cache, added, taken,
                           owed, loaded, cur, elapsed>> /\ pc' = [pc EXCEPT ![t] = "poll"]
      <3>1. TypeOK'
        BY <2>3 DEF numbering, TypeInv, TypeOK, PC, link, asked, server
      <3>2. Collecting' /\ Genuine'
        BY <1>5, <2>1, <2>3 DEF TypeInv, TypeOK, Collecting, Genuine, asked, server
      <3> QED
        BY <3>1, <3>2 DEF TypeInv
    <2> QED
      BY <1>5, <2>2, <2>3 DEF Lookup
  <1>6. ASSUME NEW t \in Threads, Poll(t) PROVE TypeInv'
    <2>1. cur[t] # 0
      BY <1>6 DEF Poll, TypeInv, Collecting
    <2> QED
      BY <1>6, <2>1, TypeTake DEF Poll, First, FoundFrom, Found
  <1>7. ASSUME NEW t \in Threads, GiveUp(t) PROVE TypeInv'
    <2>1. TypeOK'
      <3>1. status' \in [1..MaxReq -> Status] /\ pc' \in [Threads -> PC]
        BY <1>7 DEF GiveUp, TypeInv, TypeOK, PC, Status
      <3>2. /\ owed' \in [Threads -> SUBSET (1..issued)]
            /\ cur' \in [Threads -> 0..issued] /\ elapsed' \in [Threads -> 0..WaitLimit]
        BY <1>7 DEF GiveUp, TypeInv, TypeOK
      <3> QED
        BY <1>7, <3>1, <3>2 DEF numbering, GiveUp, TypeInv, TypeOK, link, server
    <2>2. Collecting' /\ Genuine'
      BY <1>7 DEF GiveUp, TypeInv, TypeOK, Collecting, Genuine, server
    <2> QED
      BY <2>1, <2>2 DEF TypeInv
  <1>8. ASSUME NEW n \in 1..issued, NEW more \in BOOLEAN, ReadSNAC(n, more) PROVE TypeInv'
    <2> DEFINE new == [req |-> n, kind |-> reqs[n].kind, id |-> reqs[n].id,
                       part |-> sent[n] + 1, more |-> more, age |-> 0, at |-> added]
    <2>1. snac_cache' \subseteq snac_cache \cup {new}
      BY <1>8, ClearedSubset DEF ReadSNAC
    <2>2. new \in Entry
      BY <1>8, NewEntryType DEF ReadSNAC, TypeInv
    <2>3. n \in 1..MaxReq /\ sent[n] \in Nat /\ sent' = [sent EXCEPT ![n] = @ + 1]
      BY <1>8 DEF ReadSNAC, TypeInv, TypeOK
    <2>4. TypeOK'
      <3> HIDE DEF new
      <3>1. snac_cache' \subseteq Entry
        BY <2>1, <2>2 DEF TypeInv, TypeOK
      <3>2. sent' \in [1..MaxReq -> Nat]
        BY <2>3 DEF TypeInv, TypeOK
      <3> QED
        BY <1>8, <3>1, <3>2 DEF numbering, ReadSNAC, TypeInv, TypeOK, link, asked, thread
    <2>5. Collecting'
      BY <1>8 DEF ReadSNAC, TypeInv, Collecting, thread
    <2>6. Genuine'
      <3> SUFFICES ASSUME NEW e \in snac_cache'
                   PROVE  /\ e.req \in 1..issued
                          /\ e.kind = reqs[e.req].kind /\ e.id = reqs[e.req].id
                          /\ e.part \in 1..sent'[e.req]
        BY <1>8 DEF Genuine, ReadSNAC, asked
      <3>1. CASE e = new
        <4>1. e.req = n /\ e.kind = reqs[n].kind /\ e.id = reqs[n].id /\ e.part = sent[n] + 1
          BY <3>1
        <4>2. sent'[n] = sent[n] + 1
          BY <2>3 DEF TypeInv, TypeOK
        <4> QED
          BY <2>3, <4>1, <4>2
      <3>2. CASE e \in snac_cache
        <4>1. e.req \in 1..MaxReq /\ e.part \in 1..sent[e.req] /\ sent[e.req] \in Nat
          BY <3>2 DEF TypeInv, TypeOK, Genuine
        <4>2. e.part \in 1..sent'[e.req]
          BY <2>3, <4>1 DEF TypeInv, TypeOK
        <4> QED
          BY <3>2, <4>2 DEF TypeInv, Genuine
      <3> QED
        BY <2>1, <3>1, <3>2
    <2> QED
      BY <2>4, <2>5, <2>6 DEF TypeInv
  <1>9. CASE Connect
    <2>1. TypeOK'
      <3>1. conns' \in 0..MaxConn
        BY <1>9 DEF Connect, TypeInv, TypeOK
      <3>2. network_break_flag' \in BOOLEAN /\ up' \in BOOLEAN /\ online' \in BOOLEAN
        BY <1>9 DEF Connect
      <3> QED
        BY <1>9, <3>1, <3>2 DEF numbering, Connect, TypeInv, TypeOK, asked, server, thread
    <2>2. Collecting' /\ Genuine'
      BY <1>9 DEF Connect, TypeInv, Collecting, Genuine, asked, server, thread
    <2> QED
      BY <2>1, <2>2 DEF TypeInv
  <1>10. CASE LoginDone
    <2>1. TypeOK'
      BY <1>10 DEF numbering, LoginDone, TypeInv, TypeOK, asked, server, thread
    <2>2. Collecting' /\ Genuine'
      BY <1>10 DEF LoginDone, TypeInv, Collecting, Genuine, asked, server, thread
    <2> QED
      BY <2>1, <2>2 DEF TypeInv
  <1>11. ASSUME NEW break \in BOOLEAN, Disconnect(break) PROVE TypeInv'
    <2>1. TypeOK'
      BY <1>11 DEF numbering, Disconnect, TypeInv, TypeOK, asked, thread
    <2>2. Collecting' /\ Genuine'
      BY <1>11 DEF Disconnect, TypeInv, Collecting, Genuine, asked, thread
    <2> QED
      BY <2>1, <2>2 DEF TypeInv
  <1>12. CASE Tick
    <2>1. \A f \in snac_cache' : \E e \in snac_cache : f = Aged(e) /\ e \in Entry
      BY <1>12 DEF Tick, TypeInv, TypeOK
    <2>2. snac_cache' \subseteq Entry
      BY <2>1, AgedFields
    <2>3. elapsed' \in [Threads -> 0..WaitLimit]
      BY <1>12 DEF Tick, TypeInv, TypeOK, Least
    <2>4. TypeOK'
      BY <1>12, <2>2, <2>3 DEF numbering, Tick, TypeInv, TypeOK, link, asked, server
    <2>5. Collecting'
      BY <1>12 DEF Tick, TypeInv, Collecting
    <2>6. Genuine'
      BY <1>12, <2>1, AgedFields DEF Tick, TypeInv, Genuine, asked, server
    <2> QED
      BY <2>4, <2>5, <2>6 DEF TypeInv
  <1>13. CASE UNCHANGED vars
    <2>1. TypeOK'
      BY <1>13 DEF numbering, TypeInv, TypeOK, vars, link, asked, server, thread
    <2>2. Collecting' /\ Genuine'
      BY <1>13 DEF TypeInv, Collecting, Genuine, vars, asked, server, thread
    <2> QED
      BY <2>1, <2>2 DEF TypeInv
  <1> QED
    BY <1>1, <1>2, <1>3, <1>4, <1>5, <1>6, <1>7, <1>8, <1>9, <1>10, <1>11, <1>12, <1>13
    DEF Next, Send, Wait

\* In every reachable state the variables have their types, whatever the number
\* of threads, requests, parts and connections.
THEOREM TypeCorrect == Spec => []TypeOK
  <1>1. Spec => []TypeInv
    BY TypeInit, TypeNext, PTL DEF Spec
  <1>2. TypeInv => TypeOK
    BY DEF TypeInv
  <1> QED
    BY <1>1, <1>2, PTL

-----------------------------------------------------------------------------
(* A part is given out once, and a loop sees the reply it waits for *)

\* The list is in the order of arrival, which for one reply is that of its parts.
Ordered ==
  /\ \A e \in snac_cache : e.at < added
  /\ \A e, f \in snac_cache : e.at = f.at => e = f
  /\ \A e, f \in snac_cache : e.req = f.req /\ e.at < f.at => e.part < f.part

\* Parts given out have been sent and are older than what is still in the cache.
Handed ==
  /\ \A x \in taken : x[3] <= sent[x[2]]
  /\ \A x \in taken, e \in snac_cache : x[2] = e.req => x[3] < e.part
  /\ \A x, y \in taken : x[2] = y[2] /\ x[3] = y[3] => x = y

CacheInv == Ordered /\ Handed /\ PollSeesReply

\* Where nothing of the cache, the requests and the waits changes, CacheInv stays.
LEMMA CacheStutter ==
  ASSUME CacheInv,
         UNCHANGED <<snac_cache, added, taken, sent, reqs, elapsed>>,
         \A t \in Threads : pc'[t] = "poll" => pc[t] = "poll" /\ cur'[t] = cur[t]
  PROVE  CacheInv'
  <1>1. Ordered' /\ Handed'
    BY DEF CacheInv, Ordered, Handed
  <1>2. PollSeesReply'
    BY DEF CacheInv, PollSeesReply, Found, Matches
  <1> QED
    BY <1>1, <1>2 DEF CacheInv

\* The entry a thread takes is the oldest of its reply.
LEMMA TakenIsOldest ==
  ASSUME TypeInv, NEW t \in Threads, cur[t] # 0,
         NEW e \in First(Found(cur[t]))
  PROVE  \A f \in snac_cache : f.req = e.req => e.at <= f.at
  <1> SUFFICES ASSUME NEW f \in snac_cache, f.req = e.req
               PROVE  e.at <= f.at
    OBVIOUS
  <1>1. e \in snac_cache /\ Matches(e, cur[t])
    BY DEF First, Found
  <1>2. f.kind = e.kind /\ f.id = e.id
    BY <1>1 DEF TypeInv, Genuine
  <1>3. f \in Found(cur[t])
    BY <1>1, <1>2 DEF Found, Matches
  <1> QED
    BY <1>3 DEF First

\* In the loop the entries young enough are all that match.
LEMMA PollSeesAll ==
  ASSUME TypeInv, PollSeesReply, NEW t \in Threads, pc[t] = "poll", elapsed[t] < WaitLimit
  PROVE  FoundFrom(cur[t], elapsed[t]) = Found(cur[t])
  BY DEF PollSeesReply, FoundFrom

\* Handing over the oldest part of a reply keeps CacheInv.
LEMMA CacheTake ==
  ASSUME TypeInv, CacheInv, NEW t \in Threads, cur[t] # 0,
         NEW e \in First(Found(cur[t])), Take(t, e)
  PROVE  CacheInv'
  <1>1. /\ snac_cache' = snac_cache \ {e}
        /\ taken' = taken \cup {<<cur[t], e.req, e.part>>}
        /\ elapsed' = [elapsed EXCEPT ![t] = 0]
        /\ UNCHANGED <<reqs, sent, added>>
    BY DEF Take, server
  <1>2. \A u \in Threads : pc'[u] = "poll" => u # t /\ pc[u] = "poll" /\ cur'[u] = cur[u]
    BY DEF Take, TypeInv, TypeOK
  <1>3. e \in snac_cache /\ e.part \in Nat /\ e.at \in Nat /\ e.part <= sent[e.req]
    BY DEF First, Found, TypeInv, TypeOK, Entry, Genuine
  <1>4. Ordered'
    BY <1>1 DEF CacheInv, Ordered
  <1>5. ASSUME NEW f \in snac_cache', f.req = e.req
        PROVE  e.part < f.part
    <2>1. f \in snac_cache /\ f # e /\ f.at \in Nat
      BY <1>1, <1>5 DEF TypeInv, TypeOK, Entry
    <2>2. e.at <= f.at /\ e.at # f.at
      BY <1>3, <1>5, <2>1, TakenIsOldest DEF CacheInv, Ordered
    <2>3. e.at < f.at
      BY <1>3, <2>1, <2>2
    <2> QED
      BY <1>3, <1>5, <2>1, <2>3 DEF CacheInv, Ordered
  <1>6. Handed'
    <2> DEFINE new == <<cur[t], e.req, e.part>>
    <2>1. \A x \in taken' : x[3] <= sent[x[2]]
      BY <1>1, <1>3 DEF CacheInv, Handed
    <2>2. \A x \in taken', f \in snac_cache' : x[2] = f.req => x[3] < f.part
      BY <1>1, <1>5 DEF CacheInv, Handed
    <2>3. \A x \in taken : ~(x[2] = e.req /\ x[3] = e.part)
      BY <1>3 DEF CacheInv, Handed
    <2>4. \A x, y \in taken' : x[2] = y[2] /\ x[3] = y[3] => x = y
      BY <1>1, <2>3 DEF CacheInv, Handed
    <2> QED
      BY <1>1, <2>1, <2>2, <2>4 DEF Handed
  <1>7. PollSeesReply'
    <2> SUFFICES ASSUME NEW u \in Threads, pc'[u] = "poll", elapsed'[u] < WaitLimit,
                        NEW f \in Found(cur[u])'
                 PROVE  f.age <= elapsed'[u]
      BY DEF PollSeesReply
    <2>1. u # t /\ pc[u] = "poll" /\ cur'[u] = cur[u]
      BY <1>2
    <2>2. elapsed'[u] = elapsed[u]
      BY <1>1, <2>1 DEF TypeInv, TypeOK
    <2>3. f \in Found(cur[u])
      BY <1>1, <2>1 DEF Found, Matches
    <2> QED
      BY <2>1, <2>2, <2>3 DEF CacheInv, PollSeesReply
  <1> QED
    BY <1>4, <1>6, <1>7 DEF CacheInv

\* Initially nothing has come in.
LEMMA CacheInit == Init => CacheInv
  BY DEF Init, CacheInv, Ordered, Handed, PollSeesReply

\* Every step keeps CacheInv.
LEMMA CacheNext == TypeInv /\ CacheInv /\ [Next]_vars => CacheInv'
  <1> SUFFICES ASSUME TypeInv, CacheInv, [Next]_vars PROVE CacheInv'
    OBVIOUS
  <1>1. ASSUME NEW t \in Threads, LoadSeq(t) PROVE CacheInv'
    BY <1>1, CacheStutter DEF LoadSeq, TypeInv, TypeOK, asked, server
  <1>2. ASSUME NEW t \in Threads, NEW k \in Kinds,
               NEW s \in {"posted", "sent", "waiting", "failed"}, SendSNAC(t, k, s)
        PROVE  CacheInv'
    <2>1. UNCHANGED <<snac_cache, added, taken, sent, elapsed>>
      BY <1>2 DEF SendSNAC
    <2>2. Ordered' /\ Handed'
      BY <2>1 DEF CacheInv, Ordered, Handed
    <2>3. PollSeesReply'
      <3> SUFFICES ASSUME NEW u \in Threads, pc'[u] = "poll", elapsed'[u] < WaitLimit,
                          NEW f \in Found(cur[u])'
                   PROVE  f.age <= elapsed'[u]
        BY DEF PollSeesReply
      <3>1. u # t /\ pc[u] = "poll" /\ cur'[u] = cur[u]
        BY <1>2 DEF SendSNAC, TypeInv, TypeOK
      <3>2. cur[u] \in 1..issued /\ issued + 1 \in 1..MaxReq
        <4>1. cur[u] # 0 /\ cur[u] \in 0..issued
          BY <3>1 DEF TypeInv, TypeOK, Collecting
        <4>2. issued \in 0..MaxReq /\ issued < MaxReq /\ MaxReq \in Nat
          BY <1>2, SnacExchangeAssumption DEF SendSNAC, TypeInv, TypeOK
        <4> QED
          BY <4>1, <4>2
      <3>3. reqs'[cur[u]] = reqs[cur[u]]
        BY <1>2, <3>2 DEF SendSNAC, TypeInv, TypeOK
      <3>4. f \in Found(cur[u])
        BY <2>1, <3>1, <3>3 DEF Found, Matches
      <3> QED
        BY <2>1, <3>1, <3>4 DEF CacheInv, PollSeesReply
    <2> QED
      BY <2>2, <2>3 DEF CacheInv
  <1>3. ASSUME NEW t \in Threads, NEW n \in 1..issued, Collect(t, n) PROVE CacheInv'
    BY <1>3, CacheStutter DEF Collect, TypeInv, TypeOK, server
  <1>4. ASSUME NEW t \in Threads, StartWait(t) PROVE CacheInv'
    <2>1. snac_cache' \subseteq snac_cache /\ UNCHANGED <<added, taken, sent, reqs, cur>>
      BY <1>4, ClearedSubset DEF StartWait, asked, server
    <2>2. Ordered' /\ Handed'
      BY <2>1 DEF CacheInv, Ordered, Handed
    <2>3. PollSeesReply'
      <3> SUFFICES ASSUME NEW u \in Threads, pc'[u] = "poll", elapsed'[u] < WaitLimit,
                          NEW f \in Found(cur[u])'
                   PROVE  f.age <= elapsed'[u]
        BY DEF PollSeesReply
      <3>1. pc[u] = "poll" /\ elapsed'[u] = elapsed[u]
        BY <1>4 DEF StartWait, TypeInv, TypeOK
      <3>2. f \in Found(cur[u])
        BY <2>1 DEF Found, Matches
      <3> QED
        BY <3>1, <3>2 DEF CacheInv, PollSeesReply
    <2> QED
      BY <2>2, <2>3 DEF CacheInv
  <1>5. ASSUME NEW t \in Threads, Lookup(t) PROVE CacheInv'
    <2>1. cur[t] # 0
      BY <1>5 DEF Lookup, TypeInv, Collecting
    <2>2. CASE \E e \in First(Found(cur[t])) : Take(t, e)
      BY <2>1, <2>2, CacheTake
    <2>3. CASE /\ Found(cur[t]) = {}
               /\ pc' = [pc EXCEPT ![t] = "poll"]
               /\ UNCHANGED <<numbering, link, asked, server, snac_cache, added,
                              taken, owed, loaded, cur, elapsed>>
      <3>1. Ordered' /\ Handed'
        BY <2>3 DEF CacheInv, Ordered, Handed, server
      <3>2. PollSeesReply'
        BY <2>3 DEF CacheInv, PollSeesReply, Found, Matches, asked, TypeInv, TypeOK
      <3> QED
        BY <3>1, <3>2 DEF CacheInv
    <2> QED
      BY <1>5, <2>2, <2>3 DEF Lookup
  <1>6. ASSUME NEW t \in Threads, Poll(t) PROVE CacheInv'
    <2>1. cur[t] # 0
      BY <1>6 DEF Poll, TypeInv, Collecting
    <2>2. FoundFrom(cur[t], elapsed[t]) = Found(cur[t])
      BY <1>6, PollSeesAll DEF Poll, CacheInv
    <2> QED
      BY <1>6, <2>1, <2>2, CacheTake DEF Poll
  <1>7. ASSUME NEW t \in Threads, GiveUp(t) PROVE CacheInv'
    <2>1. UNCHANGED <<snac_cache, added, taken, sent, reqs>>
      BY <1>7 DEF GiveUp, server
    <2>2. Ordered' /\ Handed'
      BY <2>1 DEF CacheInv, Ordered, Handed
    <2>3. \A u \in Threads : pc'[u] = "poll" =>
             pc[u] = "poll" /\ cur'[u] = cur[u] /\ elapsed'[u] = elapsed[u]
      BY <1>7 DEF GiveUp, TypeInv, TypeOK
    <2>4. PollSeesReply'
      BY <2>1, <2>3 DEF CacheInv, PollSeesReply, Found, Matches
    <2> QED
      BY <2>2, <2>4 DEF CacheInv
  <1>8. ASSUME NEW n \in 1..issued, NEW more \in BOOLEAN, ReadSNAC(n, more) PROVE CacheInv'
    <2> DEFINE new == [req |-> n, kind |-> reqs[n].kind, id |-> reqs[n].id,
                       part |-> sent[n] + 1, more |-> more, age |-> 0, at |-> added]
    <2>1. /\ snac_cache' \subseteq snac_cache \cup {new}
          /\ added' = added + 1 /\ sent' = [sent EXCEPT ![n] = @ + 1]
          /\ UNCHANGED <<reqs, taken, pc, cur, elapsed>>
      BY <1>8, ClearedSubset DEF ReadSNAC, asked, thread
    <2>2. /\ new.req = n /\ new.part = sent[n] + 1 /\ new.at = added /\ new.age = 0
          /\ sent[n] \in Nat /\ added \in Nat /\ sent'[n] = sent[n] + 1
          /\ \A m \in 1..issued : sent[m] \in Nat /\ sent[m] <= sent'[m]
      <3>1. sent \in [1..MaxReq -> Nat] /\ added \in Nat /\ 1..issued \subseteq 1..MaxReq
        BY SnacExchangeAssumption DEF TypeInv, TypeOK
      <3>2. sent[n] \in Nat /\ sent'[n] = sent[n] + 1
        BY <2>1, <3>1
      <3>3. \A m \in 1..issued : sent[m] \in Nat /\ sent[m] <= sent'[m]
        BY <2>1, <3>1
      <3> QED
        BY <3>1, <3>2, <3>3
    <2>3. \A e \in snac_cache : /\ e.at \in Nat /\ e.at < added /\ e.part \in Nat
                                /\ e.req \in 1..issued /\ e.part <= sent[e.req]
      BY DEF TypeInv, TypeOK, Genuine, Entry, CacheInv, Ordered
    <2>4. \A x \in taken : x[2] \in 1..issued /\ x[3] \in Nat /\ x[3] <= sent[x[2]]
      BY DEF TypeInv, TypeOK, CacheInv, Handed
    <2> HIDE DEF new
    <2>5. Ordered'
      <3>1. \A e \in snac_cache' : e.at < added'
        BY <2>1, <2>2, <2>3
      <3>2. \A e, f \in snac_cache' : e.at = f.at => e = f
        BY <2>1, <2>2, <2>3 DEF CacheInv, Ordered
      <3>3. \A e, f \in snac_cache' : e.req = f.req /\ e.at < f.at => e.part < f.part
        BY <2>1, <2>2, <2>3 DEF CacheInv, Ordered
      <3> QED
        BY <3>1, <3>2, <3>3 DEF Ordered
    <2>6. Handed'
      <3>1. \A x \in taken' : x[3] <= sent'[x[2]]
        BY <2>1, <2>2, <2>4
      <3>2. \A x \in taken', e \in snac_cache' : x[2] = e.req => x[3] < e.part
        BY <2>1, <2>2, <2>4 DEF CacheInv, Handed
      <3> QED
        BY <2>1, <3>1, <3>2 DEF CacheInv, Handed
    <2>7. PollSeesReply'
      <3> SUFFICES ASSUME NEW u \in Threads, pc'[u] = "poll", elapsed'[u] < WaitLimit,
                          NEW f \in Found(cur[u])'
                   PROVE  f.age <= elapsed'[u]
        BY DEF PollSeesReply
      <3>1. CASE f = new
        BY <2>1, <2>2, <3>1 DEF TypeInv, TypeOK
      <3>2. CASE f \in Found(cur[u])
        BY <2>1, <3>2 DEF CacheInv, PollSeesReply
      <3>3. f = new \/ f \in Found(cur[u])
        BY <2>1 DEF Found, Matches
      <3> QED
        BY <3>1, <3>2, <3>3
    <2> QED
      BY <2>5, <2>6, <2>7 DEF CacheInv
  <1>9. CASE Connect
    BY <1>9, CacheStutter DEF Connect, asked, server, thread
  <1>10. CASE LoginDone
    BY <1>10, CacheStutter DEF LoginDone, asked, server, thread
  <1>11. ASSUME NEW break \in BOOLEAN, Disconnect(break) PROVE CacheInv'
    BY <1>11, CacheStutter DEF Disconnect, asked, thread
  <1>12. CASE Tick
    <2>1. /\ snac_cache' = {Aged(e) : e \in snac_cache}
          /\ UNCHANGED <<reqs, sent, added, taken, pc, cur>>
      BY <1>12 DEF Tick, asked, server
    <2>2. \A f \in snac_cache' : \E e \in snac_cache :
             /\ f = Aged(e) /\ e.age \in Nat /\ f.age \in Nat /\ f.age <= e.age + 1
             /\ f.req = e.req /\ f.kind = e.kind /\ f.id = e.id
             /\ f.part = e.part /\ f.at = e.at
      <3>1. \A e \in snac_cache : e \in Entry /\ e.age \in Nat /\ Aged(e).age \in Nat
        BY AgedFields, SnacExchangeAssumption DEF TypeInv, TypeOK, Entry
      <3> QED
        BY <2>1, <3>1, AgedFields
    <2>3. Ordered'
      <3>1. \A e, f \in snac_cache' : e.at = f.at => e = f
        BY <2>2 DEF CacheInv, Ordered
      <3>2. \A e, f \in snac_cache' : e.req = f.req /\ e.at < f.at => e.part < f.part
        BY <2>2 DEF CacheInv, Ordered
      <3> QED
        BY <2>1, <2>2, <3>1, <3>2 DEF CacheInv, Ordered
    <2>4. Handed'
      BY <2>1, <2>2 DEF CacheInv, Handed
    <2>5. PollSeesReply'
      <3> SUFFICES ASSUME NEW u \in Threads, pc'[u] = "poll", elapsed'[u] < WaitLimit,
                          NEW f \in Found(cur[u])'
                   PROVE  f.age <= elapsed'[u]
        BY DEF PollSeesReply
      <3>1. pc[u] = "poll" /\ elapsed[u] \in Nat
        BY <2>1, SnacExchangeAssumption DEF TypeInv, TypeOK
      <3>2. elapsed'[u] = elapsed[u] + 1
        BY <1>12, <3>1, SnacExchangeAssumption DEF Tick, Least
      <3>3. PICK e \in snac_cache : /\ e.age \in Nat /\ f.age \in Nat /\ f.age <= e.age + 1
                                    /\ f.kind = e.kind /\ f.id = e.id
        BY <2>2 DEF Found
      <3>4. e \in Found(cur[u])
        BY <2>1, <3>3 DEF Found, Matches
      <3>5. elapsed[u] < WaitLimit
        BY <3>1, <3>2, SnacExchangeAssumption
      <3>6. e.age <= elapsed[u]
        BY <3>1, <3>4, <3>5 DEF CacheInv, PollSeesReply
      <3> QED
        BY <3>1, <3>2, <3>3, <3>6
    <2> QED
      BY <2>3, <2>4, <2>5 DEF CacheInv
  <1>13. CASE UNCHANGED vars
    BY <1>13, CacheStutter DEF vars, asked, server, thread
  <1> QED
    BY <1>1, <1>2, <1>3, <1>4, <1>5, <1>6, <1>7, <1>8, <1>9, <1>10, <1>11, <1>12, <1>13
    DEF Next, Send, Wait

\* Both invariants hold in every reachable state.
LEMMA CacheInvariant == Spec => [](TypeInv /\ CacheInv)
  <1>1. Init => TypeInv /\ CacheInv
    BY TypeInit, CacheInit
  <1>2. TypeInv /\ CacheInv /\ [Next]_vars => (TypeInv /\ CacheInv)'
    BY TypeNext, CacheNext
  <1> QED
    BY <1>1, <1>2, PTL DEF Spec

\* No part of a reply is given out twice, by any two of the threads.
THEOREM GivenOnce == Spec => []AtMostOnce
  <1>1. TypeInv /\ CacheInv => AtMostOnce
    BY DEF TypeInv, TypeOK, Entry, CacheInv, Handed, AtMostOnce
  <1> QED
    BY <1>1, CacheInvariant, PTL

\* A reply never falls between the lookup in the cache and the loop.
THEOREM NoReplyMissed == Spec => []PollSeesReply
  <1>1. CacheInv => PollSeesReply
    BY DEF CacheInv
  <1> QED
    BY <1>1, CacheInvariant, PTL

-----------------------------------------------------------------------------
(* Clearing the cache spares what a loop waits for *)

\* A step of the system, for one entry a loop is waiting for.
LEMMA SparedStep ==
  ASSUME TypeInv, PollSeesReply, [Next]_vars,
         NEW t \in Threads, pc[t] = "poll", elapsed[t] < WaitLimit,
         NEW e \in Found(cur[t])
  PROVE  \/ \E f \in snac_cache' : f.req = e.req /\ f.part = e.part
         \/ \E x \in taken' : x[2] = e.req /\ x[3] = e.part
  <1> DEFINE Spared == \/ \E f \in snac_cache' : f.req = e.req /\ f.part = e.part
                      \/ \E x \in taken' : x[2] = e.req /\ x[3] = e.part
  <1>1. e \in snac_cache /\ e \in Entry
    BY DEF Found, TypeInv, TypeOK
  <1>2. e.age < Lifetime
    <2>1. e.age \in Nat /\ elapsed[t] \in Nat /\ e.age <= elapsed[t]
      BY <1>1, SnacExchangeAssumption DEF PollSeesReply, Entry, TypeInv, TypeOK
    <2> QED
      BY <2>1, SnacExchangeAssumption
  <1>3. ASSUME e \in snac_cache' PROVE Spared
    BY <1>3
  <1>4. ASSUME NEW u \in Threads, NEW f \in snac_cache, Take(u, f) PROVE Spared
    <2>1. snac_cache' = snac_cache \ {f} /\ taken' = taken \cup {<<cur[u], f.req, f.part>>}
      BY <1>4 DEF Take
    <2>2. CASE f = e
      <3> DEFINE x == <<cur[u], e.req, e.part>>
      <3>1. x \in taken' /\ x[2] = e.req /\ x[3] = e.part
        BY <2>1, <2>2
      <3> QED
        BY <3>1
    <2>3. CASE f # e
      BY <1>1, <1>3, <2>1, <2>3
    <2> QED
      BY <2>2, <2>3
  <1>5. ASSUME NEW u \in Threads, Send(u) PROVE Spared
    BY <1>1, <1>3, <1>5 DEF Send, LoadSeq, SendSNAC
  <1>6. ASSUME NEW u \in Threads, Wait(u) PROVE Spared
    <2>1. CASE StartWait(u)
      BY <1>1, <1>2, <1>3, <2>1 DEF StartWait, Cleared
    <2>2. CASE \E n \in 1..issued : Collect(u, n)
      BY <1>1, <1>3, <2>2 DEF Collect
    <2>3. CASE Lookup(u)
      BY <1>1, <1>3, <1>4, <2>3 DEF Lookup, First, Found
    <2>4. CASE Poll(u)
      BY <1>4, <2>4 DEF Poll, First, FoundFrom, Found
    <2>5. CASE GiveUp(u)
      BY <1>1, <1>3, <2>5 DEF GiveUp
    <2> QED
      BY <1>6, <2>1, <2>2, <2>3, <2>4, <2>5 DEF Wait
  <1>7. ASSUME NEW n \in 1..issued, NEW more \in BOOLEAN, ReadSNAC(n, more) PROVE Spared
    BY <1>1, <1>2, <1>3, <1>7 DEF ReadSNAC, Cleared
  <1>8. CASE Connect \/ LoginDone \/ \E break \in BOOLEAN : Disconnect(break)
    BY <1>1, <1>3, <1>8 DEF Connect, LoginDone, Disconnect
  <1>9. CASE Tick
    BY <1>1, <1>9, AgedFields DEF Tick
  <1>10. CASE UNCHANGED vars
    BY <1>1, <1>3, <1>10 DEF vars
  <1> QED
    BY <1>5, <1>6, <1>7, <1>8, <1>9, <1>10 DEF Next

\* clearOlderThan, called by every wait and by the reader for everybody, never
\* removes the reply another thread is waiting for.
THEOREM ClearingIsSafe == Spec => ClearSparesWaited
  <1>1. TypeInv /\ CacheInv /\ [Next]_vars =>
          [\A t \in Threads :
             pc[t] = "poll" /\ elapsed[t] < WaitLimit =>
               \A e \in Found(cur[t]) :
                 \/ \E f \in snac_cache' : f.req = e.req /\ f.part = e.part
                 \/ \E x \in taken' : x[2] = e.req /\ x[3] = e.part]_vars
    BY SparedStep DEF CacheInv
  <1> QED
    BY <1>1, CacheInvariant, PTL DEF Spec, ClearSparesWaited

-----------------------------------------------------------------------------
(* Nobody is given the reply to the request of another one *)

\* Steps keep the requests issued, so what was a double id stays one.
LEMMA RequestsStay ==
  ASSUME TypeInv, [Next]_vars
  PROVE  /\ issued' \in Nat /\ issued \in Nat /\ issued <= issued'
         /\ \A n \in 1..issued : reqs'[n] = reqs[n]
  <1>1. ASSUME NEW t \in Threads, NEW k \in Kinds,
               NEW s \in {"posted", "sent", "waiting", "failed"}, SendSNAC(t, k, s)
        PROVE  issued' = issued + 1 /\ \A n \in 1..issued : reqs'[n] = reqs[n]
    BY <1>1, SnacExchangeAssumption DEF SendSNAC, TypeInv, TypeOK
  <1>2. ASSUME NEW t \in Threads, LoadSeq(t) \/ Wait(t) PROVE UNCHANGED <<issued, reqs>>
    BY <1>2 DEF LoadSeq, Wait, Collect, StartWait, Lookup, Poll, GiveUp, Take, asked
  <1>3. ASSUME NEW n \in 1..issued, NEW more \in BOOLEAN, ReadSNAC(n, more)
        PROVE  UNCHANGED <<issued, reqs>>
    BY <1>3 DEF ReadSNAC, asked
  <1>4. ASSUME \/ Connect \/ LoginDone \/ (\E break \in BOOLEAN : Disconnect(break)) \/ Tick
               \/ UNCHANGED vars
        PROVE  UNCHANGED <<issued, reqs>>
    BY <1>4 DEF Connect, LoginDone, Disconnect, Tick, asked, vars
  <1>5. \/ UNCHANGED <<issued, reqs>>
        \/ issued' = issued + 1 /\ \A n \in 1..issued : reqs'[n] = reqs[n]
    BY <1>1, <1>2, <1>3, <1>4 DEF Next, Send
  <1>6. issued \in Nat
    BY DEF TypeInv, TypeOK
  <1> QED
    BY <1>5, <1>6

\* What is given out in one step, if anything, matches the filter it is given to.
LEMMA GivenMatches ==
  ASSUME TypeInv, [Next]_vars, NEW x \in taken'
  PROVE  \/ x \in taken
         \/ /\ x[1] \in 1..issued /\ x[2] \in 1..issued /\ UNCHANGED reqs
            /\ reqs[x[2]].kind = reqs[x[1]].kind
            /\ reqs[x[1]].wild \/ reqs[x[2]].id = reqs[x[1]].id
  <1> DEFINE Fits == \/ x \in taken
                    \/ /\ x[1] \in 1..issued /\ x[2] \in 1..issued /\ UNCHANGED reqs
                       /\ reqs[x[2]].kind = reqs[x[1]].kind
                       /\ reqs[x[1]].wild \/ reqs[x[2]].id = reqs[x[1]].id
  <1>1. ASSUME NEW t \in Threads, cur[t] # 0, NEW e \in Found(cur[t]), Take(t, e)
        PROVE  Fits
    <2>1. taken' = taken \cup {<<cur[t], e.req, e.part>>} /\ UNCHANGED reqs
      BY <1>1 DEF Take
    <2>2. cur[t] \in 1..issued
      BY <1>1 DEF TypeInv, TypeOK
    <2>3. /\ e.req \in 1..issued /\ reqs[e.req].kind = reqs[cur[t]].kind
          /\ reqs[cur[t]].wild \/ reqs[e.req].id = reqs[cur[t]].id
      BY DEF Found, Matches, TypeInv, Genuine
    <2> QED
      BY <2>1, <2>2, <2>3
  <1>2. ASSUME NEW t \in Threads, Wait(t) PROVE Fits
    <2>1. CASE Lookup(t)
      <3>1. cur[t] # 0
        BY <2>1 DEF Lookup, TypeInv, Collecting
      <3> QED
        BY <1>1, <2>1, <3>1 DEF Lookup, First
    <2>2. CASE Poll(t)
      <3>1. cur[t] # 0
        BY <2>2 DEF Poll, TypeInv, Collecting
      <3> QED
        BY <1>1, <2>2, <3>1 DEF Poll, First, FoundFrom
    <2> QED
      BY <1>2, <2>1, <2>2 DEF Wait, Collect, StartWait, GiveUp
  <1>3. ASSUME NEW t \in Threads, Send(t) PROVE Fits
    BY <1>3 DEF Send, LoadSeq, SendSNAC
  <1>4. ASSUME NEW n \in 1..issued, NEW more \in BOOLEAN, ReadSNAC(n, more) PROVE Fits
    BY <1>4 DEF ReadSNAC
  <1>5. CASE \/ Connect \/ LoginDone \/ (\E break \in BOOLEAN : Disconnect(break)) \/ Tick
            \/ UNCHANGED vars
    BY <1>5 DEF Connect, LoginDone, Disconnect, Tick, vars
  <1> QED
    BY <1>2, <1>3, <1>4, <1>5 DEF Next

\* While ids are distinct the comparison of ids in findEntry is enough.
OwnReplyIfUnique == UniqueIds => OwnReply

\* Every step keeps this: what is given matches, and requests stay as they are.
LEMMA OwnIfUnique == Spec => []OwnReplyIfUnique
  <1>1. Init => OwnReplyIfUnique
    BY DEF Init, OwnReplyIfUnique, OwnReply
  <1>2. TypeInv /\ OwnReplyIfUnique /\ [Next]_vars => OwnReplyIfUnique'
    <2> SUFFICES ASSUME TypeInv, OwnReplyIfUnique, [Next]_vars, UniqueIds',
                        NEW x \in taken', ~reqs'[x[1]].wild
                 PROVE  x[1] = x[2]
      BY DEF OwnReplyIfUnique, OwnReply
    <2>1. UniqueIds
      BY RequestsStay DEF UniqueIds
    <2>2. CASE x \in taken
      <3>1. x[1] \in 1..issued
        BY <2>2 DEF TypeInv, TypeOK
      <3> QED
        BY <2>1, <2>2, <3>1, RequestsStay DEF OwnReplyIfUnique, OwnReply
    <2>3. CASE x \notin taken
      BY <2>1, <2>3, GivenMatches DEF UniqueIds
    <2> QED
      BY <2>2, <2>3
  <1>3. TypeInv /\ [Next]_vars => TypeInv'
    BY TypeNext
  <1> QED
    BY <1>1, <1>2, <1>3, TypeInit, PTL DEF Spec

-----------------------------------------------------------------------------
(* Ids are distinct until an increment is lost *)

\* While no increment is lost every id given is below the next one, so the next
\* request is numbered apart from all before it.
Apart ==
  ~raced => /\ \A n \in 1..issued : reqs[n].id < snac_seq_number
            /\ UniqueIds

\* Every step keeps this: a store that meets the number it was computed from
\* makes that number the id of the new request; no other step of a thread, of
\* the reader or of the connection numbers a request or changes the next number.
LEMMA ApartNext ==
  ASSUME TypeInv, Apart, [Next]_vars
  PROVE  Apart'
  <1>1. ASSUME NEW t \in Threads, NEW k \in Kinds,
               NEW s \in {"posted", "sent", "waiting", "failed"}, SendSNAC(t, k, s), ~raced'
        PROVE  Apart'
    <2>1. /\ issued \in Nat /\ issued + 1 \in 1..MaxReq /\ issued' = issued + 1
          /\ snac_seq_number \in Nat /\ snac_seq_number' = snac_seq_number + 1
          /\ reqs' = [reqs EXCEPT ![issued + 1] = [kind |-> k, id |-> snac_seq_number, wild |-> s = "waiting"]]
      <3>1. loaded[t] = snac_seq_number
        BY <1>1 DEF SendSNAC
      <3>2. issued \in Nat /\ issued + 1 \in 1..MaxReq
        BY <1>1, SnacExchangeAssumption DEF SendSNAC, TypeInv, TypeOK
      <3> QED
        BY <1>1, <3>1, <3>2 DEF SendSNAC, TypeInv, TypeOK
    <2>2. reqs'[issued + 1].id = snac_seq_number
      BY <2>1 DEF TypeInv, TypeOK
    <2>3. \A n \in 1..issued : reqs'[n] = reqs[n] /\ reqs[n].id \in Nat
      <3>1. \A n \in 1..issued : n \in 1..MaxReq /\ n # issued + 1
        BY <2>1, SnacExchangeAssumption
      <3>2. reqs \in [1..MaxReq -> Request]
        BY DEF TypeInv, TypeOK
      <3>3. \A n \in 1..issued : reqs'[n] = reqs[n] /\ reqs[n] \in Request
        BY <2>1, <3>1, <3>2
      <3> QED
        BY <3>3 DEF Request
    <2>4. \A n \in 1..issued' : n \in 1..issued \/ n = issued + 1
      BY <2>1
    <2>5. ~raced
      BY <1>1 DEF SendSNAC
    <2>6. (\A n \in 1..issued : reqs[n].id < snac_seq_number) /\ UniqueIds
      BY <2>5 DEF Apart
    <2>7. \A n \in 1..issued' : reqs'[n].id < snac_seq_number'
      BY <2>1, <2>2, <2>3, <2>4, <2>6
    <2>8. UniqueIds'
      BY <2>2, <2>3, <2>4, <2>6 DEF UniqueIds
    <2> QED
      BY <2>7, <2>8 DEF Apart
  <1>2. ASSUME UNCHANGED <<numbering, issued, reqs>> PROVE Apart'
    BY <1>2 DEF Apart, UniqueIds, numbering
  <1>3. ASSUME NEW t \in Threads, LoadSeq(t) PROVE Apart'
    BY <1>2, <1>3 DEF LoadSeq, asked
  <1>4. ASSUME NEW t \in Threads, Wait(t) PROVE Apart'
    BY <1>2, <1>4 DEF Wait, Collect, StartWait, Lookup, Poll, GiveUp, Take, asked
  <1>5. ASSUME \/ \E n \in 1..issued, more \in BOOLEAN : ReadSNAC(n, more)
               \/ Connect \/ LoginDone \/ (\E break \in BOOLEAN : Disconnect(break)) \/ Tick
               \/ UNCHANGED vars
        PROVE  Apart'
    BY <1>2, <1>5 DEF ReadSNAC, Connect, LoginDone, Disconnect, Tick, vars, asked
  <1>6. CASE raced'
    BY <1>6 DEF Apart
  <1> QED
    BY <1>1, <1>3, <1>4, <1>5, <1>6 DEF Next, Send

\* Whatever the number of threads, requests and connections: a caller that asks
\* with its req_id is given only the reply to its own request as long as no
\* increment of snac_seq_number has been stored over another one.
THEOREM OwnReplyTheorem == Spec => []OwnReplyUnlessRaced
  <1>1. Init => Apart
    BY DEF Init, Apart, UniqueIds
  <1>2. TypeInv /\ Apart /\ [Next]_vars => Apart'
    BY ApartNext
  <1>3. TypeInv /\ [Next]_vars => TypeInv'
    BY TypeNext
  <1>4. Apart /\ OwnReplyIfUnique => OwnReplyUnlessRaced
    BY DEF Apart, OwnReplyIfUnique, OwnReplyUnlessRaced
  <1> QED
    BY <1>1, <1>2, <1>3, <1>4, TypeInit, OwnIfUnique, PTL DEF Spec

\* What a thread that is alone has loaded is still there when it stores.
Alone ==
  /\ ~raced
  /\ \A t \in Threads : pc[t] = "numbered" => loaded[t] = snac_seq_number

\* A step of the only thread there is loses no increment.
LEMMA AloneNext ==
  ASSUME \A t, u \in Threads : t = u, TypeInv, Alone, [Next]_vars
  PROVE  Alone'
  <1>1. ASSUME NEW t \in Threads, NEW k \in Kinds,
               NEW s \in {"posted", "sent", "waiting", "failed"}, SendSNAC(t, k, s)
        PROVE  Alone'
    <2>1. ~raced'
      BY <1>1 DEF SendSNAC, Alone
    <2>2. \A u \in Threads : pc'[u] # "numbered"
      BY <1>1 DEF SendSNAC, TypeInv, TypeOK
    <2> QED
      BY <2>1, <2>2 DEF Alone
  <1>2. ASSUME NEW t \in Threads, LoadSeq(t) PROVE Alone'
    BY <1>2 DEF LoadSeq, Alone, numbering, TypeInv, TypeOK
  <1>3. ASSUME UNCHANGED <<numbering, loaded>>,
               \A u \in Threads : pc'[u] = "numbered" => pc[u] = "numbered"
        PROVE  Alone'
    BY <1>3 DEF Alone, numbering
  <1>4. ASSUME NEW t \in Threads, Wait(t) PROVE Alone'
    <2>1. UNCHANGED <<numbering, loaded>>
      BY <1>4 DEF Wait, Collect, StartWait, Lookup, Poll, GiveUp, Take
    <2>2. \A u \in Threads : pc'[u] = "numbered" => pc[u] = "numbered"
      <3>1. \E p \in {"idle", "start", "lookup", "poll"} : pc' = [pc EXCEPT ![t] = p]
        BY <1>4 DEF Wait, Collect, StartWait, Lookup, Poll, GiveUp, Take
      <3> QED
        BY <3>1 DEF TypeInv, TypeOK
    <2> QED
      BY <1>3, <2>1, <2>2
  <1>5. ASSUME \/ \E n \in 1..issued, more \in BOOLEAN : ReadSNAC(n, more)
               \/ Connect \/ LoginDone \/ (\E break \in BOOLEAN : Disconnect(break)) \/ Tick
               \/ UNCHANGED vars
        PROVE  Alone'
    BY <1>3, <1>5 DEF ReadSNAC, Connect, LoginDone, Disconnect, Tick, vars, thread
  <1> QED
    BY <1>1, <1>2, <1>4, <1>5 DEF Next, Send

\* While one thread sends, no increment is lost, and no caller that asks with its
\* req_id is ever given the reply to another request, over any number of
\* connections.
THEOREM OneSenderOwnReply ==
  ASSUME \A t, u \in Threads : t = u
  PROVE  Spec => []OwnReply
  <1>1. Init => Alone
    BY DEF Init, Alone
  <1>2. TypeInv /\ Alone /\ [Next]_vars => Alone'
    BY AloneNext
  <1>3. TypeInv /\ [Next]_vars => TypeInv'
    BY TypeNext
  <1>4. Alone /\ OwnReplyUnlessRaced => OwnReply
    BY DEF Alone, OwnReplyUnlessRaced
  <1> QED
    BY <1>1, <1>2, <1>3, <1>4, TypeInit, OwnReplyTheorem, PTL DEF Spec

-----------------------------------------------------------------------------
(* The exchange implements RequestReply *)

\* Every request has at most one owner, which has not collected its reply yet.
Owners ==
  /\ \A t \in Threads : \A n \in owed[t] : status[n] = "sent"
  /\ \A t \in Threads : cur[t] # 0 => status[cur[t]] = "waiting"
  /\ \A t, u \in Threads : t # u => owed[t] \cap owed[u] = {}
  /\ \A t, u \in Threads : t # u /\ cur[t] = cur[u] => cur[t] = 0

\* The req_ids and the parts stay in the ranges the abstract specification allows.
Ranges ==
  /\ snac_seq_number \in 1..(issued + 1)
  /\ \A t \in Threads : pc[t] = "numbered" => loaded[t] \in 1..(issued + 1)
  /\ \A n \in 1..MaxReq : /\ sent[n] <= MaxParts
                          /\ n \in open => sent[n] < MaxParts
                          /\ n > issued => sent[n] = 0

\* A request taken on, given up or finished keeps one owner.
LEMMA OwnersNext == TypeInv /\ Owners /\ [Next]_vars => Owners'
  <1> SUFFICES ASSUME TypeInv, Owners, [Next]_vars PROVE Owners'
    OBVIOUS
  <1>1. ASSUME UNCHANGED <<status, owed, cur>> PROVE Owners'
    BY <1>1 DEF Owners
  <1>2. ASSUME NEW t \in Threads, cur[t] # 0, UNCHANGED owed,
               \E s \in {"waiting", "done", "failed"} :
                 /\ status' = [status EXCEPT ![cur[t]] = s]
                 /\ cur' = [cur EXCEPT ![t] = IF s = "waiting" THEN cur[t] ELSE 0]
        PROVE  Owners'
    <2>1. cur[t] \in 1..MaxReq /\ 1..issued \subseteq 1..MaxReq
      BY <1>2, SnacExchangeAssumption DEF TypeInv, TypeOK
    <2>2. \A u \in Threads : u # t => cur'[u] = cur[u] /\ cur[u] # cur[t]
      BY <1>2 DEF TypeInv, TypeOK, Owners
    <2>3. \A u \in Threads : cur[t] \notin owed[u]
      BY <1>2 DEF Owners
    <2>4. \A n \in 1..MaxReq : n # cur[t] => status'[n] = status[n]
      BY <1>2, <2>1 DEF TypeInv, TypeOK
    <2>5. cur'[t] # 0 => cur'[t] = cur[t] /\ status'[cur[t]] = "waiting"
      BY <1>2, <2>1 DEF TypeInv, TypeOK
    <2>6. \A u \in Threads : \A n \in owed'[u] : status'[n] = "sent"
      BY <1>2, <2>1, <2>3, <2>4 DEF Owners, TypeInv, TypeOK
    <2>7. \A u \in Threads : cur'[u] # 0 => status'[cur'[u]] = "waiting"
      <3>1. ASSUME NEW u \in Threads, u # t, cur'[u] # 0 PROVE status'[cur'[u]] = "waiting"
        <4>1. cur'[u] = cur[u] /\ cur[u] # cur[t] /\ cur[u] # 0 /\ cur[u] \in 0..issued
          BY <2>2, <3>1 DEF TypeInv, TypeOK
        <4>2. cur[u] \in 1..MaxReq
          BY <4>1, SnacExchangeAssumption DEF TypeInv, TypeOK
        <4> QED
          BY <2>4, <4>1, <4>2 DEF Owners
      <3> QED
        BY <2>5, <3>1
    <2>8. \A u, v \in Threads : u # v /\ cur'[u] = cur'[v] => cur'[u] = 0
      BY <2>2, <2>5 DEF Owners
    <2> QED
      BY <1>2, <2>6, <2>7, <2>8 DEF Owners
  <1>3. ASSUME NEW t \in Threads, NEW k \in Kinds,
               NEW s \in {"posted", "sent", "waiting", "failed"}, SendSNAC(t, k, s)
        PROVE  Owners'
    <2> DEFINE n == issued + 1
    <2>1. n \in 1..MaxReq /\ 1..issued \subseteq 1..MaxReq /\ n \notin 1..issued /\ n # 0
      BY <1>3, SnacExchangeAssumption DEF SendSNAC, TypeInv, TypeOK
    <2>2. PICK goes \in BOOLEAN :
            /\ status' = [status EXCEPT ![n] = IF goes THEN s ELSE "failed"]
            /\ cur' = [cur EXCEPT ![t] = IF goes /\ s = "waiting" THEN n ELSE 0]
            /\ owed' = [owed EXCEPT ![t] = IF goes /\ s = "sent" THEN @ \cup {n} ELSE @]
      BY <1>3 DEF SendSNAC
    <2>3. \A m \in 1..issued : status'[m] = status[m]
      BY <2>1, <2>2 DEF TypeInv, TypeOK
    <2>4. status'[n] = IF goes THEN s ELSE "failed"
      BY <2>1, <2>2 DEF TypeInv, TypeOK
    <2>5. \A u \in Threads : u # t => cur'[u] = cur[u] /\ owed'[u] = owed[u]
      BY <2>2 DEF TypeInv, TypeOK
    <2>6. /\ cur'[t] = IF goes /\ s = "waiting" THEN n ELSE 0
          /\ owed'[t] = IF goes /\ s = "sent" THEN owed[t] \cup {n} ELSE owed[t]
      BY <2>2 DEF TypeInv, TypeOK
    <2>7. \A u \in Threads : cur[u] \in 0..issued /\ owed[u] \subseteq 1..issued /\ cur[u] # n
      BY <2>1 DEF TypeInv, TypeOK
    <2> HIDE DEF n
    <2>8. \A u \in Threads : \A m \in owed'[u] : status'[m] = "sent"
      BY <2>3, <2>4, <2>5, <2>6, <2>7 DEF Owners
    <2>9. \A u \in Threads : cur'[u] # 0 => status'[cur'[u]] = "waiting"
      <3>1. cur'[t] # 0 => status'[cur'[t]] = "waiting"
        BY <2>4, <2>6
      <3>2. ASSUME NEW u \in Threads, u # t, cur'[u] # 0 PROVE status'[cur'[u]] = "waiting"
        <4>1. cur'[u] = cur[u] /\ cur[u] \in 1..issued
          BY <2>5, <2>7, <3>2
        <4> QED
          BY <2>3, <3>2, <4>1 DEF Owners
      <3> QED
        BY <3>1, <3>2
    <2>10. \A u, v \in Threads : u # v => owed'[u] \cap owed'[v] = {}
      BY <2>1, <2>5, <2>6, <2>7 DEF Owners
    <2>11. \A u, v \in Threads : u # v /\ cur'[u] = cur'[v] => cur'[u] = 0
      BY <2>5, <2>6, <2>7 DEF Owners
    <2> QED
      BY <2>8, <2>9, <2>10, <2>11 DEF Owners
  <1>4. ASSUME NEW t \in Threads, NEW n \in 1..issued, Collect(t, n) PROVE Owners'
    <2>1. /\ n \in owed[t] /\ n \in 1..MaxReq /\ 1..issued \subseteq 1..MaxReq /\ n # 0
          /\ status[n] = "sent"
      BY <1>4, SnacExchangeAssumption DEF Collect, Owners, TypeInv, TypeOK
    <2>2. /\ cur' = [cur EXCEPT ![t] = n] /\ cur \in [Threads -> 0..issued]
          /\ owed' = [owed EXCEPT ![t] = @ \ {n}] /\ owed \in [Threads -> SUBSET (1..issued)]
          /\ status' = [status EXCEPT ![n] = "waiting"] /\ status \in [1..MaxReq -> Status]
      BY <1>4 DEF Collect, TypeInv, TypeOK
    <2>3. \A u \in Threads : cur[u] # n /\ (u # t => n \notin owed[u])
      BY <2>1 DEF Owners
    <2>4. ASSUME NEW u \in Threads, NEW m \in owed'[u] PROVE status'[m] = "sent"
      <3>1. m \in owed[u] /\ m # n /\ m \in 1..MaxReq
        BY <2>1, <2>2, <2>3
      <3> QED
        BY <2>2, <3>1 DEF Owners
    <2>5. ASSUME NEW u \in Threads, cur'[u] # 0 PROVE status'[cur'[u]] = "waiting"
      <3>1. CASE u = t
        BY <2>1, <2>2, <3>1
      <3>2. CASE u # t
        <4>1. cur'[u] = cur[u] /\ cur[u] \in 0..issued /\ cur[u] # 0 /\ cur[u] # n
          BY <2>2, <2>3, <2>5, <3>2
        <4>2. cur[u] \in 1..MaxReq
          BY <4>1, SnacExchangeAssumption DEF TypeInv, TypeOK
        <4>3. status'[cur[u]] = status[cur[u]]
          BY <2>2, <4>1, <4>2
        <4> QED
          BY <4>1, <4>3 DEF Owners
      <3> QED
        BY <3>1, <3>2
    <2>6. ASSUME NEW u \in Threads, NEW v \in Threads, u # v
          PROVE  owed'[u] \cap owed'[v] = {}
      <3>1. owed'[u] \subseteq owed[u] /\ owed'[v] \subseteq owed[v]
        BY <2>2
      <3> QED
        BY <2>6, <3>1 DEF Owners
    <2>7. ASSUME NEW u \in Threads, NEW v \in Threads, u # v, cur'[u] = cur'[v]
          PROVE  cur'[u] = 0
      <3>1. u # t /\ v # t
        BY <2>1, <2>2, <2>3, <2>7
      <3> QED
        BY <2>2, <2>7, <3>1 DEF Owners
    <2> QED
      BY <2>4, <2>5, <2>6, <2>7 DEF Owners
  <1>5. ASSUME NEW t \in Threads, NEW e, cur[t] # 0, Take(t, e) PROVE Owners'
    BY <1>2, <1>5 DEF Take
  <1>6. ASSUME NEW t \in Threads, Wait(t) PROVE Owners'
    <2>1. CASE StartWait(t)
      BY <1>1, <2>1 DEF StartWait, asked
    <2>2. CASE Lookup(t)
      BY <1>1, <1>5, <2>2 DEF Lookup, asked, TypeInv, Collecting
    <2>3. CASE Poll(t)
      BY <1>5, <2>3 DEF Poll, TypeInv, Collecting
    <2>4. CASE GiveUp(t)
      BY <1>2, <2>4 DEF GiveUp, TypeInv, Collecting
    <2> QED
      BY <1>4, <1>6, <2>1, <2>2, <2>3, <2>4 DEF Wait
  <1>7. ASSUME NEW t \in Threads, LoadSeq(t) PROVE Owners'
    BY <1>1, <1>7 DEF LoadSeq, asked
  <1>8. ASSUME \/ \E n \in 1..issued, more \in BOOLEAN : ReadSNAC(n, more)
               \/ Connect \/ LoginDone \/ (\E break \in BOOLEAN : Disconnect(break)) \/ Tick
               \/ UNCHANGED vars
        PROVE  Owners'
    BY <1>1, <1>8 DEF ReadSNAC, Connect, LoginDone, Disconnect, Tick, vars, asked, thread
  <1> QED
    BY <1>3, <1>6, <1>7, <1>8 DEF Next, Send

\* The ids and the parts stay in their ranges.
LEMMA RangesNext == TypeInv /\ Ranges /\ [Next]_vars => Ranges'
  <1> SUFFICES ASSUME TypeInv, Ranges, [Next]_vars PROVE Ranges'
    OBVIOUS
  <1>0. issued \in Nat /\ MaxReq \in Nat /\ MaxParts \in Nat /\ MaxParts > 0
    BY SnacExchangeAssumption DEF TypeInv, TypeOK
  <1>1. ASSUME NEW t \in Threads, LoadSeq(t) PROVE Ranges'
    BY <1>1 DEF numbering, LoadSeq, Ranges, asked, server, TypeInv, TypeOK
  <1>2. ASSUME NEW t \in Threads, NEW k \in Kinds,
               NEW s \in {"posted", "sent", "waiting", "failed"}, SendSNAC(t, k, s)
        PROVE  Ranges'
    <2>1. loaded[t] \in 1..(issued + 1) /\ issued' = issued + 1
      BY <1>2 DEF SendSNAC, Ranges
    <2>2. snac_seq_number' \in 1..(issued' + 1)
      BY <1>0, <1>2, <2>1 DEF SendSNAC
    <2>3. \A u \in Threads : pc'[u] = "numbered" => loaded'[u] \in 1..(issued' + 1)
      <3>1. ASSUME NEW u \in Threads, pc'[u] = "numbered" PROVE loaded'[u] \in 1..(issued' + 1)
        <4>1. u # t /\ pc[u] = "numbered" /\ loaded'[u] = loaded[u]
          BY <1>2, <3>1 DEF SendSNAC, TypeInv, TypeOK
        <4>2. loaded[u] \in 1..(issued + 1)
          BY <4>1 DEF Ranges
        <4> QED
          BY <1>0, <2>1, <4>1, <4>2
      <3> QED
        BY <3>1
    <2>4. sent' = sent /\ open' \subseteq open \cup {issued + 1}
      BY <1>2 DEF SendSNAC
    <2>5. \A n \in 1..MaxReq : /\ sent'[n] <= MaxParts
                               /\ n \in open' => sent'[n] < MaxParts
                               /\ n > issued' => sent'[n] = 0
      <3>1. ASSUME NEW n \in 1..MaxReq
            PROVE  sent[n] <= MaxParts /\ (n \in open \cup {issued + 1} => sent[n] < MaxParts)
        <4>1. CASE n > issued
          BY <1>0, <4>1 DEF Ranges
        <4>2. CASE n <= issued
          BY <1>0, <4>2 DEF Ranges
        <4> QED
          BY <1>0, <4>1, <4>2
      <3>2. ASSUME NEW n \in 1..MaxReq, n > issued + 1 PROVE sent[n] = 0
        BY <1>0, <3>2 DEF Ranges
      <3> QED
        BY <2>1, <2>4, <3>1, <3>2
    <2> QED
      BY <2>2, <2>3, <2>5 DEF Ranges
  <1>3. ASSUME UNCHANGED <<snac_seq_number, issued, loaded, sent>>, open' \subseteq open,
               \A u \in Threads : pc'[u] = "numbered" => pc[u] = "numbered"
        PROVE  Ranges'
    BY <1>3 DEF Ranges
  <1>4. ASSUME NEW t \in Threads, Wait(t) PROVE Ranges'
    <2>1. UNCHANGED <<snac_seq_number, issued, loaded, sent, open>>
      BY <1>4 DEF numbering, Wait, Collect, StartWait, Lookup, Poll, GiveUp, Take, asked, server
    <2>2. \A u \in Threads : pc'[u] = "numbered" => pc[u] = "numbered"
      <3>1. \E p \in {"idle", "start", "lookup", "poll"} : pc' = [pc EXCEPT ![t] = p]
        BY <1>4 DEF Wait, Collect, StartWait, Lookup, Poll, GiveUp, Take
      <3> QED
        BY <3>1 DEF TypeInv, TypeOK
    <2> QED
      BY <1>3, <2>1, <2>2
  <1>5. ASSUME NEW n \in 1..issued, NEW more \in BOOLEAN, ReadSNAC(n, more) PROVE Ranges'
    <2>1. /\ n \in open /\ sent' = [sent EXCEPT ![n] = @ + 1]
          /\ open' = IF more THEN open ELSE open \ {n}
          /\ more => sent[n] + 1 < MaxParts
          /\ UNCHANGED <<snac_seq_number, issued, loaded, pc>>
      BY <1>5 DEF numbering, ReadSNAC, asked, thread
    <2>2. n \in 1..MaxReq /\ ~(n > issued) /\ sent \in [1..MaxReq -> Nat]
      BY <1>0, SnacExchangeAssumption DEF TypeInv, TypeOK
    <2>3. sent[n] < MaxParts
      BY <2>1, <2>2 DEF Ranges
    <2>4. \A m \in 1..MaxReq : /\ sent'[m] <= MaxParts
                               /\ m \in open' => sent'[m] < MaxParts
                               /\ m > issued => sent'[m] = 0
      <3>1. ASSUME NEW m \in 1..MaxReq, m # n
            PROVE  /\ sent'[m] <= MaxParts
                   /\ m \in open' => sent'[m] < MaxParts
                   /\ m > issued => sent'[m] = 0
        BY <2>1, <2>2, <3>1 DEF Ranges
      <3>2. sent'[n] <= MaxParts /\ (n \in open' => sent'[n] < MaxParts)
        BY <1>0, <2>1, <2>2, <2>3
      <3> QED
        BY <2>2, <3>1, <3>2
    <2> QED
      BY <2>1, <2>4 DEF Ranges
  <1>6. ASSUME \/ Connect \/ LoginDone \/ (\E break \in BOOLEAN : Disconnect(break)) \/ Tick
               \/ UNCHANGED vars
        PROVE  Ranges'
    BY <1>3, <1>6 DEF numbering, Connect, LoginDone, Disconnect, Tick, vars, asked, server, thread
  <1> QED
    BY <1>1, <1>2, <1>4, <1>5, <1>6 DEF Next, Send

\* A part given to a request is a delivery of the abstract specification.
LEMMA TakeDelivers ==
  ASSUME TypeInv, CacheInv, Owners, Ranges, NEW t \in Threads, cur[t] # 0,
         NEW e \in Found(cur[t]), Take(t, e)
  PROVE  Promise!Next
  <1> DEFINE n == cur[t]
  <1>1. PICK s \in {"waiting", "done", "failed"} :
          /\ taken' = taken \cup {<<n, e.req, e.part>>}
          /\ status' = [status EXCEPT ![n] = s]
          /\ UNCHANGED <<issued, reqs>>
    BY DEF Take
  <1>2. e \in snac_cache /\ n \in 1..issued /\ e.req \in 1..issued
    BY DEF Found, TypeInv, TypeOK, Genuine
  <1>3. e.part \in 1..MaxParts
    <2>1. e.part \in 1..sent[e.req] /\ e.req \in 1..MaxReq
      BY <1>2, SnacExchangeAssumption DEF TypeInv, TypeOK, Genuine
    <2>2. sent[e.req] \in Nat /\ sent[e.req] <= MaxParts /\ MaxParts \in Nat
      BY <2>1, SnacExchangeAssumption DEF TypeInv, TypeOK, Ranges
    <2> QED
      BY <2>1, <2>2
  <1>4. status[n] = "waiting"
    BY DEF Owners
  <1>5. Promise!Addresses(n, e.req)
    BY <1>2 DEF Promise!Addresses, Found, Matches, TypeInv, Genuine
  <1>6. Promise!Newer(e.req, e.part)
    BY <1>2 DEF Promise!Newer, CacheInv, Handed
  <1>7. Promise!Deliver(n, e.req, e.part, s)
    BY <1>1, <1>4, <1>5, <1>6 DEF Promise!Deliver
  <1> QED
    BY <1>2, <1>3, <1>7 DEF Promise!Next

\* Every step is a step of the abstract specification or changes nothing it sees.
LEMMA PromiseNext ==
  ASSUME TypeInv, CacheInv, Owners, Ranges, [Next]_vars
  PROVE  [Promise!Next]_(Promise!vars)
  <1>1. ASSUME NEW t \in Threads, NEW k \in Kinds,
               NEW s \in {"posted", "sent", "waiting", "failed"}, SendSNAC(t, k, s)
        PROVE  Promise!Next
    <2>1. loaded[t] \in 1..MaxReq
      <3>1. loaded[t] \in 1..(issued + 1) /\ issued < MaxReq
        BY <1>1 DEF SendSNAC, Ranges
      <3>2. issued \in Nat /\ MaxReq \in Nat
        BY SnacExchangeAssumption DEF TypeInv, TypeOK
      <3> QED
        BY <3>1, <3>2
    <2>2. PICK r \in {"posted", "sent", "waiting", "failed"} :
            status' = [status EXCEPT ![issued + 1] = r]
      BY <1>1 DEF SendSNAC
    <2>3. Promise!Issue(k, loaded[t], s = "waiting", r)
      BY <1>1, <2>2 DEF SendSNAC, Promise!Issue
    <2> QED
      BY <2>1, <2>3 DEF Promise!Next
  <1>2. ASSUME NEW t \in Threads, NEW n \in 1..issued, Collect(t, n) PROVE Promise!Next
    BY <1>2 DEF Collect, Owners, Promise!Next, Promise!Wait
  <1>3. ASSUME NEW t \in Threads, GiveUp(t) PROVE Promise!Next
    <2>1. cur[t] \in 1..issued /\ status[cur[t]] = "waiting"
      BY <1>3 DEF GiveUp, Owners, TypeInv, TypeOK, Collecting
    <2>2. Promise!GiveUp(cur[t])
      BY <1>3, <2>1 DEF GiveUp, Promise!GiveUp
    <2> QED
      BY <2>1, <2>2 DEF Promise!Next
  <1>4. ASSUME NEW t \in Threads, Poll(t) PROVE Promise!Next
    BY <1>4, TakeDelivers DEF Poll, First, FoundFrom, TypeInv, Collecting
  <1>5. ASSUME NEW t \in Threads, Lookup(t)
        PROVE  Promise!Next \/ UNCHANGED <<issued, reqs, status, taken>>
    BY <1>5, TakeDelivers DEF Lookup, First, TypeInv, Collecting, asked
  <1>6. ASSUME NEW t \in Threads, LoadSeq(t) \/ StartWait(t)
        PROVE  UNCHANGED <<issued, reqs, status, taken>>
    BY <1>6 DEF LoadSeq, StartWait, asked
  <1>7. ASSUME \/ \E n \in 1..issued, more \in BOOLEAN : ReadSNAC(n, more)
               \/ Connect \/ LoginDone \/ (\E break \in BOOLEAN : Disconnect(break)) \/ Tick
               \/ UNCHANGED vars
        PROVE  UNCHANGED <<issued, reqs, status, taken>>
    BY <1>7 DEF ReadSNAC, Connect, LoginDone, Disconnect, Tick, vars, asked
  <1> QED
    BY <1>1, <1>2, <1>3, <1>4, <1>5, <1>6, <1>7 DEF Next, Send, Wait, Promise!vars

\* The exchange, with its cache, clock, threads and connections, implements the
\* promise: parts are handed out in order, at most once, to a waiting request
\* that addresses them.
THEOREM ImplementsPromise == Spec => PromiseSpec
  <1>1. Init => TypeInv /\ CacheInv /\ Owners /\ Ranges
    <2>1. Init => Owners
      BY DEF Init, Owners
    <2>2. Init => Ranges
      BY SnacExchangeAssumption DEF Init, Ranges
    <2> QED
      BY <2>1, <2>2, TypeInit, CacheInit
  <1>2. TypeInv /\ CacheInv /\ Owners /\ Ranges /\ [Next]_vars =>
          (TypeInv /\ CacheInv /\ Owners /\ Ranges)'
    BY TypeNext, CacheNext, OwnersNext, RangesNext
  <1>3. Init => Promise!Init
    BY DEF Init, Promise!Init
  <1>4. TypeInv /\ CacheInv /\ Owners /\ Ranges /\ [Next]_vars =>
          [Promise!Next]_(Promise!vars)
    BY PromiseNext
  <1> QED
    BY <1>1, <1>2, <1>3, <1>4, PTL DEF Spec, PromiseSpec, Promise!Spec
=============================================================================
