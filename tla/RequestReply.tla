---------------------------- MODULE RequestReply ----------------------------
(***************************************************************************)
(* What the SNAC layer of ICQKid2 promises to the code that calls it, with *)
(* no cache, no clock, no socket and no threads: a request is issued, some *)
(* parts of replies are handed to it while it waits, and it is closed      *)
(* once.  A part is handed out at most once, the parts of one reply are    *)
(* handed out in the order the server sent them, and only to a request     *)
(* that addresses them.                                                    *)
(***************************************************************************)
EXTENDS Naturals

CONSTANTS
  Kinds,       \* reply families: a (service_id, subtype_id) pair waitSNAC looks for
  WildKinds,   \* families a caller may wait for with req_id 0, which matches every id
  MaxReq,      \* bound: requests issued
  Ids,         \* the req_ids sendSNAC may draw
  Parts        \* the places a part may have in a reply

VARIABLES
  issued,      \* requests issued so far
  reqs,        \* reqs[n] is the n-th request issued, [kind, id, wild]
  status,      \* status[n]: "none" not issued yet, "posted" nobody will ask for
               \* its reply, "sent", "waiting" its caller will or does, "done",
               \* "failed" its caller has returned
  taken        \* <<n, r, p>>: request n was given part p of the reply to r

vars == <<issued, reqs, status, taken>>

\* A reply to request r satisfies the filter request n waits with.
Addresses(n, r) ==
  /\ reqs[r].kind = reqs[n].kind
  /\ reqs[n].wild \/ reqs[r].id = reqs[n].id

\* Part p of the reply to r is later than every part of it handed out so far.
Newer(r, p) == \A x \in taken : x[2] = r => x[3] < p

Init ==
  /\ issued = 0
  /\ reqs = [n \in 1..MaxReq |-> [kind |-> CHOOSE k \in Kinds : TRUE, id |-> 0, wild |-> FALSE]]
  /\ status = [n \in 1..MaxReq |-> "none"]
  /\ taken = {}

Issue(k, i, w, s) ==
  /\ issued < MaxReq
  /\ w => k \in WildKinds
  /\ issued' = issued + 1
  /\ reqs' = [reqs EXCEPT ![issued + 1] = [kind |-> k, id |-> i, wild |-> w]]
  /\ status' = [status EXCEPT ![issued + 1] = s]
  /\ UNCHANGED taken

Wait(n) ==
  /\ status[n] = "sent"
  /\ status' = [status EXCEPT ![n] = "waiting"]
  /\ UNCHANGED <<issued, reqs, taken>>

\* A part reaches request n, which then closes or waits for the next part.
Deliver(n, r, p, s) ==
  /\ status[n] = "waiting"
  /\ Addresses(n, r)
  /\ Newer(r, p)
  /\ taken' = taken \cup {<<n, r, p>>}
  /\ status' = [status EXCEPT ![n] = s]
  /\ UNCHANGED <<issued, reqs>>

GiveUp(n) ==
  /\ status[n] = "waiting"
  /\ status' = [status EXCEPT ![n] = "failed"]
  /\ UNCHANGED <<issued, reqs, taken>>

Next ==
  \/ \E k \in Kinds, i \in Ids, w \in BOOLEAN, s \in {"posted", "sent", "waiting", "failed"} :
       Issue(k, i, w, s)
  \/ \E n \in 1..issued : Wait(n) \/ GiveUp(n)
  \/ \E n, r \in 1..issued, p \in Parts, s \in {"waiting", "done", "failed"} :
       Deliver(n, r, p, s)

Spec == Init /\ [][Next]_vars
=============================================================================
