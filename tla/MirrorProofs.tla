---------------------------- MODULE MirrorProofs ----------------------------
(***************************************************************************)
(* That the list of an account stays that of the server, for any number of *)
(* contacts, edits, and changes of other clients: the theorems about       *)
(* ContactList beside its types.                                           *)
(*                                                                         *)
(* What is under way to the client is read as a sequence of words, each of *)
(* which says what there is under one id from then on.  The list with all  *)
(* the words applied to it is the server's (Sync), and no state on the way *)
(* there has two entries of a contact or an entry without its group (Good).*)
(***************************************************************************)
EXTENDS ContactListProofs

-----------------------------------------------------------------------------
(* Words *)

NoWord == [key |-> 0, puts |-> {}]

\* Whether x, of key k, is there after n of the words w, if has tells whether it
\* was there before them.
After(w, has, n, k, x) ==
  \/ has /\ \A j \in 1 .. n : w[j].key # k
  \/ \E j \in 1 .. n : /\ w[j].key = k /\ x \in w[j].puts
                       /\ \A i \in j + 1 .. n : w[i].key # k

\* What the request of the edit in progress does to the server's list if it is
\* granted, and what the edit will do to the local one.
OwnB ==
  IF At("add") THEN [key |-> uen.item, puts |-> {uen}]
  ELSE IF At("remove") \/ At("each") THEN [key |-> ContactListUins[uen_ind].item, puts |-> {}]
  ELSE NoWord

OwnG ==
  IF "push" \in ToSet(plan) THEN [key |-> gen.id, puts |-> {gen}]
  ELSE IF "erase" \in ToSet(plan) THEN [key |-> gen.id, puts |-> {}]
  ELSE NoWord

AtGroup == At("addgroup") \/ At("delgroup")
AckG == IF AtGroup THEN OwnG ELSE NoWord

\* What a message says of a contact, and of a group.
WordB(m, own) ==
  IF m.type = "buddy" THEN [key |-> m.buddy.item, puts |-> {m.buddy}]
  ELSE IF m.type = "nobuddy" THEN [key |-> m.buddy.item, puts |-> {}]
  ELSE IF m.type = "ack" /\ m.answer = "ok" THEN own
  ELSE NoWord

WordG(m, own) ==
  IF m.type = "group" THEN [key |-> m.group.id, puts |-> {m.group}]
  ELSE IF m.type = "nogroup" THEN [key |-> m.group.id, puts |-> {}]
  ELSE IF m.type = "ack" /\ m.answer = "ok" THEN own
  ELSE NoWord

WB == [i \in DOMAIN inbox |-> WordB(inbox[i], OwnB)]
WG == [i \in DOMAIN inbox |-> WordG(inbox[i], AckG)]

\* The request was granted, and the local list does not show it yet.
DoneB == waiting /\ got = "ok"
DoneG == (AtGroup /\ waiting /\ got = "ok") \/ ToSet(plan) \cap {"addgroup", "delgroup"} = {}

HasB(b) == IF DoneB /\ OwnB.key = b.item THEN b \in OwnB.puts ELSE b \in ToSet(ContactListUins)
HasG(g) == IF DoneG /\ OwnG.key = g.id THEN g \in OwnG.puts ELSE g \in ToSet(ContactListGroups)

AfterB(n, b) == After(WB, HasB(b), n, b.item, b)
AfterG(n, g) == After(WG, HasG(g), n, g.id, g)

-----------------------------------------------------------------------------
(* The invariant *)

\* No two entries have one item id or one contact, no two groups one id, and each
\* entry has its group.
Keyed ==
  /\ \A b, c \in srv_buddies : b.item = c.item \/ b.uin = c.uin => b = c
  /\ \A g, h \in srv_groups : g.id = h.id => g = h
  /\ \A b \in srv_buddies : \E g \in srv_groups : g.id = b.group

\* An ack is under way only while it is waited for, and there is one at most.
AckOne ==
  \A i \in DOMAIN inbox : inbox[i].type = "ack" =>
    waiting /\ got = "none" /\ \A j \in DOMAIN inbox : inbox[j].type = "ack" => i = j

\* The steps that wait, and those of them whose request is never refused.
AckFor == waiting => \E step \in Steps \ {"start", "end", "push", "erase"} : At(step)
AckMaster ==
  At("master") /\ waiting =>
    got \in {"none", "ok"} /\ \A i \in DOMAIN inbox : inbox[i].type = "ack" => inbox[i].answer = "ok"

\* At the end of addGroup and removeGroup the last answer is "ok", that to the master list.
AckKept ==
  ToSet(plan) \cap {"push", "erase"} # {} /\ ToSet(plan) \cap {"addgroup", "delgroup", "master"} = {}
    => retflag = "ok"

Down == ~up => inbox = <<>> /\ ~trans
AckInv == AckOne /\ AckFor /\ AckMaster /\ AckKept /\ Down
NoAck == \A i \in DOMAIN inbox : inbox[i].type # "ack"

\* The edits that the calls of the menu make, and what is left of each after some steps.
Removal == <<"end", "start", "delgroup", "master", "end", "erase">>

Plans ==
  {<<>>, <<"start", "add">>, <<"add">>, <<"start", "remove">>, <<"remove">>,
   <<"content", "end">>, <<"end">>, <<"privacy">>,
   <<"start", "addgroup", "master", "end", "push">>, <<"addgroup", "master", "end", "push">>,
   <<"master", "end", "push">>, <<"end", "push">>, <<"push">>,
   <<"start", "end", "start", "delgroup", "master", "end", "erase">>, Removal,
   <<"start", "delgroup", "master", "end", "erase">>, <<"delgroup", "master", "end", "erase">>,
   <<"master", "end", "erase">>, <<"end", "erase">>, <<"erase">>}

\* removeGroup with n contacts still to be removed.
Emptying(p, s, n) ==
  /\ Len(p) = s + n + 7
  /\ s = 1 => p[1] = "start"
  /\ \A i \in s + 1 .. s + n : p[i] = "each"
  /\ p[s + n + 1] = "content"
  /\ \A i \in 1 .. 6 : p[s + n + 1 + i] = Removal[i]

Planned(p) == p \in Plans \/ \E s \in {0, 1}, n \in 0 .. Len(p) : Emptying(p, s, n)
PlanInv == Planned(plan)

OnceB == \A i, j \in DOMAIN ContactListUins : ContactListUins[i].item = ContactListUins[j].item => i = j
OnceG == \A i, j \in DOMAIN ContactListGroups : ContactListGroups[i].id = ContactListGroups[j].id => i = j

\* What an edit has looked up is still so.
JobB ==
  waiting =>
    /\ At("add") => \A e \in ToSet(ContactListUins) : e.item # uen.item
    /\ At("remove") \/ At("each") => uen_ind \in 1 .. Len(ContactListUins)

JobG ==
  /\ "push" \in ToSet(plan) => \A g \in ToSet(ContactListGroups) : g.id # gen.id
  /\ "erase" \in ToSet(plan) =>
       gr_ind \in 1 .. Len(ContactListGroups) /\ ContactListGroups[gr_ind].id = gen.id

Sync ==
  /\ \A b \in Buddies : b \in srv_buddies <=> AfterB(Len(inbox), b)
  /\ \A g \in Groups : g \in srv_groups <=> AfterG(Len(inbox), g)

GoodAt(n) ==
  /\ \A b \in Buddies : AfterB(n, b) => \E g \in Groups : g.id = b.group /\ AfterG(n, g)
  /\ \A b, c \in Buddies : AfterB(n, b) /\ AfterB(n, c) /\ b.uin = c.uin => b = c

Good == \A n \in 0 .. Len(inbox) : GoodAt(n)

MirrorInv == up /\ Undisturbed => OnceB /\ OnceG /\ JobB /\ JobG /\ Sync /\ Good

\* The ids that the list of unknown items has, and who can see the user.
KnownIds == up => OtherItems \subseteq unknown_item_ids

Granted == got = "ok" \/ \E i \in DOMAIN inbox : inbox[i].type = "ack" /\ inbox[i].answer = "ok"
OwnP == At("privacy") /\ waiting /\ Granted

PrivacyInv ==
  /\ srv_privacy.item = 0 =>
       ~OwnP /\ srv_privacy.stat = PRIV_ALL_CAN_SEE /\ privacy = srv_privacy
  /\ up /\ Undisturbed /\ "unread" \notin faults /\ (\A i \in DOMAIN inbox : inbox[i].type # "privacy")
       => srv_privacy = IF OwnP THEN wish ELSE privacy

\* An open transaction is one that the edit will end.
Clean == faults \cap {"timeout", "vanished", "masked", "overtaken"} = {}
WillEnd    == trans => ToSet(plan) \cap {"end", "add", "remove"} # {}
GroupThere == \E g \in ToSet(ContactListGroups) : g.id = gen.id
WillFind   == "content" \in ToSet(plan) \/ (At("remove") /\ waiting) => GroupThere
TransInv   == up /\ Clean => WillEnd /\ WillFind

\* The group whose 0xc8 list is behind, because an edit has still to send it.
Behind(d) ==
  \/ At("add") /\ waiting /\ Granted /\ d = uen.group
  \/ At("remove") /\ waiting /\ d = gen.id
  \/ "content" \in ToSet(plan) /\ ~(At("content") /\ waiting) /\ d = gen.id

\* The group has been there since the ack.
Kept(d) ==
  \A n \in 0 .. Len(inbox) :
    (\A i \in n + 1 .. Len(inbox) : inbox[i].type # "ack") => \E g \in Groups : g.id = d /\ AfterG(n, g)

Tidy == faults \cap {"timeout", "overtaken", "crossed", "cut", "masked", "moved"} = {}

MembersTrue(d) == srv_members[d] = Members(srv_buddies, d)
Right(d) == MembersTrue(d) \/ (Behind(d) /\ Kept(d))
There(d) == \E g \in srv_groups : g.id = d

MembersInv == Tidy => (~up => plan = <<>>) /\ \A d \in GroupIds : There(d) => Right(d)

-----------------------------------------------------------------------------
(* Applying words *)

LEMMA AfterNone ==
  ASSUME NEW w, NEW has \in BOOLEAN, NEW k, NEW x
  PROVE  After(w, has, 0, k, x) <=> has
  BY DEF After

\* The last word about a key decides.
LEMMA AfterMore ==
  ASSUME NEW w, NEW has \in BOOLEAN, NEW k, NEW x, NEW n \in Nat
  PROVE  After(w, has, n + 1, k, x) <=>
           IF w[n + 1].key = k THEN x \in w[n + 1].puts ELSE After(w, has, n, k, x)
  <1>1. \A j \in 1 .. n + 1 : j \in 1 .. n \/ j = n + 1
    OBVIOUS
  <1>2. \A j \in 1 .. n : j \in 1 .. n + 1
    OBVIOUS
  <1>3. n + 1 \in 1 .. n + 1 /\ (n + 1) + 1 .. n + 1 = {}
    OBVIOUS
  <1>4. ASSUME NEW j \in 1 .. n
        PROVE  /\ n + 1 \in j + 1 .. n + 1
               /\ \A i : i \in j + 1 .. n + 1 <=> i \in j + 1 .. n \/ i = n + 1
    OBVIOUS
  <1>5. CASE w[n + 1].key = k
    <2>1. ASSUME After(w, has, n + 1, k, x) PROVE x \in w[n + 1].puts
      <3>1. PICK j \in 1 .. n + 1 : /\ w[j].key = k /\ x \in w[j].puts
                                    /\ \A i \in j + 1 .. n + 1 : w[i].key # k
        BY <1>3, <1>5, <2>1 DEF After
      <3>2. j \notin 1 .. n
        BY <1>4, <1>5, <3>1
      <3> QED
        BY <1>1, <3>1, <3>2
    <2>2. ASSUME x \in w[n + 1].puts PROVE After(w, has, n + 1, k, x)
      BY <1>3, <1>5, <2>2 DEF After
    <2> QED
      BY <1>5, <2>1, <2>2
  <1>6. CASE w[n + 1].key # k
    <2>1. (\A j \in 1 .. n + 1 : w[j].key # k) <=> (\A j \in 1 .. n : w[j].key # k)
      BY <1>1, <1>2, <1>6
    <2>2. ASSUME NEW j \in 1 .. n
          PROVE  (\A i \in j + 1 .. n + 1 : w[i].key # k) <=> (\A i \in j + 1 .. n : w[i].key # k)
      BY <1>4, <1>6
    <2>3. (\E j \in 1 .. n + 1 : /\ w[j].key = k /\ x \in w[j].puts
                                 /\ \A i \in j + 1 .. n + 1 : w[i].key # k)
          <=> (\E j \in 1 .. n : /\ w[j].key = k /\ x \in w[j].puts
                                 /\ \A i \in j + 1 .. n : w[i].key # k)
      BY <1>1, <1>2, <1>6, <2>2
    <2> QED
      BY <1>6, <2>1, <2>3 DEF After
  <1> QED
    BY <1>5, <1>6

\* Only what the words say of the key matters.
LEMMA AfterSame ==
  ASSUME NEW w, NEW v, NEW has \in BOOLEAN, NEW k, NEW x, NEW n \in Nat,
         \A j \in 1 .. n : /\ w[j].key = k <=> v[j].key = k
                           /\ w[j].key = k => (x \in w[j].puts <=> x \in v[j].puts)
  PROVE  After(w, has, n, k, x) <=> After(v, has, n, k, x)
  <1>1. ASSUME NEW j \in 1 .. n, NEW i \in j + 1 .. n PROVE i \in 1 .. n
    OBVIOUS
  <1>2. (\A j \in 1 .. n : w[j].key # k) <=> (\A j \in 1 .. n : v[j].key # k)
    OBVIOUS
  <1>3. ASSUME NEW j \in 1 .. n
        PROVE  (/\ w[j].key = k /\ x \in w[j].puts
                /\ \A i \in j + 1 .. n : w[i].key # k)
           <=> (/\ v[j].key = k /\ x \in v[j].puts
                /\ \A i \in j + 1 .. n : v[i].key # k)
    BY <1>1
  <1> QED
    BY <1>2, <1>3 DEF After

\* The first word is applied.
LEMMA AfterRead ==
  ASSUME NEW w, NEW v, NEW has \in BOOLEAN, NEW k, NEW x, NEW n \in Nat,
         \A j \in 1 .. n : v[j] = w[j + 1],
         NEW new \in BOOLEAN, new <=> IF w[1].key = k THEN x \in w[1].puts ELSE has
  PROVE  After(w, has, n + 1, k, x) <=> After(v, new, n, k, x)
  <1> DEFINE S == {m \in Nat : m <= n => (After(w, has, m + 1, k, x) <=> After(v, new, m, k, x))}
  <1>1. 0 \in S
    <2>1. After(w, has, 0 + 1, k, x) <=> IF w[0 + 1].key = k THEN x \in w[0 + 1].puts ELSE After(w, has, 0, k, x)
      <3>1. 0 \in Nat
        OBVIOUS
      <3> QED
        BY <3>1, AfterMore, Zenon
    <2>2. After(w, has, 0, k, x) <=> has
      BY AfterNone
    <2>3. After(w, has, 0 + 1, k, x) <=> new
      BY <2>1, <2>2
    <2>4. After(v, new, 0, k, x) <=> new
      BY AfterNone
    <2> QED
      BY <2>3, <2>4
  <1>2. ASSUME NEW m \in Nat, m \in S PROVE m + 1 \in S
    <2> SUFFICES ASSUME m + 1 <= n
                 PROVE  After(w, has, (m + 1) + 1, k, x) <=> After(v, new, m + 1, k, x)
      OBVIOUS
    <2>1. After(w, has, m + 1, k, x) <=> After(v, new, m, k, x)
      BY <1>2
    <2>2. v[m + 1] = w[(m + 1) + 1]
      OBVIOUS
    <2>3. After(v, new, m + 1, k, x) <=>
            IF v[m + 1].key = k THEN x \in v[m + 1].puts ELSE After(v, new, m, k, x)
      BY AfterMore
    <2>4. m + 1 \in Nat
      OBVIOUS
    <2>5. After(w, has, (m + 1) + 1, k, x) <=>
            IF w[(m + 1) + 1].key = k THEN x \in w[(m + 1) + 1].puts ELSE After(w, has, m + 1, k, x)
      BY <2>4, AfterMore
    <2> QED
      BY <2>1, <2>2, <2>3, <2>5
  <1> HIDE DEF S
  <1>3. n \in S
    BY <1>1, <1>2, AllNumbers
  <1> QED
    BY <1>3 DEF S

\* What no word puts there was there before.
LEMMA AfterPuts ==
  ASSUME NEW w, NEW has \in BOOLEAN, NEW k, NEW x, NEW n \in Nat, After(w, has, n, k, x)
  PROVE  \/ has /\ \A j \in 1 .. n : w[j].key # k
         \/ \E j \in 1 .. n : w[j].key = k /\ x \in w[j].puts
  BY DEF After

-----------------------------------------------------------------------------
(* Lists whose entries have different keys *)

\* No two places of s have the same key.
OnceBy(K, s) == \A i, j \in DOMAIN s : K[s[i]] = K[s[j]] => i = j

LEMMA AddedIs ==
  ASSUME NEW T, NEW K, NEW s \in Seq(T), NEW e \in T, OnceBy(K, s),
         \A x \in ToSet(s) : K[x] # K[e]
  PROVE  OnceBy(K, Append(s, e))
  <1> DEFINE t == Append(s, e)
  <1>1. /\ Len(s) \in Nat /\ Len(t) = Len(s) + 1 /\ t[Len(s) + 1] = e
        /\ \A i \in 1 .. Len(s) : t[i] = s[i]
        /\ DOMAIN t = 1 .. Len(s) + 1 /\ DOMAIN s = 1 .. Len(s)
    BY AppendProperties, LenProperties
  <1>2. \A i \in 1 .. Len(s) : K[s[i]] # K[e]
    BY ToSetMember
  <1> HIDE DEF t
  <1> SUFFICES ASSUME NEW i \in 1 .. Len(s) + 1, NEW j \in 1 .. Len(s) + 1, K[t[i]] = K[t[j]]
               PROVE  i = j
    BY <1>1 DEF OnceBy, t
  <1>3. \A k \in 1 .. Len(s) + 1 : k \in 1 .. Len(s) \/ k = Len(s) + 1
    BY <1>1
  <1> QED
    BY <1>1, <1>2, <1>3 DEF OnceBy

\* e is put in the place of what has its key, or at the end.
LEMMA PutIs ==
  ASSUME NEW T, NEW K, NEW s \in Seq(T), NEW e \in T, NEW i, OnceBy(K, s),
         First({j \in 1 .. Len(s) : K[s[j]] = K[e]}, i)
  PROVE  /\ OnceBy(K, Put(s, i, e))
         /\ ToSet(Put(s, i, e)) = {x \in ToSet(s) : K[x] # K[e]} \cup {e}
         /\ \A p \in 1 .. Len(s) : /\ p \in 1 .. Len(Put(s, i, e))
                                   /\ p # i => Put(s, i, e)[p] = s[p]
  <1>0. Len(s) \in Nat /\ DOMAIN s = 1 .. Len(s)
    BY LenProperties
  <1>1. CASE i = 0
    <2>1. \A j \in 1 .. Len(s) : K[s[j]] # K[e]
      BY <1>1 DEF First
    <2>2. \A x \in ToSet(s) : K[x] # K[e]
      BY <2>1, ToSetMember
    <2>3. Put(s, i, e) = Append(s, e)
      BY <1>1 DEF Put
    <2>4. OnceBy(K, Append(s, e)) /\ ToSet(Append(s, e)) = ToSet(s) \cup {e}
      BY <2>2, AddedIs, ToSetAppend
    <2>5. \A p \in 1 .. Len(s) : p \in 1 .. Len(Append(s, e)) /\ Append(s, e)[p] = s[p]
      BY <1>0, AppendProperties
    <2> QED
      BY <2>2, <2>3, <2>4, <2>5
  <1>2. CASE i # 0
    <2>1. i \in 1 .. Len(s) /\ K[s[i]] = K[e]
      BY <1>2 DEF First
    <2>2. PICK t : t = [s EXCEPT ![i] = e]
      OBVIOUS
    <2>3. /\ t \in Seq(T) /\ DOMAIN t = 1 .. Len(s) /\ Len(t) = Len(s) /\ t[i] = e
          /\ \A p \in 1 .. Len(s) : p # i => t[p] = s[p]
      BY <1>0, <2>1, <2>2, ExceptSeq
    <2>4. Put(s, i, e) = t
      BY <1>2, <2>2 DEF Put, ReplaceAt
    <2>5. \A p \in 1 .. Len(s) : K[t[p]] = K[s[p]]
      BY <2>1, <2>3
    <2>6. OnceBy(K, t)
      BY <1>0, <2>3, <2>5 DEF OnceBy
    <2>7. ASSUME NEW x PROVE x \in ToSet(t) <=> x \in {y \in ToSet(s) : K[y] # K[e]} \cup {e}
      <3>1. x \in ToSet(t) <=> \E p \in 1 .. Len(s) : t[p] = x
        BY <2>3, ToSetMember
      <3>2. x \in ToSet(s) <=> \E p \in 1 .. Len(s) : s[p] = x
        BY ToSetMember
      <3>3. \A p \in 1 .. Len(s) : K[s[p]] = K[e] <=> p = i
        BY <1>0, <2>1 DEF OnceBy
      <3> QED
        BY <2>1, <2>3, <3>1, <3>2, <3>3
    <2> QED
      BY <1>0, <2>3, <2>4, <2>6, <2>7
  <1> QED
    BY <1>1, <1>2

\* What is not taken out stays, and nothing before the first place that is moves.
LEMMA WithoutKeeps ==
  ASSUME NEW T, NEW s \in Seq(T), NEW gone, NEW W, W = Without(s, gone)
  PROVE  /\ W \in Seq(T) /\ ToSet(W) = {s[i] : i \in (1 .. Len(s)) \ gone}
         /\ \A K : OnceBy(K, s) => OnceBy(K, W)
         /\ \A p \in 1 .. Len(s) : (\A i \in gone : ~(i <= p)) => p \in 1 .. Len(W) /\ W[p] = s[p]
  <1>1. W \in Seq(T) /\ Len(s) \in Nat /\ Len(W) \in Nat
    BY WithoutIs, LenProperties
  <1>2. PICK at : Thins(s, gone, Len(s), W, at)
    BY WithoutIs
  <1>3. /\ \A k \in 1 .. Len(W) : at[k] \in (1 .. Len(s)) \ gone /\ W[k] = s[at[k]]
        /\ \A k, l \in 1 .. Len(W) : k < l => at[k] < at[l]
        /\ \A i \in (1 .. Len(s)) \ gone : \E k \in 1 .. Len(W) : at[k] = i
    BY <1>2 DEF Thins
  <1>4. ASSUME NEW x PROVE x \in ToSet(W) <=> \E i \in (1 .. Len(s)) \ gone : s[i] = x
    <2>1. x \in ToSet(W) <=> \E k \in 1 .. Len(W) : W[k] = x
      BY <1>1, ToSetMember
    <2> QED
      BY <1>3, <2>1
  <1>5. ASSUME NEW K, OnceBy(K, s) PROVE OnceBy(K, W)
    <2>1. DOMAIN W = 1 .. Len(W) /\ DOMAIN s = 1 .. Len(s)
      BY <1>1, LenProperties
    <2> SUFFICES ASSUME NEW k \in 1 .. Len(W), NEW l \in 1 .. Len(W), K[W[k]] = K[W[l]] PROVE k = l
      BY <2>1 DEF OnceBy
    <2>2. at[k] \in 1 .. Len(s) /\ at[l] \in 1 .. Len(s) /\ K[s[at[k]]] = K[s[at[l]]]
      BY <1>3
    <2>3. at[k] = at[l]
      BY <1>5, <2>1, <2>2 DEF OnceBy
    <2>4. at[k] \in Nat /\ ~(k < l) /\ ~(l < k)
      BY <1>1, <1>3, <2>2, <2>3
    <2> QED
      BY <1>1, <2>4
  <1>6. ASSUME NEW p \in 1 .. Len(s), \A i \in gone : ~(i <= p)
        PROVE  p \in 1 .. Len(W) /\ W[p] = s[p]
    <2> DEFINE S == {m \in Nat : \A k \in 1 .. m : k <= p => k \in 1 .. Len(W) /\ at[k] = k}
    <2>1. 0 \in S
      OBVIOUS
    <2>2. ASSUME NEW m \in Nat, m \in S PROVE m + 1 \in S
      <3> SUFFICES ASSUME m + 1 <= p PROVE m + 1 \in 1 .. Len(W) /\ at[m + 1] = m + 1
        BY <2>2
      <3>1. m + 1 \in (1 .. Len(s)) \ gone
        BY <1>1, <1>6
      <3>2. PICK l \in 1 .. Len(W) : at[l] = m + 1
        BY <1>3, <3>1
      <3>3. \A k \in 1 .. m : k \in 1 .. Len(W) /\ at[k] = k
        BY <1>1, <2>2
      <3>4. ~(l < m + 1)
        <4>1. l < m + 1 => l \in 1 .. m
          BY <1>1
        <4> QED
          BY <3>2, <3>3, <4>1
      <3>5. ~(m + 1 < l)
        <4> SUFFICES ASSUME m + 1 < l PROVE FALSE
          OBVIOUS
        <4>1. m + 1 \in 1 .. Len(W)
          BY <1>1
        <4>2. at[m + 1] < m + 1 /\ at[m + 1] \in 1 .. Len(s)
          BY <1>3, <3>2, <4>1
        <4>3. PICK c : c = at[m + 1]
          OBVIOUS
        <4>4. c \in 1 .. m
          BY <1>1, <4>2, <4>3
        <4>5. at[c] = c /\ c \in 1 .. Len(W) /\ c < m + 1
          BY <3>3, <4>4
        <4>6. at[c] < at[m + 1]
          BY <1>3, <4>1, <4>5
        <4> QED
          BY <4>2, <4>3, <4>5, <4>6
      <3>6. l = m + 1
        BY <1>1, <3>4, <3>5
      <3> QED
        BY <3>2, <3>6
    <2> HIDE DEF S
    <2>3. p \in S
      BY <1>1, <2>1, <2>2, AllNumbers
    <2>4. p \in 1 .. Len(W) /\ at[p] = p
      BY <1>1, <2>3 DEF S
    <2> QED
      BY <1>3, <2>4
  <1> QED
    BY <1>1, <1>4, <1>5, <1>6

\* What has a key is taken out.
GoneBy(K, s, k) == {i \in DOMAIN s : K[s[i]] = k}

LEMMA WithoutKey ==
  ASSUME NEW T, NEW K, NEW s \in Seq(T), NEW k
  PROVE  \A x : x \in ToSet(Without(s, GoneBy(K, s, k))) <=> x \in ToSet(s) /\ K[x] # k
  <1>1. PICK gone, W : gone = GoneBy(K, s, k) /\ W = Without(s, gone)
    OBVIOUS
  <1>2. ToSet(W) = {s[i] : i \in (1 .. Len(s)) \ gone}
    BY <1>1, WithoutKeeps
  <1>3. \A i \in 1 .. Len(s) : i \in gone <=> K[s[i]] = k
    BY <1>1, LenProperties DEF GoneBy
  <1>4. \A x : x \in ToSet(s) <=> \E i \in 1 .. Len(s) : s[i] = x
    BY ToSetMember
  <1>5. \A x : x \in ToSet(W) <=> x \in ToSet(s) /\ K[x] # k
    BY <1>2, <1>3, <1>4
  <1> QED
    BY <1>1, <1>5

LEMMA ErasedIs ==
  ASSUME NEW T, NEW K, NEW s \in Seq(T), NEW i \in 1 .. Len(s), OnceBy(K, s)
  PROVE  /\ OnceBy(K, Erased(s, i))
         /\ ToSet(Erased(s, i)) = {x \in ToSet(s) : K[x] # K[s[i]]}
  <1>1. PICK t : t = RemoveAt(s, i)
    OBVIOUS
  <1>2. PICK n \in Nat : n = Len(s)
    BY LenProperties
  <1>3. /\ t \in Seq(T) /\ Len(t) = n - 1
        /\ \A k \in 1 .. n - 1 : t[k] = IF k < i THEN s[k] ELSE s[k + 1]
        /\ DOMAIN t = 1 .. n - 1 /\ DOMAIN s = 1 .. n
    BY <1>1, <1>2, RemoveIs, LenProperties
  <1>4. Erased(s, i) = t
    BY <1>1, <1>2 DEF Erased
  <1> DEFINE at(k) == IF k < i THEN k ELSE k + 1
  <1>5. \A k \in 1 .. n - 1 : at(k) \in 1 .. n /\ at(k) # i /\ t[k] = s[at(k)]
    BY <1>2, <1>3
  <1>6. \A k, l \in 1 .. n - 1 : at(k) = at(l) => k = l
    BY <1>2
  <1>7. ASSUME NEW j \in 1 .. n, j # i PROVE \E k \in 1 .. n - 1 : at(k) = j
    <2>1. CASE j < i
      <3>1. j \in 1 .. n - 1 /\ at(j) = j
        BY <1>2, <2>1
      <3> QED
        BY <3>1
    <2>2. CASE j > i
      <3>1. j - 1 \in 1 .. n - 1 /\ at(j - 1) = j
        BY <1>2, <2>2
      <3> QED
        BY <3>1
    <2> QED
      BY <1>2, <1>7, <2>1, <2>2
  <1> HIDE DEF at
  <1>8. OnceBy(K, t)
    BY <1>3, <1>5, <1>6 DEF OnceBy
  <1>9. ASSUME NEW x PROVE x \in ToSet(t) <=> x \in ToSet(s) /\ K[x] # K[s[i]]
    <2>1. x \in ToSet(t) <=> \E k \in 1 .. n - 1 : t[k] = x
      BY <1>3, ToSetMember
    <2>2. x \in ToSet(s) <=> \E k \in 1 .. n : s[k] = x
      BY <1>2, ToSetMember
    <2>3. \A j \in 1 .. n : K[s[j]] = K[s[i]] <=> j = i
      BY <1>2, <1>3 DEF OnceBy
    <2>4. ASSUME NEW k \in 1 .. n - 1, t[k] = x PROVE x \in ToSet(s) /\ K[x] # K[s[i]]
      <3>1. PICK j \in 1 .. n : j = at(k) /\ j # i /\ x = s[j]
        BY <1>5, <2>4
      <3> QED
        BY <2>2, <2>3, <3>1
    <2>5. ASSUME NEW j \in 1 .. n, s[j] = x, K[x] # K[s[i]] PROVE \E k \in 1 .. n - 1 : t[k] = x
      <3>1. PICK k \in 1 .. n - 1 : at(k) = j
        BY <1>7, <2>5
      <3> QED
        BY <1>5, <2>5, <3>1
    <2> QED
      BY <2>1, <2>2, <2>4, <2>5
  <1> QED
    BY <1>4, <1>8, <1>9

-----------------------------------------------------------------------------
(* Plans *)

\* Which steps a plan has together.
Fit(P) ==
  /\ P \cap {"add", "remove", "privacy"} # {} =>
       P \cap {"push", "erase", "content", "addgroup", "delgroup", "each", "master", "end"} = {}
  /\ "push" \in P => P \cap {"erase", "content", "each", "delgroup"} = {}
  /\ "erase" \in P => "addgroup" \notin P
  /\ "addgroup" \in P => {"push", "master"} \subseteq P
  /\ "delgroup" \in P => {"erase", "master"} \subseteq P
  /\ "master" \in P => P \cap {"push", "erase"} # {}
  /\ "each" \in P => {"content", "erase", "delgroup"} \subseteq P
  /\ "content" \in P => "end" \in P
  /\ {"content", "erase"} \subseteq P => "delgroup" \in P

LEMMA EmptyingIs ==
  ASSUME NEW p \in Seq(Steps), NEW s \in {0, 1}, NEW n \in Nat, Emptying(p, s, n)
  PROVE  /\ ToSet(p) \subseteq {"start", "each", "content", "end", "delgroup", "master", "erase"}
         /\ {"content", "end", "start", "delgroup", "master", "erase"} \subseteq ToSet(p)
         /\ p # <<>>
         /\ Head(p) = IF s = 1 THEN "start" ELSE IF n > 0 THEN "each" ELSE "content"
         /\ IF s = 1 THEN Emptying(Tail(p), 0, n)
            ELSE IF n > 0 THEN Emptying(Tail(p), 0, n - 1)
            ELSE Tail(p) = Removal
  <1> DEFINE l == s + n + 7
             c == s + n + 1
  <1>1. l \in Nat /\ c \in Nat /\ l = c + 6 /\ c >= 1
    OBVIOUS
  <1>2. /\ Len(p) = l /\ DOMAIN p = 1 .. l /\ (s = 1 => p[1] = "start")
        /\ \A i \in s + 1 .. s + n : p[i] = "each"
        /\ p[c] = "content"
        /\ \A i \in 1 .. 6 : p[c + i] = Removal[i]
    BY LenProperties DEF Emptying
  <1>3. /\ Removal[1] = "end" /\ Removal[2] = "start" /\ Removal[3] = "delgroup" /\ Removal[4] = "master"
        /\ Removal[5] = "end" /\ Removal[6] = "erase" /\ Len(Removal) = 6 /\ DOMAIN Removal = 1 .. 6
    BY DEF Removal
  <1>4. /\ p[c + 1] = "end" /\ p[c + 2] = "start" /\ p[c + 3] = "delgroup" /\ p[c + 4] = "master"
        /\ p[c + 5] = "end" /\ p[c + 6] = "erase"
    BY <1>2, <1>3
  <1>5. \A i \in 1 .. l : \/ i = 1 /\ s = 1
                          \/ i \in s + 1 .. s + n
                          \/ i = c
                          \/ i \in {c + 1, c + 2, c + 3, c + 4, c + 5, c + 6}
    OBVIOUS
  <1>6. {c, c + 1, c + 2, c + 3, c + 4, c + 5, c + 6} \subseteq 1 .. l
    OBVIOUS
  <1> HIDE DEF l, c
  <1>7. ToSet(p) \subseteq {"start", "each", "content", "end", "delgroup", "master", "erase"}
    <2> SUFFICES ASSUME NEW i \in 1 .. l
                 PROVE  p[i] \in {"start", "each", "content", "end", "delgroup", "master", "erase"}
      BY <1>2 DEF ToSet
    <2> QED
      BY <1>2, <1>4, <1>5
  <1>8. {"content", "end", "start", "delgroup", "master", "erase"} \subseteq ToSet(p)
    <2>1. \A i \in 1 .. l : p[i] \in ToSet(p)
      BY <1>2 DEF ToSet
    <2>2. /\ p[c] \in ToSet(p) /\ p[c + 1] \in ToSet(p) /\ p[c + 2] \in ToSet(p)
          /\ p[c + 3] \in ToSet(p) /\ p[c + 4] \in ToSet(p) /\ p[c + 6] \in ToSet(p)
      BY <1>6, <2>1
    <2> QED
      BY <1>2, <1>4, <2>2
  <1>9. p # <<>> /\ Head(p) = p[1]
    BY <1>1, <1>2, EmptySeq, HeadTailProperties
  <1>10. PICK q : q = Tail(p)
    OBVIOUS
  <1>11. q \in Seq(Steps) /\ Len(q) = l - 1 /\ (\A i \in 1 .. l - 1 : q[i] = p[i + 1]) /\ DOMAIN q = 1 .. l - 1
    <2>1. q \in Seq(Steps) /\ Len(q) = Len(p) - 1 /\ \A i \in 1 .. Len(q) : q[i] = p[i + 1]
      BY <1>9, <1>10, HeadTailProperties
    <2> QED
      BY <1>2, <2>1, LenProperties
  <1>12. CASE s = 1
    <2>1. l - 1 = 0 + n + 7 /\ c = n + 2
      BY <1>12 DEF l, c
    <2>2. \A i \in 0 + 1 .. 0 + n : q[i] = "each"
      <3> SUFFICES ASSUME NEW i \in 1 .. n PROVE q[i] = "each"
        OBVIOUS
      <3>1. i \in 1 .. l - 1 /\ i + 1 \in s + 1 .. s + n
        BY <1>12, <2>1
      <3> QED
        BY <1>2, <1>11, <3>1
    <2>3. q[0 + n + 1] = "content" /\ \A i \in 1 .. 6 : q[0 + n + 1 + i] = Removal[i]
      <3>1. n + 1 \in 1 .. l - 1 /\ (n + 1) + 1 = c /\ 0 + n + 1 = n + 1
        BY <2>1
      <3>2. ASSUME NEW i \in 1 .. 6 PROVE q[n + 1 + i] = Removal[i]
        <4>1. n + 1 + i \in 1 .. l - 1 /\ (n + 1 + i) + 1 = c + i
          BY <2>1
        <4> QED
          BY <1>2, <1>11, <4>1
      <3>3. q[n + 1] = "content"
        BY <1>2, <1>11, <3>1
      <3> QED
        BY <3>1, <3>2, <3>3
    <2>4. Emptying(q, 0, n)
      BY <1>11, <2>1, <2>2, <2>3 DEF Emptying
    <2> QED
      BY <1>2, <1>7, <1>8, <1>9, <1>10, <1>12, <2>4
  <1>13. CASE s = 0 /\ n > 0
    <2>1. l - 1 = 0 + (n - 1) + 7 /\ c = n + 1
      BY <1>13 DEF l, c
    <2>2. ASSUME NEW i \in 1 .. n - 1 PROVE q[i] = "each"
      <3>1. i \in 1 .. l - 1 /\ i + 1 \in s + 1 .. s + n
        BY <1>13, <2>1
      <3> QED
        BY <1>2, <1>11, <3>1
    <2>3. q[0 + (n - 1) + 1] = "content" /\ \A i \in 1 .. 6 : q[0 + (n - 1) + 1 + i] = Removal[i]
      <3>1. n \in 1 .. l - 1 /\ n + 1 = c /\ 0 + (n - 1) + 1 = n
        BY <1>13, <2>1
      <3>2. ASSUME NEW i \in 1 .. 6 PROVE q[n + i] = Removal[i]
        <4>1. n + i \in 1 .. l - 1 /\ (n + i) + 1 = c + i
          BY <1>13, <2>1
        <4> QED
          BY <1>2, <1>11, <4>1
      <3>3. \A i \in 1 .. 6 : 0 + (n - 1) + 1 + i = n + i
        OBVIOUS
      <3> QED
        BY <1>2, <1>11, <3>1, <3>2, <3>3
    <2>4. Emptying(q, 0, n - 1)
      <3>1. \A i \in 0 + 1 .. 0 + (n - 1) : i \in 1 .. n - 1
        OBVIOUS
      <3> QED
        BY <1>11, <2>1, <2>2, <2>3, <3>1 DEF Emptying
    <2>5. Head(p) = "each"
      BY <1>2, <1>9, <1>13
    <2> QED
      BY <1>7, <1>8, <1>9, <1>10, <1>13, <2>4, <2>5
  <1>14. CASE s = 0 /\ n = 0
    <2>1. c = 1 /\ l = 7
      BY <1>14 DEF l, c
    <2>2. \A i \in 1 .. 6 : q[i] = Removal[i]
      BY <1>2, <1>11, <2>1
    <2>3. q = Removal
      <3>1. Removal \in Seq(Steps)
        BY DEF Removal, Steps
      <3>2. Len(q) = Len(Removal)
        BY <1>3, <1>11, <2>1
      <3>3. \A i \in 1 .. Len(q) : q[i] = Removal[i]
        BY <1>3, <2>2, <3>2
      <3> QED
        BY <1>11, <3>1, <3>2, <3>3, SeqEqual
    <2> QED
      BY <1>2, <1>7, <1>8, <1>9, <1>10, <1>14, <2>1, <2>3
  <1> QED
    BY <1>12, <1>13, <1>14

\* The plans without a contact to remove, one by one.
LEMMA PlansAre ==
  ASSUME NEW p \in Plans
  PROVE  /\ Fit(ToSet(p))
         /\ p # <<>> =>
              /\ Tail(p) \in Plans
              /\ Head(p) \in {"add", "remove", "privacy", "push", "erase"} => Tail(p) = <<>>
              /\ Head(p) \notin {"start", "end", "each"} => Head(p) \notin ToSet(Tail(p))
              /\ Head(p) = "start" => ToSet(Tail(p)) \cap {"end", "add", "remove"} # {}
              /\ "content" \in ToSet(p) => Head(p) = "content"
  <1>0. ToSet(<<>>) = {}
    BY ToSetEmpty
  <1>1. CASE p = <<>>
    BY <1>0, <1>1 DEF Fit
  <1>2. CASE p = <<"start", "add">>
    <2>1. PICK q : q = Tail(p)
      OBVIOUS
    <2>2. ToSet(p) = {"start", "add"} /\ Head(p) = "start" /\ q = <<"add">> /\ p # <<>>
      BY <1>2, <2>1 DEF ToSet
    <2>3. ToSet(q) = {"add"}
      BY <2>2 DEF ToSet
    <2>4. Fit(ToSet(p)) /\ q \in Plans
      BY <2>2 DEF Fit, Plans, Removal
    <2> QED
      BY <2>1, <2>2, <2>3, <2>4
  <1>3. CASE p = <<"add">>
    <2>1. PICK q : q = Tail(p)
      OBVIOUS
    <2>2. ToSet(p) = {"add"} /\ Head(p) = "add" /\ q = <<>> /\ p # <<>>
      BY <1>3, <2>1 DEF ToSet
    <2>3. ToSet(q) = {}
      BY <1>0, <2>2
    <2>4. Fit(ToSet(p)) /\ q \in Plans
      BY <2>2 DEF Fit, Plans, Removal
    <2> QED
      BY <2>1, <2>2, <2>3, <2>4
  <1>4. CASE p = <<"start", "remove">>
    <2>1. PICK q : q = Tail(p)
      OBVIOUS
    <2>2. ToSet(p) = {"start", "remove"} /\ Head(p) = "start" /\ q = <<"remove">> /\ p # <<>>
      BY <1>4, <2>1 DEF ToSet
    <2>3. ToSet(q) = {"remove"}
      BY <2>2 DEF ToSet
    <2>4. Fit(ToSet(p)) /\ q \in Plans
      BY <2>2 DEF Fit, Plans, Removal
    <2> QED
      BY <2>1, <2>2, <2>3, <2>4
  <1>5. CASE p = <<"remove">>
    <2>1. PICK q : q = Tail(p)
      OBVIOUS
    <2>2. ToSet(p) = {"remove"} /\ Head(p) = "remove" /\ q = <<>> /\ p # <<>>
      BY <1>5, <2>1 DEF ToSet
    <2>3. ToSet(q) = {}
      BY <1>0, <2>2
    <2>4. Fit(ToSet(p)) /\ q \in Plans
      BY <2>2 DEF Fit, Plans, Removal
    <2> QED
      BY <2>1, <2>2, <2>3, <2>4
  <1>6. CASE p = <<"content", "end">>
    <2>1. PICK q : q = Tail(p)
      OBVIOUS
    <2>2. ToSet(p) = {"content", "end"} /\ Head(p) = "content" /\ q = <<"end">> /\ p # <<>>
      BY <1>6, <2>1 DEF ToSet
    <2>3. ToSet(q) = {"end"}
      BY <2>2 DEF ToSet
    <2>4. Fit(ToSet(p)) /\ q \in Plans
      BY <2>2 DEF Fit, Plans, Removal
    <2> QED
      BY <2>1, <2>2, <2>3, <2>4
  <1>7. CASE p = <<"end">>
    <2>1. PICK q : q = Tail(p)
      OBVIOUS
    <2>2. ToSet(p) = {"end"} /\ Head(p) = "end" /\ q = <<>> /\ p # <<>>
      BY <1>7, <2>1 DEF ToSet
    <2>3. ToSet(q) = {}
      BY <1>0, <2>2
    <2>4. Fit(ToSet(p)) /\ q \in Plans
      BY <2>2 DEF Fit, Plans, Removal
    <2> QED
      BY <2>1, <2>2, <2>3, <2>4
  <1>8. CASE p = <<"privacy">>
    <2>1. PICK q : q = Tail(p)
      OBVIOUS
    <2>2. ToSet(p) = {"privacy"} /\ Head(p) = "privacy" /\ q = <<>> /\ p # <<>>
      BY <1>8, <2>1 DEF ToSet
    <2>3. ToSet(q) = {}
      BY <1>0, <2>2
    <2>4. Fit(ToSet(p)) /\ q \in Plans
      BY <2>2 DEF Fit, Plans, Removal
    <2> QED
      BY <2>1, <2>2, <2>3, <2>4
  <1>9. CASE p = <<"start", "addgroup", "master", "end", "push">>
    <2>1. PICK q : q = Tail(p)
      OBVIOUS
    <2>2. ToSet(p) = {"start", "addgroup", "master", "end", "push"} /\ Head(p) = "start" /\ q = <<"addgroup", "master", "end", "push">> /\ p # <<>>
      BY <1>9, <2>1 DEF ToSet
    <2>3. ToSet(q) = {"addgroup", "master", "end", "push"}
      BY <2>2 DEF ToSet
    <2>4. Fit(ToSet(p)) /\ q \in Plans
      BY <2>2 DEF Fit, Plans, Removal
    <2> QED
      BY <2>1, <2>2, <2>3, <2>4
  <1>10. CASE p = <<"addgroup", "master", "end", "push">>
    <2>1. PICK q : q = Tail(p)
      OBVIOUS
    <2>2. ToSet(p) = {"addgroup", "master", "end", "push"} /\ Head(p) = "addgroup" /\ q = <<"master", "end", "push">> /\ p # <<>>
      BY <1>10, <2>1 DEF ToSet
    <2>3. ToSet(q) = {"master", "end", "push"}
      BY <2>2 DEF ToSet
    <2>4. Fit(ToSet(p)) /\ q \in Plans
      BY <2>2 DEF Fit, Plans, Removal
    <2> QED
      BY <2>1, <2>2, <2>3, <2>4
  <1>11. CASE p = <<"master", "end", "push">>
    <2>1. PICK q : q = Tail(p)
      OBVIOUS
    <2>2. ToSet(p) = {"master", "end", "push"} /\ Head(p) = "master" /\ q = <<"end", "push">> /\ p # <<>>
      BY <1>11, <2>1 DEF ToSet
    <2>3. ToSet(q) = {"end", "push"}
      BY <2>2 DEF ToSet
    <2>4. Fit(ToSet(p)) /\ q \in Plans
      BY <2>2 DEF Fit, Plans, Removal
    <2> QED
      BY <2>1, <2>2, <2>3, <2>4
  <1>12. CASE p = <<"end", "push">>
    <2>1. PICK q : q = Tail(p)
      OBVIOUS
    <2>2. ToSet(p) = {"end", "push"} /\ Head(p) = "end" /\ q = <<"push">> /\ p # <<>>
      BY <1>12, <2>1 DEF ToSet
    <2>3. ToSet(q) = {"push"}
      BY <2>2 DEF ToSet
    <2>4. Fit(ToSet(p)) /\ q \in Plans
      BY <2>2 DEF Fit, Plans, Removal
    <2> QED
      BY <2>1, <2>2, <2>3, <2>4
  <1>13. CASE p = <<"push">>
    <2>1. PICK q : q = Tail(p)
      OBVIOUS
    <2>2. ToSet(p) = {"push"} /\ Head(p) = "push" /\ q = <<>> /\ p # <<>>
      BY <1>13, <2>1 DEF ToSet
    <2>3. ToSet(q) = {}
      BY <1>0, <2>2
    <2>4. Fit(ToSet(p)) /\ q \in Plans
      BY <2>2 DEF Fit, Plans, Removal
    <2> QED
      BY <2>1, <2>2, <2>3, <2>4
  <1>14. CASE p = <<"start", "end", "start", "delgroup", "master", "end", "erase">>
    <2>1. PICK q : q = Tail(p)
      OBVIOUS
    <2>2. ToSet(p) = {"start", "end", "delgroup", "master", "erase"} /\ Head(p) = "start" /\ q = <<"end", "start", "delgroup", "master", "end", "erase">> /\ p # <<>>
      BY <1>14, <2>1 DEF ToSet
    <2>3. ToSet(q) = {"end", "start", "delgroup", "master", "erase"}
      BY <2>2 DEF ToSet
    <2>4. Fit(ToSet(p)) /\ q \in Plans
      BY <2>2 DEF Fit, Plans, Removal
    <2> QED
      BY <2>1, <2>2, <2>3, <2>4
  <1>15. CASE p = <<"end", "start", "delgroup", "master", "end", "erase">>
    <2>1. PICK q : q = Tail(p)
      OBVIOUS
    <2>2. ToSet(p) = {"end", "start", "delgroup", "master", "erase"} /\ Head(p) = "end" /\ q = <<"start", "delgroup", "master", "end", "erase">> /\ p # <<>>
      BY <1>15, <2>1 DEF ToSet
    <2>3. ToSet(q) = {"start", "delgroup", "master", "end", "erase"}
      BY <2>2 DEF ToSet
    <2>4. Fit(ToSet(p)) /\ q \in Plans
      BY <2>2 DEF Fit, Plans, Removal
    <2> QED
      BY <2>1, <2>2, <2>3, <2>4
  <1>16. CASE p = <<"start", "delgroup", "master", "end", "erase">>
    <2>1. PICK q : q = Tail(p)
      OBVIOUS
    <2>2. ToSet(p) = {"start", "delgroup", "master", "end", "erase"} /\ Head(p) = "start" /\ q = <<"delgroup", "master", "end", "erase">> /\ p # <<>>
      BY <1>16, <2>1 DEF ToSet
    <2>3. ToSet(q) = {"delgroup", "master", "end", "erase"}
      BY <2>2 DEF ToSet
    <2>4. Fit(ToSet(p)) /\ q \in Plans
      BY <2>2 DEF Fit, Plans, Removal
    <2> QED
      BY <2>1, <2>2, <2>3, <2>4
  <1>17. CASE p = <<"delgroup", "master", "end", "erase">>
    <2>1. PICK q : q = Tail(p)
      OBVIOUS
    <2>2. ToSet(p) = {"delgroup", "master", "end", "erase"} /\ Head(p) = "delgroup" /\ q = <<"master", "end", "erase">> /\ p # <<>>
      BY <1>17, <2>1 DEF ToSet
    <2>3. ToSet(q) = {"master", "end", "erase"}
      BY <2>2 DEF ToSet
    <2>4. Fit(ToSet(p)) /\ q \in Plans
      BY <2>2 DEF Fit, Plans, Removal
    <2> QED
      BY <2>1, <2>2, <2>3, <2>4
  <1>18. CASE p = <<"master", "end", "erase">>
    <2>1. PICK q : q = Tail(p)
      OBVIOUS
    <2>2. ToSet(p) = {"master", "end", "erase"} /\ Head(p) = "master" /\ q = <<"end", "erase">> /\ p # <<>>
      BY <1>18, <2>1 DEF ToSet
    <2>3. ToSet(q) = {"end", "erase"}
      BY <2>2 DEF ToSet
    <2>4. Fit(ToSet(p)) /\ q \in Plans
      BY <2>2 DEF Fit, Plans, Removal
    <2> QED
      BY <2>1, <2>2, <2>3, <2>4
  <1>19. CASE p = <<"end", "erase">>
    <2>1. PICK q : q = Tail(p)
      OBVIOUS
    <2>2. ToSet(p) = {"end", "erase"} /\ Head(p) = "end" /\ q = <<"erase">> /\ p # <<>>
      BY <1>19, <2>1 DEF ToSet
    <2>3. ToSet(q) = {"erase"}
      BY <2>2 DEF ToSet
    <2>4. Fit(ToSet(p)) /\ q \in Plans
      BY <2>2 DEF Fit, Plans, Removal
    <2> QED
      BY <2>1, <2>2, <2>3, <2>4
  <1>20. CASE p = <<"erase">>
    <2>1. PICK q : q = Tail(p)
      OBVIOUS
    <2>2. ToSet(p) = {"erase"} /\ Head(p) = "erase" /\ q = <<>> /\ p # <<>>
      BY <1>20, <2>1 DEF ToSet
    <2>3. ToSet(q) = {}
      BY <1>0, <2>2
    <2>4. Fit(ToSet(p)) /\ q \in Plans
      BY <2>2 DEF Fit, Plans, Removal
    <2> QED
      BY <2>1, <2>2, <2>3, <2>4
  <1> QED
    BY <1>1, <1>2, <1>3, <1>4, <1>5, <1>6, <1>7, <1>8, <1>9, <1>10, <1>11, <1>12, <1>13, <1>14, <1>15, <1>16, <1>17, <1>18, <1>19, <1>20 DEF Plans, Removal

LEMMA PlannedFits ==
  ASSUME NEW p \in Seq(Steps), Planned(p)
  PROVE  Fit(ToSet(p))
  <1>1. CASE p \in Plans
    BY <1>1, PlansAre
  <1>2. CASE p \notin Plans
    <2>1. PICK s \in {0, 1}, n \in 0 .. Len(p) : Emptying(p, s, n)
      BY <1>2 DEF Planned
    <2>2. n \in Nat
      BY LenProperties
    <2> QED
      BY <2>1, <2>2, EmptyingIs DEF Fit
  <1> QED
    BY <1>1, <1>2

\* What taking a step of a plan leaves.
LEMMA PlanTail ==
  ASSUME NEW p \in Seq(Steps), Planned(p), p # <<>>,
         NEW h, h = Head(p), NEW q, q = Tail(p)
  PROVE  /\ q \in Seq(Steps) /\ Planned(q) /\ ToSet(p) = {h} \cup ToSet(q)
         /\ h \in {"add", "remove", "privacy", "push", "erase"} => q = <<>>
         /\ h \notin {"start", "end", "each"} => h \notin ToSet(q)
         /\ h = "start" => ToSet(q) \cap {"end", "add", "remove"} # {}
  <1>0. q \in Seq(Steps) /\ ToSet(p) = {h} \cup ToSet(q)
    BY HeadTailProperties, ToSetTail
  <1>1. CASE p \in Plans
    <2>1. /\ h \in {"add", "remove", "privacy", "push", "erase"} => q = <<>>
          /\ h \notin {"start", "end", "each"} => h \notin ToSet(q)
          /\ h = "start" => ToSet(q) \cap {"end", "add", "remove"} # {}
      BY <1>1, PlansAre
    <2>2. q \in Plans
      BY <1>1, PlansAre
    <2> QED
      BY <1>0, <2>1, <2>2 DEF Planned
  <1>2. CASE p \notin Plans
    <2>1. PICK s \in {0, 1}, n \in 0 .. Len(p) : Emptying(p, s, n)
      BY <1>2 DEF Planned
    <2>2. n \in Nat /\ Len(p) \in Nat
      BY LenProperties
    <2>3. /\ Head(p) = IF s = 1 THEN "start" ELSE IF n > 0 THEN "each" ELSE "content"
          /\ IF s = 1 THEN Emptying(Tail(p), 0, n)
             ELSE IF n > 0 THEN Emptying(Tail(p), 0, n - 1)
             ELSE Tail(p) = Removal
      BY <2>1, <2>2, EmptyingIs
    <2>4. CASE s = 1 \/ n > 0
      <3>1. PICK m \in Nat : Emptying(q, 0, m)
        BY <2>2, <2>3, <2>4
      <3>2. m \in 0 .. Len(q)
        BY <3>1 DEF Emptying
      <3>3. "end" \in ToSet(q)
        BY <1>0, <3>1, EmptyingIs
      <3>4. Planned(q)
        BY <3>1, <3>2 DEF Planned
      <3>5. h \in {"start", "each"}
        BY <2>3, <2>4
      <3> QED
        BY <1>0, <3>3, <3>4, <3>5
    <2>5. CASE s = 0 /\ ~(n > 0)
      <3>1. h = "content" /\ q = Removal
        BY <2>3, <2>5
      <3>2. Planned(q)
        BY <3>1 DEF Planned, Plans
      <3>3. "content" \notin ToSet(q)
        <4>1. PICK r : r = q
          OBVIOUS
        <4>2. r = <<"end", "start", "delgroup", "master", "end", "erase">>
          BY <3>1, <4>1 DEF Removal
        <4>3. ToSet(r) = {"end", "start", "delgroup", "master", "erase"}
          BY <4>2 DEF ToSet
        <4> QED
          BY <4>1, <4>3
      <3> QED
        BY <1>0, <3>1, <3>2, <3>3
    <2> QED
      BY <2>4, <2>5
  <1> QED
    BY <1>1, <1>2

\* The plan of removeGroup with n contacts in the group.
LEMMA GroupPlanIs ==
  ASSUME NEW n \in Nat, NEW c \in {<<>>, <<"content">>}, c = <<>> <=> n = 0, NEW p,
         p = <<"start">> \o [i \in 1 .. n |-> "each"] \o c
             \o <<"end", "start", "delgroup", "master", "end", "erase">>
  PROVE  /\ p \in Seq(Steps) /\ p # <<>> /\ Head(p) = "start" /\ Planned(p)
         /\ {"delgroup", "master", "end", "erase"} \subseteq ToSet(p)
         /\ ToSet(p) \cap {"push", "addgroup", "add", "remove"} = {}
  <1>0. PICK e, z, k :
          /\ e = [i \in 1 .. n |-> "each"] /\ k = Len(c)
          /\ z = <<"end", "start", "delgroup", "master", "end", "erase">>
    OBVIOUS
  <1>1. <<"start">> \in Seq(Steps) /\ Len(<<"start">>) = 1 /\ <<"start">>[1] = "start"
    BY DEF Steps
  <1>2. e \in Seq(Steps) /\ Len(e) = n /\ \A i \in 1 .. n : e[i] = "each"
    <2>1. e \in [1 .. n -> Steps] /\ \A i \in 1 .. n : e[i] = "each"
      BY <1>0 DEF Steps
    <2>2. e \in Seq(Steps)
      BY <2>1, SeqDef
    <2> QED
      BY <2>1, <2>2, LenProperties
  <1>3. c \in Seq(Steps) /\ k \in {0, 1} /\ (\A i \in 1 .. k : c[i] = "content") /\ (k = 0 <=> n = 0)
    <2>1. CASE c = <<>>
      BY <1>0, <2>1, EmptySeq
    <2>2. CASE c = <<"content">>
      <3>1. c \in Seq(Steps) /\ Len(c) = 1 /\ c[1] = "content" /\ c # <<>>
        BY <2>2 DEF Steps
      <3> QED
        BY <1>0, <3>1
    <2> QED
      BY <2>1, <2>2
  <1>4. /\ z \in Seq(Steps) /\ Len(z) = 6
        /\ z[1] = "end" /\ z[2] = "start" /\ z[3] = "delgroup" /\ z[4] = "master" /\ z[5] = "end" /\ z[6] = "erase"
    BY <1>0 DEF Steps
  <1>5. PICK a : a = <<"start">> \o e
    OBVIOUS
  <1>6. /\ a \in Seq(Steps) /\ Len(a) = n + 1
        /\ \A i \in 1 .. n + 1 : a[i] = IF i <= 1 THEN <<"start">>[i] ELSE e[i - 1]
    BY <1>1, <1>2, <1>5, ConcatProperties
  <1>7. a[1] = "start" /\ \A i \in 2 .. n + 1 : a[i] = "each"
    <2>1. a[1] = "start"
      BY <1>1, <1>6
    <2>2. ASSUME NEW i \in 2 .. n + 1 PROVE a[i] = "each"
      <3>1. i - 1 \in 1 .. n /\ i \in 1 .. n + 1 /\ ~(i <= 1)
        OBVIOUS
      <3> QED
        BY <1>2, <1>6, <3>1
    <2> QED
      BY <2>1, <2>2
  <1>8. PICK b, m : b = a \o c /\ m = n + 1 + k
    OBVIOUS
  <1>9. m \in Nat /\ m >= n + 1 /\ m >= 1
    BY <1>3, <1>8
  <1>10. /\ b \in Seq(Steps) /\ Len(b) = m
         /\ \A i \in 1 .. m : b[i] = IF i <= n + 1 THEN a[i] ELSE c[i - (n + 1)]
    <2>1. /\ b \in Seq(Steps) /\ Len(b) = Len(a) + Len(c)
          /\ \A i \in 1 .. Len(a) + Len(c) : b[i] = IF i <= Len(a) THEN a[i] ELSE c[i - Len(a)]
      <3>1. a \in Seq(Steps) /\ c \in Seq(Steps) /\ b = a \o c
        BY <1>3, <1>6, <1>8
      <3> QED
        BY <3>1, ConcatProperties, ZenonT(60)
    <2>2. Len(a) + Len(c) = m
      BY <1>0, <1>3, <1>6, <1>8
    <2> QED
      BY <1>6, <2>1, <2>2
  <1>11. /\ b[1] = "start" /\ (\A i \in 2 .. n + 1 : b[i] = "each") /\ (k = 1 => b[n + 2] = "content")
    <2>1. b[1] = "start"
      BY <1>7, <1>9, <1>10
    <2>2. ASSUME NEW i \in 2 .. n + 1 PROVE b[i] = "each"
      <3>1. i \in 1 .. m /\ i <= n + 1
        BY <1>9
      <3> QED
        BY <1>7, <1>10, <3>1
    <2>3. ASSUME k = 1 PROVE b[n + 2] = "content"
      <3>1. n + 2 \in 1 .. m /\ ~(n + 2 <= n + 1) /\ (n + 2) - (n + 1) = 1
        BY <1>8, <2>3
      <3> QED
        BY <1>3, <1>10, <2>3, <3>1
    <2> QED
      BY <2>1, <2>2, <2>3
  <1>12. PICK q : q = b \o z
    OBVIOUS
  <1>13. /\ q \in Seq(Steps) /\ Len(q) = m + 6
         /\ \A i \in 1 .. m + 6 : q[i] = IF i <= m THEN b[i] ELSE z[i - m]
    <2>1. /\ q \in Seq(Steps) /\ Len(q) = Len(b) + Len(z)
          /\ \A i \in 1 .. Len(b) + Len(z) : q[i] = IF i <= Len(b) THEN b[i] ELSE z[i - Len(b)]
      BY <1>4, <1>10, <1>12, ConcatProperties, ZenonT(60)
    <2> QED
      BY <1>4, <1>10, <2>1
  <1>14. \A i \in 1 .. m : q[i] = b[i]
    BY <1>9, <1>13
  <1>15. ASSUME NEW i \in 1 .. 6 PROVE q[m + i] = z[i]
    <2>1. m + i \in 1 .. m + 6 /\ ~(m + i <= m) /\ (m + i) - m = i
      BY <1>9
    <2> QED
      BY <1>13, <2>1
  <1>16. q = p
    BY <1>0, <1>5, <1>8, <1>12
  <1>17. Planned(q)
    <2>1. CASE n = 0
      <3>1. k = 0 /\ m = 1
        BY <1>3, <1>8, <2>1
      <3>2. PICK r : r = <<"start", "end", "start", "delgroup", "master", "end", "erase">>
        OBVIOUS
      <3>3. /\ r \in Seq(Steps) /\ Len(r) = 7 /\ r[1] = "start" /\ r[2] = "end" /\ r[3] = "start"
            /\ r[4] = "delgroup" /\ r[5] = "master" /\ r[6] = "end" /\ r[7] = "erase"
        BY <3>2 DEF Steps
      <3>4. /\ q[1] = "start" /\ q[1 + 1] = z[1] /\ q[1 + 2] = z[2] /\ q[1 + 3] = z[3] /\ q[1 + 4] = z[4]
            /\ q[1 + 5] = z[5] /\ q[1 + 6] = z[6]
        BY <1>11, <1>14, <1>15, <3>1
      <3>5. Len(q) = 7
        BY <1>13, <3>1
      <3>6. ASSUME NEW i \in 1 .. 7 PROVE q[i] = r[i]
        <4>1. i \in {1, 2, 3, 4, 5, 6, 7}
          OBVIOUS
        <4> QED
          BY <1>4, <3>3, <3>4, <4>1
      <3>7. q = r
        BY <1>13, <3>3, <3>5, <3>6, SeqEqual
      <3>8. r \in Plans
        BY <3>2 DEF Plans
      <3> QED
        BY <3>7, <3>8 DEF Planned
    <2>2. CASE n # 0
      <3>1. k = 1 /\ m = n + 2
        BY <1>3, <1>8, <2>2
      <3>2. Len(q) = 1 + n + 7
        BY <1>13, <3>1
      <3>3. q[1] = "start"
        BY <1>9, <1>11, <1>14
      <3>4. ASSUME NEW i \in 1 + 1 .. 1 + n PROVE q[i] = "each"
        <4>1. i \in 2 .. n + 1 /\ i \in 1 .. m
          BY <1>9
        <4> QED
          BY <1>11, <1>14, <4>1
      <3>5. q[1 + n + 1] = "content"
        <4>1. 1 + n + 1 = n + 2 /\ n + 2 \in 1 .. m
          BY <3>1
        <4> QED
          BY <1>11, <1>14, <3>1, <4>1
      <3>6. ASSUME NEW i \in 1 .. 6 PROVE q[1 + n + 1 + i] = Removal[i]
        <4>1. 1 + n + 1 + i = m + i
          BY <3>1
        <4>2. z[i] = Removal[i]
          BY <1>0 DEF Removal
        <4> QED
          BY <1>15, <4>1, <4>2
      <3>7. Emptying(q, 1, n)
        BY <3>2, <3>3, <3>4, <3>5, <3>6 DEF Emptying
      <3>8. n \in 0 .. Len(q)
        BY <3>2
      <3> QED
        BY <3>7, <3>8 DEF Planned
    <2> QED
      BY <2>1, <2>2
  <1>18. DOMAIN q = 1 .. m + 6
    BY <1>13, LenProperties
  <1>19. {"delgroup", "master", "end", "erase"} \subseteq ToSet(q)
    <2>1. m + 1 \in DOMAIN q /\ m + 3 \in DOMAIN q /\ m + 4 \in DOMAIN q /\ m + 6 \in DOMAIN q
      BY <1>9, <1>18
    <2>2. q[m + 1] = "end" /\ q[m + 3] = "delgroup" /\ q[m + 4] = "master" /\ q[m + 6] = "erase"
      BY <1>4, <1>15
    <2> QED
      BY <2>1, <2>2 DEF ToSet
  <1>20. q # <<>> /\ Head(q) = "start"
    <2>1. q # <<>>
      BY <1>9, <1>13, EmptySeq
    <2>2. Head(q) = q[1]
      BY <1>9, <1>13, <2>1
    <2> QED
      BY <1>9, <1>11, <1>14, <2>1, <2>2
  <1>21. Fit(ToSet(q))
    BY <1>13, <1>17, PlannedFits
  <1>22. ToSet(q) \cap {"push", "addgroup", "add", "remove"} = {}
    BY <1>19, <1>21 DEF Fit
  <1> QED
    BY <1>13, <1>16, <1>17, <1>19, <1>20, <1>22

-----------------------------------------------------------------------------
(* The server's entries, the plan and the ack that is awaited *)

Early == TypeInv /\ Keyed /\ PlanInv /\ AckInv

LEMMA InboxMore ==
  ASSUME TypeInv, NEW m \in Messages, inbox' = Append(inbox, m)
  PROVE  /\ Len(inbox) \in Nat /\ Len(inbox') = Len(inbox) + 1
         /\ DOMAIN inbox = 1 .. Len(inbox) /\ DOMAIN inbox' = 1 .. Len(inbox) + 1
         /\ \A i \in 1 .. Len(inbox) : inbox'[i] = inbox[i]
         /\ inbox'[Len(inbox) + 1] = m
  <1>1. inbox \in Seq(Messages)
    BY DEF TypeInv, LinkT
  <1>2. inbox' \in Seq(Messages) /\ Len(inbox') = Len(inbox) + 1
        /\ (\A i \in 1 .. Len(inbox) : inbox'[i] = inbox[i]) /\ inbox'[Len(inbox) + 1] = m
    BY <1>1, AppendProperties
  <1>3. Len(inbox) \in Nat /\ DOMAIN inbox = 1 .. Len(inbox) /\ DOMAIN inbox' = 1 .. Len(inbox')
    BY <1>1, <1>2, LenProperties
  <1> QED
    BY <1>2, <1>3

LEMMA InboxRead ==
  ASSUME TypeInv, inbox # <<>>, inbox' = Tail(inbox)
  PROVE  /\ Len(inbox) \in Nat \ {0} /\ Len(inbox') = Len(inbox) - 1
         /\ DOMAIN inbox = 1 .. Len(inbox) /\ DOMAIN inbox' = 1 .. Len(inbox) - 1
         /\ \A i \in 1 .. Len(inbox) - 1 : inbox'[i] = inbox[i + 1]
         /\ Head(inbox) = inbox[1] /\ inbox[1] \in Messages
  <1>1. inbox \in Seq(Messages)
    BY DEF TypeInv, LinkT
  <1>2. /\ inbox' \in Seq(Messages) /\ Len(inbox') = Len(inbox) - 1
        /\ \A i \in 1 .. Len(inbox') : inbox'[i] = inbox[i + 1]
    BY <1>1, HeadTailProperties
  <1>3. /\ Len(inbox) \in Nat \ {0} /\ DOMAIN inbox = 1 .. Len(inbox) /\ DOMAIN inbox' = 1 .. Len(inbox')
        /\ Head(inbox) = inbox[1]
    BY <1>1, <1>2, LenProperties, EmptySeq
  <1>4. inbox[1] \in Messages
    BY <1>1, <1>3, ElementOfSeq
  <1> QED
    BY <1>2, <1>3, <1>4

LEMMA NoAckWhen == ASSUME AckInv, waiting = FALSE \/ got # "none" PROVE NoAck
  BY DEF AckInv, AckOne, NoAck

\* Between the steps, at the one to be taken, and at the ones that do not wait nothing is awaited.
LEMMA NotWaiting ==
  ASSUME TypeInv, AckInv, plan = <<>> \/ At("start") \/ At("end") \/ At("push") \/ At("erase")
  PROVE  waiting = FALSE
  <1>1. waiting \in BOOLEAN
    BY DEF TypeInv, AckT
  <1> QED
    BY <1>1 DEF AckInv, AckFor, At

LEMMA ShortPlans ==
  ASSUME NEW p \in {<<>>, <<"end">>, <<"content", "end">>}
  PROVE  p \in Seq(Steps) /\ p \in Plans /\ ToSet(p) \subseteq {"content", "end"}
  <1>1. CASE p = <<>>
    BY <1>1, ToSetEmpty, EmptySeq DEF Plans
  <1>2. CASE p = <<"end">>
    BY <1>2 DEF Plans, ToSet, Steps
  <1>3. CASE p = <<"content", "end">>
    BY <1>3 DEF Plans, ToSet, Steps
  <1> QED
    BY <1>1, <1>2, <1>3

\* What the plan is, in the words of the lemmas.
LEMMA PlanIs ==
  ASSUME TypeInv, PlanInv
  PROVE  plan \in Seq(Steps) /\ Planned(plan) /\ Fit(ToSet(plan))
  BY PlannedFits DEF TypeInv, PlanT, PlanInv

LEMMA AtStep ==
  ASSUME TypeInv, PlanInv, NEW step, At(step)
  PROVE  /\ plan # <<>> /\ Head(plan) = step /\ step \in ToSet(plan)
         /\ \A other : At(other) <=> other = step
         /\ \E q \in Seq(Steps) :
              /\ q = Tail(plan) /\ Planned(q) /\ Fit(ToSet(q)) /\ ToSet(plan) = {step} \cup ToSet(q)
              /\ step \in {"add", "remove", "privacy", "push", "erase"} => q = <<>>
              /\ step \notin {"start", "end", "each"} => step \notin ToSet(q)
              /\ step = "start" => ToSet(q) \cap {"end", "add", "remove"} # {}
  <1>1. plan # <<>> /\ Head(plan) = step /\ \A other : At(other) <=> other = step
    BY DEF At
  <1>2. plan \in Seq(Steps) /\ Planned(plan)
    BY PlanIs
  <1>3. PICK q : q = Tail(plan)
    OBVIOUS
  <1>4. /\ q \in Seq(Steps) /\ Planned(q) /\ ToSet(plan) = {step} \cup ToSet(q)
        /\ step \in {"add", "remove", "privacy", "push", "erase"} => q = <<>>
        /\ step \notin {"start", "end", "each"} => step \notin ToSet(q)
        /\ step = "start" => ToSet(q) \cap {"end", "add", "remove"} # {}
    BY <1>1, <1>2, <1>3, PlanTail
  <1>5. Fit(ToSet(q))
    BY <1>4, PlannedFits
  <1> QED
    BY <1>1, <1>3, <1>4, <1>5

\* A step that does not wait or has its answer: none is awaited any more.
LEMMA AckQuiet ==
  ASSUME waiting' = FALSE, NoAck', AckKept', Down'
  PROVE  AckInv'
  BY DEF AckInv, AckOne, AckFor, AckMaster, NoAck

LEMMA KeptShort ==
  ASSUME plan' \in {<<>>, <<"end">>, <<"content", "end">>}
  PROVE  AckKept' /\ PlanInv'
  <1>1. PICK p : p = plan'
    OBVIOUS
  <1>2. ToSet(p) \subseteq {"content", "end"} /\ p \in Plans
    BY <1>1, ShortPlans
  <1> QED
    BY <1>1, <1>2 DEF AckKept, PlanInv, Planned

\* What is left of the plan after a step that is none of a group.
LEMMA KeptTail ==
  ASSUME TypeInv, PlanInv, AckKept, NEW step, At(step), plan' = Tail(plan),
         \/ step \in {"start", "end", "each", "add", "remove", "privacy", "push", "erase"}
         \/ step = "content"
         \/ step \in {"addgroup", "delgroup"}
         \/ step = "master" /\ retflag' = "ok",
         step \in {"start", "end"} => retflag' = retflag
  PROVE  AckKept' /\ PlanInv'
  <1>1. PICK q \in Seq(Steps) :
              /\ q = Tail(plan) /\ Planned(q) /\ Fit(ToSet(q)) /\ ToSet(plan) = {step} \cup ToSet(q)
              /\ step \in {"add", "remove", "privacy", "push", "erase"} => q = <<>>
              /\ step \notin {"start", "end", "each"} => step \notin ToSet(q)
    BY AtStep
  <1>2. plan' = q
    BY <1>1
  <1>3. PlanInv'
    BY <1>1, <1>2 DEF PlanInv
  <1>4. Fit(ToSet(plan))
    BY PlanIs
  <1>5. ToSet(q) \cap {"push", "erase"} # {} /\ ToSet(q) \cap {"addgroup", "delgroup", "master"} = {}
          => retflag' = "ok"
    <2>1. CASE step \in {"start", "end"}
      BY <1>1, <2>1 DEF AckKept
    <2>2. CASE step \in {"add", "remove", "privacy", "push", "erase"}
      BY <1>1, <2>2, ToSetEmpty
    <2>3. CASE step \in {"each", "content"}
      BY <1>1, <1>4, <2>3 DEF Fit
    <2>4. CASE step \in {"addgroup", "delgroup"}
      BY <1>1, <1>4, <2>4 DEF Fit
    <2>5. CASE step = "master"
      BY <2>5
    <2> QED
      BY <2>1, <2>2, <2>3, <2>4, <2>5
  <1> QED
    BY <1>2, <1>3, <1>5 DEF AckKept

-----------------------------------------------------------------------------
(* Every step keeps the plan and the ack in order *)

LEMMA AskEarly ==
  ASSUME Early, NEW answer \in Answers \ {"none"}, Ask(answer), NoAck, up,
         NEW step \in Steps \ {"start", "end", "push", "erase"}, At(step),
         step = "master" => answer = "ok"
  PROVE  PlanInv' /\ AckInv'
  <1>1. /\ waiting' = TRUE /\ got' = "none" /\ plan' = plan /\ retflag' = retflag /\ up' = up /\ trans' = trans
        /\ inbox' = Append(inbox, [type |-> "ack", answer |-> answer])
    BY DEF Ask
  <1>2. PICK m \in Messages : m = [type |-> "ack", answer |-> answer]
    BY MessagesAre
  <1>3. /\ Len(inbox) \in Nat /\ DOMAIN inbox = 1 .. Len(inbox) /\ DOMAIN inbox' = 1 .. Len(inbox) + 1
        /\ \A i \in 1 .. Len(inbox) : inbox'[i] = inbox[i]
        /\ inbox'[Len(inbox) + 1] = m
    BY <1>1, <1>2, InboxMore DEF Early
  <1>4. \A i \in DOMAIN inbox' : inbox'[i].type = "ack" => i = Len(inbox) + 1 /\ inbox'[i].answer = answer
    BY <1>2, <1>3 DEF NoAck
  <1>5. AckOne'
    BY <1>1, <1>4 DEF AckOne
  <1>6. AckFor'
    BY <1>1 DEF AckFor, At
  <1>7. AckMaster'
    <2>1. \A other : At(other)' <=> other = step
      BY <1>1 DEF At
    <2> QED
      BY <1>1, <1>4, <2>1 DEF AckMaster
  <1>8. AckKept' /\ Down' /\ PlanInv'
    BY <1>1 DEF AckKept, Down, AckInv, Early, PlanInv
  <1> QED
    BY <1>5, <1>6, <1>7, <1>8 DEF AckInv

\* The connection and what is under way in it stay as they are.
LEMMA DownSame == ASSUME Down, UNCHANGED <<up, trans, inbox>> PROVE Down'
  BY DEF Down

LEMMA FailToSendEarly ==
  ASSUME Early, FailToSend, waiting = FALSE,
         NEW step \in Steps \ {"start", "end", "push", "erase"}, At(step)
  PROVE  PlanInv' /\ AckInv'
  <1>1. waiting' = FALSE /\ plan' = AfterFailure /\ UNCHANGED <<up, trans, inbox, retflag>>
    BY DEF FailToSend, Fail
  <1>2. NoAck'
    <2>1. NoAck
      BY NoAckWhen DEF Early
    <2> QED
      BY <1>1, <2>1 DEF NoAck
  <1>3. AckKept' /\ PlanInv'
    <2>1. CASE step = "each"
      <3>1. plan' = Tail(plan)
        BY <1>1, <2>1 DEF AfterFailure, At
      <3> QED
        BY <2>1, <3>1, KeptTail DEF Early, AckInv
    <2>2. CASE step # "each"
      <3>1. plan' \in {<<>>, <<"end">>, <<"content", "end">>}
        BY <1>1, <2>2 DEF AfterFailure, At
      <3> QED
        BY <3>1, KeptShort
    <2> QED
      BY <2>1, <2>2
  <1> QED
    BY <1>1, <1>2, <1>3, AckQuiet, DownSame DEF Early, AckInv

LEMMA LoginEarly == ASSUME Early, Login PROVE PlanInv' /\ AckInv'
  <1>1. plan = <<>> /\ up' = TRUE /\ UNCHANGED <<trans, inbox, plan, waiting, got, retflag>>
    BY DEF Login, ack
  <1>2. waiting = FALSE
    BY <1>1, NotWaiting DEF Early
  <1>3. NoAck
    BY <1>2, NoAckWhen DEF Early
  <1>4. NoAck' /\ waiting' = FALSE /\ AckKept' /\ Down' /\ PlanInv'
    BY <1>1, <1>2, <1>3 DEF NoAck, AckKept, Down, PlanInv, Early, AckInv
  <1> QED
    BY <1>4, AckQuiet

LEMMA DisconnectEarly == ASSUME Early, Disconnect PROVE PlanInv' /\ AckInv'
  <1>1. /\ up' = FALSE /\ inbox' = <<>> /\ trans' = FALSE
        /\ UNCHANGED <<plan, waiting, got, retflag>>
    BY DEF Disconnect, ack
  <1>2. DOMAIN inbox' = {}
    BY <1>1
  <1>3. AckOne' /\ AckFor' /\ AckMaster' /\ AckKept' /\ Down'
    BY <1>1, <1>2 DEF AckOne, AckFor, AckMaster, AckKept, Down, Early, AckInv, At
  <1> QED
    BY <1>1, <1>3 DEF AckInv, PlanInv, Early

LEMMA CallEarly ==
  ASSUME Early, NEW p \in Seq(Steps), Call(p), Planned(p),
         ToSet(p) \cap {"push", "erase"} # {} => ToSet(p) \cap {"addgroup", "delgroup"} # {}
  PROVE  PlanInv' /\ AckInv' /\ waiting = FALSE
  <1>1. plan = <<>> /\ plan' = p /\ UNCHANGED <<up, trans, inbox, waiting, got, retflag>>
    BY DEF Call, ack
  <1>2. waiting = FALSE
    BY <1>1, NotWaiting DEF Early
  <1>3. NoAck
    BY <1>2, NoAckWhen DEF Early
  <1>4. NoAck' /\ waiting' = FALSE /\ AckKept' /\ Down' /\ PlanInv'
    BY <1>1, <1>2, <1>3 DEF NoAck, AckKept, Down, PlanInv, Early, AckInv
  <1> QED
    BY <1>2, <1>4, AckQuiet

\* The plans of the calls other than removeGroup.
LEMMA CallsAre ==
  /\ \A p \in {<<"start", "add">>, <<"start", "remove">>, <<"privacy">>} :
       p \in Seq(Steps) /\ Planned(p) /\ ToSet(p) \subseteq {"start", "add", "remove", "privacy"}
  /\ \A p : p = <<"start", "addgroup", "master", "end", "push">> =>
       p \in Seq(Steps) /\ Planned(p) /\ ToSet(p) = {"start", "addgroup", "master", "end", "push"}
  <1>1. ASSUME NEW p, p = <<"start", "add">>
        PROVE  p \in Seq(Steps) /\ Planned(p) /\ ToSet(p) \subseteq {"start", "add", "remove", "privacy"}
    BY <1>1 DEF Steps, Planned, Plans, ToSet
  <1>2. ASSUME NEW p, p = <<"start", "remove">>
        PROVE  p \in Seq(Steps) /\ Planned(p) /\ ToSet(p) \subseteq {"start", "add", "remove", "privacy"}
    BY <1>2 DEF Steps, Planned, Plans, ToSet
  <1>3. ASSUME NEW p, p = <<"privacy">>
        PROVE  p \in Seq(Steps) /\ Planned(p) /\ ToSet(p) \subseteq {"start", "add", "remove", "privacy"}
    BY <1>3 DEF Steps, Planned, Plans, ToSet
  <1>4. ASSUME NEW p, p = <<"start", "addgroup", "master", "end", "push">>
        PROVE  p \in Seq(Steps) /\ Planned(p) /\ ToSet(p) = {"start", "addgroup", "master", "end", "push"}
    BY <1>4 DEF Steps, Planned, Plans, ToSet
  <1> QED
    BY <1>1, <1>2, <1>3, <1>4

\* What removeGroup plans.
LEMMA removeGroupIs ==
  ASSUME TypeInv, NEW n \in Names, removeGroup(n)
  PROVE  /\ gr_ind' \in 1 .. Len(ContactListGroups) /\ gen' = ContactListGroups[gr_ind']
         /\ UNCHANGED <<uen, wish>>
         /\ \E p \in Seq(Steps) :
              /\ Call(p) /\ Planned(p) /\ p # <<>> /\ Head(p) = "start"
              /\ {"delgroup", "master", "end", "erase"} \subseteq ToSet(p)
              /\ ToSet(p) \cap {"push", "addgroup", "add", "remove"} = {}
  <1>1. ContactListUins \in Seq(Buddies)
    BY DEF TypeInv, ListT
  <1> DEFINE out == {i \in DOMAIN ContactListUins : ContactListUins[i].group # gen'.id}
             in  == Without(ContactListUins, out)
             c   == IF in = <<>> THEN <<>> ELSE <<"content">>
             steps == <<"start">> \o [i \in DOMAIN in |-> "each"] \o c
                      \o <<"end", "start", "delgroup", "master", "end", "erase">>
  <1>2. /\ gr_ind' = findCLGroup(n) /\ gr_ind' # 0 /\ gen' = ContactListGroups[gr_ind']
        /\ UNCHANGED <<uen, wish>> /\ Call(steps)
    BY DEF removeGroup
  <1>3. gr_ind' \in 1 .. Len(ContactListGroups)
    BY <1>2, FirstOfGroup DEF First
  <1>4. in \in Seq(Buddies)
    BY <1>1, WithoutIs
  <1> HIDE DEF in
  <1>5. PICK k \in Nat : k = Len(in) /\ DOMAIN in = 1 .. k
    BY <1>4, LenProperties
  <1>6. in = <<>> <=> k = 0
    BY <1>4, <1>5, EmptySeq
  <1>7. c \in {<<>>, <<"content">>} /\ (c = <<>> <=> k = 0)
    BY <1>6
  <1>8. steps = <<"start">> \o [i \in 1 .. k |-> "each"] \o c
                \o <<"end", "start", "delgroup", "master", "end", "erase">>
    BY <1>5
  <1> HIDE DEF c, steps
  <1>9. /\ steps \in Seq(Steps) /\ steps # <<>> /\ Head(steps) = "start" /\ Planned(steps)
        /\ {"delgroup", "master", "end", "erase"} \subseteq ToSet(steps)
        /\ ToSet(steps) \cap {"push", "addgroup", "add", "remove"} = {}
    BY <1>7, <1>8, GroupPlanIs
  <1> QED
    BY <1>2, <1>3, <1>9

LEMMA TransactEarly == ASSUME Early, Transact PROVE PlanInv' /\ AckInv'
  <1>1. PICK step \in {"start", "end"} : At(step)
    BY DEF Transact
  <1>2. /\ plan' = (IF up THEN Tail(plan) ELSE <<>>) /\ UNCHANGED <<inbox, up, waiting, got, retflag>>
        /\ trans' = IF up THEN At("start") ELSE trans
    BY DEF Transact, ack
  <1>3. waiting = FALSE
    BY <1>1, NotWaiting DEF Early
  <1>4. NoAck
    BY <1>3, NoAckWhen DEF Early
  <1>5. AckKept' /\ PlanInv'
    <2>1. CASE up
      BY <1>1, <1>2, <2>1, KeptTail DEF Early, AckInv
    <2>2. CASE ~up
      BY <1>2, <2>2, KeptShort
    <2> QED
      BY <2>1, <2>2
  <1>6. NoAck' /\ waiting' = FALSE /\ Down'
    BY <1>2, <1>3, <1>4 DEF NoAck, Down, Early, AckInv
  <1> QED
    BY <1>5, <1>6, AckQuiet

LEMMA sub_ssi_addContactEarly == ASSUME Early, sub_ssi_addContact PROVE PlanInv' /\ AckInv'
  <1>1. At("add") /\ ~waiting
    BY DEF sub_ssi_addContact
  <1>2. waiting = FALSE /\ "add" \in Steps \ {"start", "end", "push", "erase"}
    BY <1>1 DEF Early, TypeInv, AckT, Steps
  <1>3. CASE FailToSend
    BY <1>1, <1>2, <1>3, FailToSendEarly
  <1>4. CASE up /\ \E e : AskAdd(e)
    <2>1. PICK answer \in {"ok", "needauth", "refused"} : Ask(answer)
      BY <1>4 DEF AskAdd
    <2>2. answer \in Answers \ {"none"}
      BY DEF Answers
    <2> QED
      BY <1>1, <1>2, <1>4, <2>1, <2>2, AskEarly, NoAckWhen DEF Early
  <1> QED
    BY <1>3, <1>4 DEF sub_ssi_addContact

\* What the requests but that of a contact come to: a failure to send or an answer that is awaited.
LEMMA RequestEarly ==
  ASSUME Early, ~waiting,
         NEW step \in {"remove", "each", "content", "addgroup", "delgroup", "master", "privacy"}, At(step),
         FailToSend \/ (up /\ \E answer \in {"ok", "refused"} :
                          Ask(answer) /\ (step = "master" => answer = "ok"))
  PROVE  PlanInv' /\ AckInv'
  <1>1. waiting = FALSE /\ step \in Steps \ {"start", "end", "push", "erase"}
    BY DEF Early, TypeInv, AckT, Steps
  <1>2. CASE FailToSend
    BY <1>1, <1>2, FailToSendEarly
  <1>3. CASE up /\ \E answer \in {"ok", "refused"} : Ask(answer) /\ (step = "master" => answer = "ok")
    <2>1. PICK answer \in {"ok", "refused"} : Ask(answer) /\ (step = "master" => answer = "ok")
      BY <1>3
    <2>2. answer \in Answers \ {"none"}
      BY DEF Answers
    <2> QED
      BY <1>1, <1>3, <2>1, <2>2, AskEarly, NoAckWhen DEF Early
  <1> QED
    BY <1>2, <1>3

LEMMA RequestsEarly ==
  ASSUME Early, \/ sub_ssi_removeContact \/ updateSSIGroupContent \/ updateMasterGroup
                \/ askAddGroup \/ askDeleteGroup \/ askPrivacy
  PROVE  PlanInv' /\ AckInv'
  <1>1. CASE sub_ssi_removeContact
    BY <1>1, RequestEarly DEF sub_ssi_removeContact
  <1>2. CASE updateSSIGroupContent
    BY <1>2, RequestEarly DEF updateSSIGroupContent
  <1>3. CASE updateMasterGroup
    BY <1>3, RequestEarly DEF updateMasterGroup
  <1>4. CASE askAddGroup
    BY <1>4, RequestEarly DEF askAddGroup
  <1>5. CASE askDeleteGroup
    BY <1>5, RequestEarly DEF askDeleteGroup
  <1>6. CASE askPrivacy
    BY <1>6, RequestEarly DEF askPrivacy
  <1> QED
    BY <1>1, <1>2, <1>3, <1>4, <1>5, <1>6

LEMMA ackAddEarly == ASSUME Early, ackAdd PROVE PlanInv' /\ AckInv'
  <1>1. At("add") /\ Acked /\ got # "none"
    BY DEF ackAdd, Acked
  <1>2. NoAck
    BY <1>1, NoAckWhen DEF Early
  <1>3. waiting = TRUE /\ "add" \in Steps \ {"start", "end", "push", "erase"}
    BY <1>1 DEF Early, TypeInv, AckT, Steps, Acked
  <1>4. CASE got = "needauth" /\ ~uen.wait
    <2>1. CASE up
      <3>1. PICK answer \in {"ok", "needauth", "refused"} : Ask(answer)
        BY <1>4, <2>1 DEF ackAdd, AskAdd
      <3>2. answer \in Answers \ {"none"}
        BY DEF Answers
      <3> QED
        BY <1>1, <1>2, <1>3, <2>1, <3>1, <3>2, AskEarly
    <2>2. CASE ~up
      <3>1. waiting' = FALSE /\ plan' = <<"end">> /\ UNCHANGED <<up, trans, inbox, retflag>>
        BY <1>1, <1>4, <2>2 DEF ackAdd, FailToSend, Fail, AfterFailure
      <3>2. NoAck'
        BY <1>2, <3>1 DEF NoAck
      <3> QED
        BY <3>1, <3>2, KeptShort, AckQuiet, DownSame DEF Early, AckInv
    <2> QED
      BY <2>1, <2>2
  <1>5. CASE ~(got = "needauth" /\ ~uen.wait)
    <2>1. /\ waiting' = FALSE /\ UNCHANGED <<up, trans, inbox>>
          /\ plan' \in {<<>>, <<"end">>, <<"content", "end">>}
      BY <1>5 DEF ackAdd
    <2>2. NoAck'
      BY <1>2, <2>1 DEF NoAck
    <2> QED
      BY <2>1, <2>2, KeptShort, AckQuiet, DownSame DEF Early, AckInv
  <1> QED
    BY <1>4, <1>5

LEMMA ackRemoveEarly == ASSUME Early, ackRemove PROVE PlanInv' /\ AckInv'
  <1>1. (At("remove") \/ At("each")) /\ got # "none"
    BY DEF ackRemove, Acked
  <1>2. NoAck
    BY <1>1, NoAckWhen DEF Early
  <1>3. waiting' = FALSE /\ UNCHANGED <<up, trans, inbox>> /\ plan' = AfterRemove
    BY DEF ackRemove
  <1>4. AckKept' /\ PlanInv'
    <2>1. CASE At("remove")
      <3>1. plan' \in {<<>>, <<"end">>, <<"content", "end">>}
        BY <1>3, <2>1 DEF AfterRemove
      <3> QED
        BY <3>1, KeptShort
    <2>2. CASE At("each")
      <3>1. plan' = Tail(plan)
        BY <1>3, <2>2 DEF AfterRemove, At
      <3> QED
        BY <2>2, <3>1, KeptTail DEF Early, AckInv
    <2> QED
      BY <1>1, <2>1, <2>2
  <1>5. NoAck'
    BY <1>2, <1>3 DEF NoAck
  <1> QED
    BY <1>3, <1>4, <1>5, AckQuiet, DownSame DEF Early, AckInv

LEMMA ackGroupEarly == ASSUME Early, ackGroup PROVE PlanInv' /\ AckInv'
  <1>1. PICK step \in {"content", "addgroup", "delgroup", "master"} : At(step)
    BY DEF ackGroup
  <1>2. got # "none" /\ waiting
    BY DEF ackGroup, Acked
  <1>3. NoAck
    BY <1>2, NoAckWhen DEF Early
  <1>4. waiting' = FALSE /\ UNCHANGED <<up, trans, inbox>> /\ plan' = Tail(plan) /\ retflag' = got
    BY DEF ackGroup
  <1>5. step = "master" => retflag' = "ok"
    BY <1>1, <1>2, <1>4 DEF Early, AckInv, AckMaster
  <1>6. AckKept' /\ PlanInv'
    BY <1>1, <1>4, <1>5, KeptTail DEF Early, AckInv
  <1>7. NoAck'
    BY <1>3, <1>4 DEF NoAck
  <1> QED
    BY <1>4, <1>6, <1>7, AckQuiet, DownSame DEF Early, AckInv

LEMMA ackPrivacyEarly == ASSUME Early, ackPrivacy PROVE PlanInv' /\ AckInv'
  <1>1. got # "none" /\ waiting' = FALSE /\ UNCHANGED <<up, trans, inbox>> /\ plan' = <<>>
    BY DEF ackPrivacy, Acked
  <1>2. NoAck
    BY <1>1, NoAckWhen DEF Early
  <1>3. NoAck'
    BY <1>1, <1>2 DEF NoAck
  <1> QED
    BY <1>1, <1>3, KeptShort, AckQuiet, DownSame DEF Early, AckInv

LEMMA endGroupEarly == ASSUME Early, endGroup PROVE PlanInv' /\ AckInv'
  <1>1. (At("push") \/ At("erase")) /\ UNCHANGED <<up, trans, inbox, waiting, got, retflag>> /\ plan' = <<>>
    BY DEF endGroup, ack
  <1>2. waiting = FALSE
    BY <1>1, NotWaiting DEF Early
  <1>3. NoAck
    BY <1>2, NoAckWhen DEF Early
  <1>4. NoAck'
    BY <1>1, <1>3 DEF NoAck
  <1> QED
    BY <1>1, <1>2, <1>4, KeptShort, AckQuiet, DownSame DEF Early, AckInv

LEMMA crashEarly == ASSUME Early, crash PROVE PlanInv' /\ AckInv'
  <1>1. plan' = <<>> /\ waiting' = FALSE /\ up' = FALSE /\ inbox' = <<>> /\ trans' = FALSE
    BY DEF crash
  <1>2. NoAck' /\ Down'
    BY <1>1 DEF NoAck, Down
  <1> QED
    BY <1>1, <1>2, KeptShort, AckQuiet

\* The inbox without the ack that nobody waits for any more.
LEMMA WithoutAcks ==
  ASSUME TypeInv, inbox' = Without(inbox, {i \in DOMAIN inbox : inbox[i].type = "ack"})
  PROVE  NoAck' /\ (inbox = <<>> => inbox' = <<>>) /\ inbox' \in Seq(Messages)
  <1> DEFINE gone == {i \in DOMAIN inbox : inbox[i].type = "ack"}
  <1>1. inbox \in Seq(Messages) /\ DOMAIN inbox = 1 .. Len(inbox)
    BY LenProperties DEF TypeInv, LinkT
  <1>2. \A i \in (1 .. Len(inbox)) \ gone : inbox[i].type # "ack"
    BY <1>1
  <1> HIDE DEF gone
  <1>3. PICK W : W = inbox' /\ W = Without(inbox, gone)
    BY DEF gone
  <1>4. W \in Seq(Messages) /\ ToSet(W) = {inbox[i] : i \in (1 .. Len(inbox)) \ gone}
    BY <1>1, <1>3, WithoutKeeps
  <1>5. \A i \in DOMAIN W : W[i] \in ToSet(W)
    BY DEF ToSet
  <1>6. \A i \in DOMAIN W : W[i].type # "ack"
    BY <1>2, <1>4, <1>5
  <1>7. ASSUME inbox = <<>> PROVE W = <<>>
    <2>1. Len(inbox) = 0
      BY <1>7
    <2>2. ToSet(W) = {}
      BY <1>4, <2>1
    <2>3. W # <<>> => 1 \in DOMAIN W
      <3>1. DOMAIN W = 1 .. Len(W) /\ (W # <<>> => Len(W) \in Nat \ {0})
        BY <1>4, LenProperties, EmptySeq
      <3> QED
        BY <3>1
    <2> QED
      BY <1>5, <2>2, <2>3
  <1> QED
    BY <1>3, <1>4, <1>6, <1>7 DEF NoAck

LEMMA giveUpEarly == ASSUME Early, giveUp PROVE PlanInv' /\ AckInv'
  <1>1. /\ waiting /\ waiting' = FALSE /\ plan' = AfterFailure /\ UNCHANGED <<up, trans, retflag>>
        /\ inbox' = Without(inbox, {i \in DOMAIN inbox : inbox[i].type = "ack"})
    BY DEF giveUp, Fail
  <1>2. PICK step \in Steps \ {"start", "end", "push", "erase"} : At(step)
    BY <1>1 DEF Early, AckInv, AckFor
  <1>3. NoAck' /\ (inbox = <<>> => inbox' = <<>>)
    BY <1>1, WithoutAcks DEF Early
  <1>4. Down'
    BY <1>1, <1>3 DEF Down, Early, AckInv
  <1>5. AckKept' /\ PlanInv'
    <2>1. CASE step = "each"
      <3>1. plan' = Tail(plan)
        BY <1>1, <1>2, <2>1 DEF AfterFailure, At
      <3> QED
        BY <1>2, <2>1, <3>1, KeptTail DEF Early, AckInv
    <2>2. CASE step # "each"
      <3>1. plan' \in {<<>>, <<"end">>, <<"content", "end">>}
        BY <1>1, <1>2, <2>2 DEF AfterFailure, At
      <3> QED
        BY <3>1, KeptShort
    <2> QED
      BY <2>1, <2>2
  <1> QED
    BY <1>1, <1>3, <1>4, <1>5, AckQuiet

\* A message is read, an ack by the edit that waits for it.
LEMMA ReadEarly ==
  ASSUME Early, inbox # <<>>, inbox' = Tail(inbox),
         UNCHANGED <<trans, up, plan, waiting, retflag>>,
         got' = IF Head(inbox).type = "ack" /\ waiting THEN Head(inbox).answer ELSE got
  PROVE  PlanInv' /\ AckInv'
  <1>1. PICK n \in Nat \ {0} : n = Len(inbox)
    BY InboxRead DEF Early
  <1>2. /\ DOMAIN inbox = 1 .. n /\ DOMAIN inbox' = 1 .. n - 1
        /\ \A i \in 1 .. n - 1 : inbox'[i] = inbox[i + 1]
        /\ Head(inbox) = inbox[1]
    BY <1>1, InboxRead DEF Early
  <1>3. \A i \in 1 .. n - 1 : i + 1 \in 1 .. n /\ i + 1 # 1
    OBVIOUS
  <1>4. 1 \in 1 .. n
    OBVIOUS
  <1>5. Head(inbox).type = "ack" => NoAck'
    BY <1>2, <1>3, <1>4 DEF NoAck, Early, AckInv, AckOne
  <1>6. AckOne'
    <2>1. CASE Head(inbox).type = "ack"
      BY <1>5, <2>1 DEF AckOne, NoAck
    <2>2. CASE Head(inbox).type # "ack"
      <3> SUFFICES ASSUME NEW i \in 1 .. n - 1, inbox'[i].type = "ack"
                   PROVE  waiting' /\ got' = "none" /\ \A j \in 1 .. n - 1 : inbox'[j].type = "ack" => i = j
        BY <1>2 DEF AckOne
      <3>1. /\ i + 1 \in DOMAIN inbox /\ inbox[i + 1].type = "ack"
        BY <1>2, <1>3
      <3>2. waiting /\ got = "none" /\ \A j \in DOMAIN inbox : inbox[j].type = "ack" => i + 1 = j
        BY <3>1 DEF Early, AckInv, AckOne
      <3>3. ASSUME NEW j \in 1 .. n - 1, inbox'[j].type = "ack" PROVE i = j
        <4>1. j + 1 \in DOMAIN inbox /\ inbox[j + 1].type = "ack"
          BY <1>2, <1>3, <3>3
        <4>2. i + 1 = j + 1
          BY <3>2, <4>1
        <4> QED
          BY <4>2
      <3> QED
        BY <2>2, <3>2, <3>3
    <2> QED
      BY <2>1, <2>2
  <1>7. AckFor'
    BY DEF AckFor, At, Early, AckInv
  <1>8. AckMaster'
    <2>1. \A other : At(other)' <=> At(other)
      BY DEF At
    <2>2. At("master") /\ waiting => \A i \in DOMAIN inbox' : inbox'[i].type = "ack" => inbox'[i].answer = "ok"
      BY <1>2, <1>3 DEF Early, AckInv, AckMaster
    <2>3. At("master") /\ waiting => got' \in {"none", "ok"}
      BY <1>2, <1>4 DEF Early, AckInv, AckMaster
    <2> QED
      BY <2>1, <2>2, <2>3 DEF AckMaster
  <1>9. AckKept' /\ PlanInv'
    BY DEF AckKept, Early, AckInv, PlanInv
  <1>10. Down'
    BY DEF Down, Early, AckInv
  <1> QED
    BY <1>6, <1>7, <1>8, <1>9, <1>10 DEF AckInv

LEMMA readAckEarly == ASSUME Early, readAck PROVE PlanInv' /\ AckInv'
  BY ReadEarly DEF readAck

LEMMA NotifiedEarly ==
  ASSUME Early, NEW type, Notified(type), type # "ack"
  PROVE  PlanInv' /\ AckInv'
  BY ReadEarly DEF Notified, ack

LEMMA ReaderEarly == ASSUME Early, Reader PROVE PlanInv' /\ AckInv'
  BY readAckEarly, NotifiedEarly DEF Reader, parseSSIAddNotify, parseSSIDeleteNotify

LEMMA ForeignEarly ==
  ASSUME Early, Foreign, NEW m \in Messages, m.type # "ack", Notify(m)
  PROVE  PlanInv' /\ AckInv'
  <1>1. UNCHANGED <<trans, up, plan, waiting, got, retflag>>
    BY DEF Foreign, ack
  <1>2. AckFor' /\ AckKept' /\ PlanInv' /\ \A other : At(other)' <=> At(other)
    BY <1>1 DEF AckFor, AckKept, PlanInv, Early, AckInv, At
  <1>3. CASE up
    <2>1. PICK n \in Nat : n = Len(inbox) /\ DOMAIN inbox = 1 .. n
      BY LenProperties DEF Early, TypeInv, LinkT
    <2>2. inbox' = Append(inbox, m)
      BY <1>3 DEF Notify
    <2>3. /\ DOMAIN inbox' = 1 .. n + 1 /\ (\A i \in 1 .. n : inbox'[i] = inbox[i]) /\ inbox'[n + 1] = m
      BY <2>1, <2>2, InboxMore DEF Early
    <2>4. \A i \in 1 .. n + 1 : inbox'[i].type = "ack" => i \in DOMAIN inbox /\ inbox'[i] = inbox[i]
      BY <2>1, <2>3
    <2>5. AckOne' /\ AckMaster' /\ Down'
      BY <1>1, <1>2, <1>3, <2>3, <2>4 DEF AckOne, AckMaster, Down, Early, AckInv
    <2> QED
      BY <1>2, <2>5 DEF AckInv
  <1>4. CASE ~up
    <2>1. inbox' = inbox
      BY <1>4 DEF Notify
    <2> QED
      BY <1>1, <1>2, <2>1 DEF AckInv, AckOne, AckMaster, Down, Early
  <1> QED
    BY <1>3, <1>4

LEMMA OthersEarly == ASSUME Early, Others PROVE PlanInv' /\ AckInv'
  <1>0. srv_buddies \subseteq Buddies /\ srv_groups \subseteq Groups
    BY DEF Early, TypeInv, SrvT
  <1>1. ASSUME NEW b \in Buddies, otherAdds(b) PROVE PlanInv' /\ AckInv'
    <2>1. PICK m \in Messages : m = [type |-> "buddy", buddy |-> b]
      BY MessagesAre
    <2> QED
      BY <1>1, <2>1, ForeignEarly DEF otherAdds
  <1>2. ASSUME NEW b \in srv_buddies, otherGrants(b) PROVE PlanInv' /\ AckInv'
    <2>1. PICK c : c = [b EXCEPT !.wait = FALSE]
      OBVIOUS
    <2>2. c \in Buddies
      BY <1>0, <2>1 DEF Buddies
    <2>3. PICK m \in Messages : m = [type |-> "buddy", buddy |-> c]
      BY <2>2, MessagesAre
    <2> QED
      BY <1>2, <2>1, <2>3, ForeignEarly DEF otherGrants
  <1>3. ASSUME NEW b \in srv_buddies, otherDeletes(b) PROVE PlanInv' /\ AckInv'
    <2>1. PICK m \in Messages : m = [type |-> "nobuddy", buddy |-> b]
      BY <1>0, MessagesAre
    <2> QED
      BY <1>3, <2>1, ForeignEarly DEF otherDeletes
  <1>4. ASSUME NEW g \in Groups, otherAddsGroup(g) PROVE PlanInv' /\ AckInv'
    <2>1. PICK m \in Messages : m = [type |-> "group", group |-> g]
      BY MessagesAre
    <2> QED
      BY <1>4, <2>1, ForeignEarly DEF otherAddsGroup
  <1>5. ASSUME NEW g \in srv_groups, otherDeletesGroup(g) PROVE PlanInv' /\ AckInv'
    <2>1. PICK m \in Messages : m = [type |-> "nogroup", group |-> g]
      BY <1>0, MessagesAre
    <2> QED
      BY <1>5, <2>1, ForeignEarly DEF otherDeletesGroup
  <1>6. ASSUME NEW p \in Privacy, otherSetsPrivacy(p) PROVE PlanInv' /\ AckInv'
    <2>1. PICK m \in Messages : m = [type |-> "privacy"]
      BY MessagesAre
    <2> QED
      BY <1>6, <2>1, ForeignEarly DEF otherSetsPrivacy
  <1> QED
    BY <1>1, <1>2, <1>3, <1>4, <1>5, <1>6 DEF Others

-----------------------------------------------------------------------------
(* The server's entries have different ids and contacts, and each its group *)

KeyedSet(B, G) ==
  /\ \A b, c \in B : b.item = c.item \/ b.uin = c.uin => b = c
  /\ \A g, h \in G : g.id = h.id => g = h
  /\ \A b \in B : \E g \in G : g.id = b.group

LEMMA KeyedMore ==
  ASSUME NEW B, NEW G, KeyedSet(B, G), NEW e,
         \A b \in B : b.uin # e.uin /\ b.item # e.item, \E g \in G : g.id = e.group
  PROVE  KeyedSet(B \cup {e}, G)
  BY DEF KeyedSet

LEMMA KeyedLess ==
  ASSUME NEW B, NEW G, KeyedSet(B, G), NEW C \in SUBSET B
  PROVE  KeyedSet(C, G)
  BY DEF KeyedSet

LEMMA KeyedMoreGroups ==
  ASSUME NEW B, NEW G, KeyedSet(B, G), NEW g, \A h \in G : h.id # g.id
  PROVE  KeyedSet(B, G \cup {g})
  BY DEF KeyedSet

LEMMA KeyedLessGroups ==
  ASSUME NEW B, NEW G, KeyedSet(B, G), NEW g, \A b \in B : b.group # g.id
  PROVE  KeyedSet(B, G \ {g})
  BY DEF KeyedSet

LEMMA KeyedInit == Init => Keyed
  BY ContactListAssumption DEF Init, Keyed

LEMMA AskAddIs ==
  ASSUME NEW e, AskAdd(e)
  PROVE  \E answer \in {"ok", "needauth", "refused"} :
           /\ answer = "ok" => Acceptable(e)
           /\ Ask(answer) /\ uen' = e
           /\ srv_buddies' = IF answer = "ok" THEN srv_buddies \cup {e} ELSE srv_buddies
           /\ UNCHANGED <<srv_groups, srv_members, srv_privacy, uins, gen, uen_ind, gr_ind, wish, faults>>
  BY DEF AskAdd, found

LEMMA AcceptableIs ==
  ASSUME NEW e, Acceptable(e)
  PROVE  /\ \A b \in srv_buddies : b.uin # e.uin /\ b.item # e.item
         /\ \E g \in srv_groups : g.id = e.group
  BY DEF Acceptable, Free

LEMMA AskAddKeyed == ASSUME Keyed, NEW e, AskAdd(e) PROVE Keyed'
  <1>1. PICK answer \in {"ok", "needauth", "refused"} :
          /\ answer = "ok" => Acceptable(e)
          /\ srv_buddies' = IF answer = "ok" THEN srv_buddies \cup {e} ELSE srv_buddies
          /\ srv_groups' = srv_groups
    BY AskAddIs
  <1>2. KeyedSet(srv_buddies, srv_groups)
    BY DEF Keyed, KeyedSet
  <1>3. KeyedSet(srv_buddies', srv_groups')
    <2>1. CASE answer = "ok"
      BY <1>1, <1>2, <2>1, AcceptableIs, KeyedMore
    <2>2. CASE answer # "ok"
      BY <1>1, <1>2, <2>2
    <2> QED
      BY <2>1, <2>2
  <1> QED
    BY <1>3 DEF Keyed, KeyedSet

LEMMA RemoveKeyed == ASSUME Keyed, sub_ssi_removeContact PROVE Keyed'
  <1>1. srv_buddies' \subseteq srv_buddies /\ srv_groups' = srv_groups
    <2>1. CASE FailToSend
      BY <2>1 DEF FailToSend, server
    <2>2. CASE ~FailToSend
      BY <2>2 DEF sub_ssi_removeContact
    <2> QED
      BY <2>1, <2>2
  <1>2. KeyedSet(srv_buddies', srv_groups')
    BY <1>1, KeyedLess DEF Keyed, KeyedSet
  <1> QED
    BY <1>2 DEF Keyed, KeyedSet

LEMMA GroupsKeyed == ASSUME Keyed, askAddGroup \/ askDeleteGroup PROVE Keyed'
  <1>1. KeyedSet(srv_buddies, srv_groups)
    BY DEF Keyed, KeyedSet
  <1>2. srv_buddies' = srv_buddies
    BY DEF askAddGroup, askDeleteGroup, FailToSend, server
  <1>3. \/ srv_groups' = srv_groups
        \/ srv_groups' = srv_groups \cup {gen} /\ \A h \in srv_groups : h.id # gen.id
        \/ srv_groups' = srv_groups \ {gen} /\ \A b \in srv_buddies : b.group # gen.id
    <2>1. CASE FailToSend
      BY <2>1 DEF FailToSend, server
    <2>2. CASE ~FailToSend
      BY <2>2 DEF askAddGroup, askDeleteGroup
    <2> QED
      BY <2>1, <2>2
  <1>4. KeyedSet(srv_buddies', srv_groups')
    BY <1>1, <1>2, <1>3, KeyedMoreGroups, KeyedLessGroups
  <1> QED
    BY <1>4 DEF Keyed, KeyedSet

LEMMA OthersKeyed == ASSUME TypeInv, Keyed, Others PROVE Keyed'
  <1>0. KeyedSet(srv_buddies, srv_groups) /\ srv_buddies \subseteq Buddies
    BY DEF Keyed, KeyedSet, TypeInv, SrvT
  <1>1. ASSUME NEW b \in Buddies, otherAdds(b) PROVE KeyedSet(srv_buddies', srv_groups')
    BY <1>0, <1>1, AcceptableIs, KeyedMore DEF otherAdds
  <1>2. ASSUME NEW b \in srv_buddies, otherGrants(b) PROVE KeyedSet(srv_buddies', srv_groups')
    <2>1. PICK c : c = [b EXCEPT !.wait = FALSE]
      OBVIOUS
    <2>2. c.item = b.item /\ c.uin = b.uin /\ c.group = b.group
      BY <1>0, <2>1 DEF Buddies
    <2>3. KeyedSet(srv_buddies \ {b}, srv_groups)
      BY <1>0, KeyedLess
    <2>4. /\ \A d \in srv_buddies \ {b} : d.uin # c.uin /\ d.item # c.item
          /\ \E g \in srv_groups : g.id = c.group
      BY <1>0, <2>2 DEF KeyedSet
    <2>5. KeyedSet((srv_buddies \ {b}) \cup {c}, srv_groups)
      BY <2>3, <2>4, KeyedMore
    <2> QED
      BY <1>2, <2>1, <2>5 DEF otherGrants
  <1>3. ASSUME NEW b \in srv_buddies, otherDeletes(b) PROVE KeyedSet(srv_buddies', srv_groups')
    BY <1>0, <1>3, KeyedLess DEF otherDeletes
  <1>4. ASSUME NEW g \in Groups, otherAddsGroup(g) PROVE KeyedSet(srv_buddies', srv_groups')
    BY <1>0, <1>4, KeyedMoreGroups DEF otherAddsGroup
  <1>5. ASSUME NEW g \in srv_groups, otherDeletesGroup(g) PROVE KeyedSet(srv_buddies', srv_groups')
    BY <1>0, <1>5, KeyedLessGroups DEF otherDeletesGroup
  <1>6. ASSUME NEW p \in Privacy, otherSetsPrivacy(p) PROVE KeyedSet(srv_buddies', srv_groups')
    BY <1>0, <1>6 DEF otherSetsPrivacy
  <1> QED
    BY <1>1, <1>2, <1>3, <1>4, <1>5, <1>6 DEF Others, Keyed, KeyedSet

\* The steps that do not change what there is on the server.
LEMMA KeyedSame == ASSUME Keyed, UNCHANGED <<srv_buddies, srv_groups>> PROVE Keyed'
  BY DEF Keyed

LEMMA KeyedNext == ASSUME TypeInv, Keyed, [Next]_vars PROVE Keyed'
  <1>1. CASE \/ Login \/ Disconnect \/ Menu \/ Reader \/ UNCHANGED vars
    <2>1. UNCHANGED server
      <3>1. CASE Menu
        BY <3>1 DEF Menu, Call, addContact, removeContact, addGroup, removeGroup, setMyPrivacyStatus
      <3>2. CASE Reader
        BY <3>2 DEF Reader, readAck, parseSSIAddNotify, parseSSIDeleteNotify, Notified
      <3> QED
        BY <1>1, <3>1, <3>2 DEF Login, Disconnect, vars
    <2> QED
      BY <2>1, KeyedSame DEF server
  <1>2. CASE sub_ssi_addContact \/ (ackAdd /\ got = "needauth" /\ ~uen.wait)
    <2>1. FailToSend \/ \E e : AskAdd(e)
      BY <1>2 DEF sub_ssi_addContact, ackAdd
    <2> QED
      BY <2>1, AskAddKeyed, KeyedSame DEF FailToSend, server
  <1>3. CASE \/ Transact \/ updateSSIGroupContent \/ updateMasterGroup \/ askPrivacy
             \/ (ackAdd /\ ~(got = "needauth" /\ ~uen.wait))
             \/ ackRemove \/ ackGroup \/ ackPrivacy \/ endGroup \/ crash \/ giveUp
    <2>1. UNCHANGED <<srv_buddies, srv_groups>>
      BY <1>3 DEF Transact, updateSSIGroupContent, updateMasterGroup, askPrivacy, ackAdd, ackRemove,
         ackGroup, ackPrivacy, endGroup, crash, giveUp, FailToSend, server
    <2> QED
      BY <2>1, KeyedSame
  <1> QED
    BY <1>1, <1>2, <1>3, RemoveKeyed, GroupsKeyed, OthersKeyed DEF Next, Edit

LEMMA EarlyInit == Init => Early
  <1> SUFFICES ASSUME Init PROVE Early
    OBVIOUS
  <1>1. plan = <<>> /\ inbox = <<>> /\ waiting = FALSE /\ trans = FALSE
    BY DEF Init
  <1>2. NoAck /\ PlanInv
    BY <1>1 DEF NoAck, PlanInv, Planned, Plans
  <1>3. AckKept
    BY <1>1, ToSetEmpty DEF AckKept
  <1>4. AckInv
    BY <1>1, <1>2, <1>3 DEF AckInv, AckOne, AckFor, AckMaster, Down, NoAck
  <1> QED
    BY <1>2, <1>4, TypeInit, KeyedInit DEF Early

LEMMA EarlyNext == ASSUME Early, [Next]_vars PROVE Early'
  <1>1. TypeInv' /\ Keyed'
    BY TypeNext, KeyedNext DEF Early
  <1>2. PlanInv' /\ AckInv'
    <2>1. CASE Menu
      <3>1. ASSUME NEW n \in Names, removeGroup(n) PROVE PlanInv' /\ AckInv'
        <4>1. PICK p \in Seq(Steps) : Call(p) /\ Planned(p) /\ {"delgroup"} \subseteq ToSet(p)
          BY <3>1, removeGroupIs DEF Early
        <4> QED
          BY <4>1, CallEarly
      <3>2. ASSUME NEW p, p \in {<<"start", "add">>, <<"start", "remove">>, <<"privacy">>}, Call(p)
            PROVE  PlanInv' /\ AckInv'
        BY <3>2, CallsAre, CallEarly
      <3>3. ASSUME NEW p, p = <<"start", "addgroup", "master", "end", "push">>, Call(p)
            PROVE  PlanInv' /\ AckInv'
        <4>1. p \in Seq(Steps) /\ Planned(p) /\ "addgroup" \in ToSet(p)
          BY <3>3, CallsAre
        <4> QED
          BY <3>3, <4>1, CallEarly
      <3> QED
        BY <2>1, <3>1, <3>2, <3>3 DEF Menu, addContact, removeContact, addGroup, setMyPrivacyStatus
    <2>2. CASE Edit
      BY <2>2, TransactEarly, sub_ssi_addContactEarly, RequestsEarly, ackAddEarly, ackRemoveEarly,
         ackGroupEarly, ackPrivacyEarly, endGroupEarly, crashEarly, giveUpEarly DEF Edit
    <2>3. CASE UNCHANGED vars
      BY <2>3 DEF vars, ack, Early, PlanInv, AckInv, AckOne, AckFor, AckMaster, AckKept, Down, At
    <2> QED
      BY <2>1, <2>2, <2>3, LoginEarly, DisconnectEarly, ReaderEarly, OthersEarly DEF Next
  <1> QED
    BY <1>1, <1>2 DEF Early

-----------------------------------------------------------------------------
(* How the words and what they come to change *)

LEMMA InboxIs ==
  ASSUME TypeInv
  PROVE  /\ Len(inbox) \in Nat /\ DOMAIN inbox = 1 .. Len(inbox)
         /\ \A i \in 1 .. Len(inbox) : inbox[i] \in Messages
  BY LenProperties, ElementOfSeq DEF TypeInv, LinkT

\* The entries that can be there; the has of After is a truth value.
LEMMA HasBool ==
  /\ \A b : HasB(b) \in BOOLEAN
  /\ \A g : HasG(g) \in BOOLEAN
  <1>1. ASSUME NEW b PROVE HasB(b) \in BOOLEAN
    <2>1. (b \in OwnB.puts) \in BOOLEAN /\ (b \in ToSet(ContactListUins)) \in BOOLEAN
      OBVIOUS
    <2> QED
      BY <2>1 DEF HasB
  <1>2. ASSUME NEW g PROVE HasG(g) \in BOOLEAN
    <2>1. (g \in OwnG.puts) \in BOOLEAN /\ (g \in ToSet(ContactListGroups)) \in BOOLEAN
      OBVIOUS
    <2> QED
      BY <2>1 DEF HasG
  <1> QED
    BY <1>1, <1>2

\* After a step, in terms of the words and the entry as they are then.
LEMMA NextAfterB ==
  ASSUME NEW b, NEW n, NEW v, v = WB', NEW h \in BOOLEAN, h <=> HasB(b)'
  PROVE  AfterB(n, b)' <=> After(v, h, n, b.item, b)
  BY DEF AfterB, After

LEMMA NextAfterG ==
  ASSUME NEW g, NEW n, NEW v, v = WG', NEW h \in BOOLEAN, h <=> HasG(g)'
  PROVE  AfterG(n, g)' <=> After(v, h, n, g.id, g)
  BY DEF AfterG, After

LEMMA StillB ==
  ASSUME NEW b, NEW n \in Nat, \A j \in 1 .. n : WB'[j] = WB[j], HasB(b)' <=> HasB(b)
  PROVE  AfterB(n, b)' <=> AfterB(n, b)
  <1>a. PICK v : v = WB'
    OBVIOUS
  <1>b. PICK h \in BOOLEAN : h <=> HasB(b)
    BY HasBool
  <1>1. v = WB' /\ (h <=> HasB(b))
    BY <1>a, <1>b
  <1>2. AfterB(n, b)' <=> After(v, h, n, b.item, b)
    BY <1>1, NextAfterB
  <1>3. AfterB(n, b) <=> After(WB, h, n, b.item, b)
    BY <1>1 DEF AfterB, After
  <1>4. After(v, h, n, b.item, b) <=> After(WB, h, n, b.item, b)
    <2>1. PICK w : w = WB
      OBVIOUS
    <2>2. \A j \in 1 .. n : v[j] = w[j]
      BY <1>1, <2>1
    <2> QED
      BY <2>1, <2>2, AfterSame
  <1> QED
    BY <1>2, <1>3, <1>4

LEMMA StillG ==
  ASSUME NEW g, NEW n \in Nat, \A j \in 1 .. n : WG'[j] = WG[j], HasG(g)' <=> HasG(g)
  PROVE  AfterG(n, g)' <=> AfterG(n, g)
  <1>a. PICK v : v = WG'
    OBVIOUS
  <1>b. PICK h \in BOOLEAN : h <=> HasG(g)
    BY HasBool
  <1>1. v = WG' /\ (h <=> HasG(g))
    BY <1>a, <1>b
  <1>2. AfterG(n, g)' <=> After(v, h, n, g.id, g)
    BY <1>1, NextAfterG
  <1>3. AfterG(n, g) <=> After(WG, h, n, g.id, g)
    BY <1>1 DEF AfterG, After
  <1>4. After(v, h, n, g.id, g) <=> After(WG, h, n, g.id, g)
    <2>1. PICK w : w = WG
      OBVIOUS
    <2>2. \A j \in 1 .. n : v[j] = w[j]
      BY <1>1, <2>1
    <2> QED
      BY <2>1, <2>2, AfterSame
  <1> QED
    BY <1>2, <1>3, <1>4

LEMMA ReadB ==
  ASSUME NEW b, NEW n \in Nat, \A j \in 1 .. n : WB'[j] = WB[j + 1],
         HasB(b)' <=> IF WB[1].key = b.item THEN b \in WB[1].puts ELSE HasB(b)
  PROVE  AfterB(n, b)' <=> AfterB(n + 1, b)
  <1>a. PICK v, w : v = WB' /\ w = WB
    OBVIOUS
  <1>b. PICK has \in BOOLEAN : has <=> HasB(b)
    BY HasBool
  <1>1. v = WB' /\ w = WB /\ (has <=> HasB(b))
    BY <1>a, <1>b
  <1>2. PICK h \in BOOLEAN : h <=> IF w[1].key = b.item THEN b \in w[1].puts ELSE has
    OBVIOUS
  <1>3. AfterB(n, b)' <=> After(v, h, n, b.item, b)
    BY <1>1, <1>2, NextAfterB
  <1>4. AfterB(n + 1, b) <=> After(w, has, n + 1, b.item, b)
    BY <1>1 DEF AfterB, After
  <1>5. \A j \in 1 .. n : v[j] = w[j + 1]
    BY <1>1
  <1>6. After(w, has, n + 1, b.item, b) <=> After(v, h, n, b.item, b)
    BY <1>2, <1>5, AfterRead
  <1> QED
    BY <1>3, <1>4, <1>6

LEMMA ReadG ==
  ASSUME NEW g, NEW n \in Nat, \A j \in 1 .. n : WG'[j] = WG[j + 1],
         HasG(g)' <=> IF WG[1].key = g.id THEN g \in WG[1].puts ELSE HasG(g)
  PROVE  AfterG(n, g)' <=> AfterG(n + 1, g)
  <1>a. PICK v, w : v = WG' /\ w = WG
    OBVIOUS
  <1>b. PICK has \in BOOLEAN : has <=> HasG(g)
    BY HasBool
  <1>1. v = WG' /\ w = WG /\ (has <=> HasG(g))
    BY <1>a, <1>b
  <1>2. PICK h \in BOOLEAN : h <=> IF w[1].key = g.id THEN g \in w[1].puts ELSE has
    OBVIOUS
  <1>3. AfterG(n, g)' <=> After(v, h, n, g.id, g)
    BY <1>1, <1>2, NextAfterG
  <1>4. AfterG(n + 1, g) <=> After(w, has, n + 1, g.id, g)
    BY <1>1 DEF AfterG, After
  <1>5. \A j \in 1 .. n : v[j] = w[j + 1]
    BY <1>1
  <1>6. After(w, has, n + 1, g.id, g) <=> After(v, h, n, g.id, g)
    BY <1>2, <1>5, AfterRead
  <1> QED
    BY <1>3, <1>4, <1>6

LEMMA MoreB ==
  ASSUME NEW b, NEW n \in Nat
  PROVE  AfterB(n + 1, b) <=> IF WB[n + 1].key = b.item THEN b \in WB[n + 1].puts ELSE AfterB(n, b)
  <1>a. PICK w : w = WB
    OBVIOUS
  <1>b. PICK has \in BOOLEAN : has <=> HasB(b)
    BY HasBool
  <1>1. w = WB /\ (has <=> HasB(b))
    BY <1>a, <1>b
  <1>2. After(w, has, n + 1, b.item, b) <=>
           IF w[n + 1].key = b.item THEN b \in w[n + 1].puts ELSE After(w, has, n, b.item, b)
    BY AfterMore
  <1>3. \A m : AfterB(m, b) <=> After(w, has, m, b.item, b)
    BY <1>1 DEF AfterB, After
  <1> QED
    BY <1>1, <1>2, <1>3

LEMMA MoreG ==
  ASSUME NEW g, NEW n \in Nat
  PROVE  AfterG(n + 1, g) <=> IF WG[n + 1].key = g.id THEN g \in WG[n + 1].puts ELSE AfterG(n, g)
  <1>a. PICK w : w = WG
    OBVIOUS
  <1>b. PICK has \in BOOLEAN : has <=> HasG(g)
    BY HasBool
  <1>1. w = WG /\ (has <=> HasG(g))
    BY <1>a, <1>b
  <1>2. After(w, has, n + 1, g.id, g) <=>
           IF w[n + 1].key = g.id THEN g \in w[n + 1].puts ELSE After(w, has, n, g.id, g)
    BY AfterMore
  <1>3. \A m : AfterG(m, g) <=> After(w, has, m, g.id, g)
    BY <1>1 DEF AfterG, After
  <1> QED
    BY <1>1, <1>2, <1>3

\* The same after a step.
LEMMA NextMoreB ==
  ASSUME NEW b, NEW n \in Nat
  PROVE  AfterB(n + 1, b)' <=> IF WB'[n + 1].key = b.item THEN b \in WB'[n + 1].puts ELSE AfterB(n, b)'
  <1>0. HasB(b)' \in BOOLEAN
    <2>1. (b \in OwnB'.puts) \in BOOLEAN /\ (b \in ToSet(ContactListUins)') \in BOOLEAN
      OBVIOUS
    <2> QED
      BY <2>1 DEF HasB
  <1>a. PICK w : w = WB'
    OBVIOUS
  <1>b. PICK has \in BOOLEAN : has <=> HasB(b)'
    BY <1>0
  <1>1. w = WB' /\ (has <=> HasB(b)')
    BY <1>a, <1>b
  <1>2. After(w, has, n + 1, b.item, b) <=>
           IF w[n + 1].key = b.item THEN b \in w[n + 1].puts ELSE After(w, has, n, b.item, b)
    BY AfterMore
  <1>3. AfterB(n, b)' <=> After(w, has, n, b.item, b)
    BY <1>1, NextAfterB
  <1>4. PICK m : m = n + 1
    OBVIOUS
  <1>5. AfterB(m, b)' <=> After(w, has, m, b.item, b)
    BY <1>1, NextAfterB
  <1> QED
    BY <1>1, <1>2, <1>3, <1>4, <1>5

LEMMA NextMoreG ==
  ASSUME NEW g, NEW n \in Nat
  PROVE  AfterG(n + 1, g)' <=> IF WG'[n + 1].key = g.id THEN g \in WG'[n + 1].puts ELSE AfterG(n, g)'
  <1>0. HasG(g)' \in BOOLEAN
    <2>1. (g \in OwnG'.puts) \in BOOLEAN /\ (g \in ToSet(ContactListGroups)') \in BOOLEAN
      OBVIOUS
    <2> QED
      BY <2>1 DEF HasG
  <1>a. PICK w : w = WG'
    OBVIOUS
  <1>b. PICK has \in BOOLEAN : has <=> HasG(g)'
    BY <1>0
  <1>1. w = WG' /\ (has <=> HasG(g)')
    BY <1>a, <1>b
  <1>2. After(w, has, n + 1, g.id, g) <=>
           IF w[n + 1].key = g.id THEN g \in w[n + 1].puts ELSE After(w, has, n, g.id, g)
    BY AfterMore
  <1>3. AfterG(n, g)' <=> After(w, has, n, g.id, g)
    BY <1>1, NextAfterG
  <1>4. PICK m : m = n + 1
    OBVIOUS
  <1>5. AfterG(m, g)' <=> After(w, has, m, g.id, g)
    BY <1>1, NextAfterG
  <1> QED
    BY <1>1, <1>2, <1>3, <1>4, <1>5

LEMMA NoneB == ASSUME NEW b PROVE AfterB(0, b) <=> HasB(b)
  BY DEF AfterB, After

LEMMA NoneG == ASSUME NEW g PROVE AfterG(0, g) <=> HasG(g)
  BY DEF AfterG, After

\* Nothing changes.
LEMMA SyncStill ==
  ASSUME TypeInv, Sync, Good, Len(inbox') = Len(inbox),
         \A j \in 1 .. Len(inbox) : WB'[j] = WB[j] /\ WG'[j] = WG[j],
         \A b \in Buddies : HasB(b)' <=> HasB(b),
         \A g \in Groups : HasG(g)' <=> HasG(g),
         UNCHANGED <<srv_buddies, srv_groups>>
  PROVE  Sync' /\ Good'
  <1>1. PICK l \in Nat : l = Len(inbox)
    BY InboxIs
  <1>2. ASSUME NEW n \in 0 .. l, NEW b \in Buddies PROVE AfterB(n, b)' <=> AfterB(n, b)
    BY <1>1, StillB
  <1>3. ASSUME NEW n \in 0 .. l, NEW g \in Groups PROVE AfterG(n, g)' <=> AfterG(n, g)
    BY <1>1, StillG
  <1>4. l \in 0 .. l /\ l = Len(inbox)'
    BY <1>1
  <1>5. Sync'
    BY <1>1, <1>2, <1>3, <1>4 DEF Sync
  <1>6. ASSUME NEW n \in 0 .. l PROVE GoodAt(n)'
    BY <1>1, <1>2, <1>3 DEF Good, GoodAt
  <1> QED
    BY <1>4, <1>5, <1>6 DEF Good

\* The first word is read.
LEMMA SyncRead ==
  ASSUME TypeInv, Sync, Good, inbox # <<>>, inbox' = Tail(inbox),
         \A j \in 1 .. Len(inbox) - 1 : WB'[j] = WB[j + 1] /\ WG'[j] = WG[j + 1],
         \A b \in Buddies : HasB(b)' <=> IF WB[1].key = b.item THEN b \in WB[1].puts ELSE HasB(b),
         \A g \in Groups : HasG(g)' <=> IF WG[1].key = g.id THEN g \in WG[1].puts ELSE HasG(g),
         UNCHANGED <<srv_buddies, srv_groups>>
  PROVE  Sync' /\ Good'
  <1>1. PICK l \in Nat : l + 1 = Len(inbox) /\ l = Len(inbox)'
    <2>1. PICK n \in Nat \ {0} : n = Len(inbox) /\ Len(inbox') = n - 1
      BY InboxRead
    <2>2. n - 1 \in Nat /\ (n - 1) + 1 = n
      OBVIOUS
    <2> QED
      BY <2>1, <2>2
  <1>2. ASSUME NEW n \in 0 .. l, NEW b \in Buddies PROVE AfterB(n, b)' <=> AfterB(n + 1, b)
    BY <1>1, ReadB
  <1>3. ASSUME NEW n \in 0 .. l, NEW g \in Groups PROVE AfterG(n, g)' <=> AfterG(n + 1, g)
    BY <1>1, ReadG
  <1>4. l \in 0 .. l
    BY <1>1
  <1>5. Sync'
    <2>1. ASSUME NEW b \in Buddies PROVE b \in srv_buddies' <=> AfterB(l, b)'
      BY <1>1, <1>2, <1>4 DEF Sync
    <2>2. ASSUME NEW g \in Groups PROVE g \in srv_groups' <=> AfterG(l, g)'
      BY <1>1, <1>3, <1>4 DEF Sync
    <2> QED
      BY <1>1, <2>1, <2>2 DEF Sync
  <1>6. ASSUME NEW n \in 0 .. l PROVE GoodAt(n)'
    <2>1. GoodAt(n + 1)
      BY <1>1 DEF Good
    <2> QED
      BY <1>2, <1>3, <2>1 DEF GoodAt
  <1> QED
    BY <1>1, <1>5, <1>6 DEF Good

\* A word about what the server does comes at the end.
LEMMA SyncMore ==
  ASSUME TypeInv, Sync, Good, Keyed', NEW m \in Messages, inbox' = Append(inbox, m),
         srv_buddies' \subseteq Buddies, srv_groups' \subseteq Groups,
         \A j \in 1 .. Len(inbox) : WB'[j] = WB[j] /\ WG'[j] = WG[j],
         \A b \in Buddies : HasB(b)' <=> HasB(b),
         \A g \in Groups : HasG(g)' <=> HasG(g),
         \A b \in Buddies : b \in srv_buddies' <=>
           IF WB'[Len(inbox) + 1].key = b.item THEN b \in WB'[Len(inbox) + 1].puts ELSE b \in srv_buddies,
         \A g \in Groups : g \in srv_groups' <=>
           IF WG'[Len(inbox) + 1].key = g.id THEN g \in WG'[Len(inbox) + 1].puts ELSE g \in srv_groups
  PROVE  Sync' /\ Good'
  <1>1. PICK l \in Nat : l = Len(inbox) /\ l + 1 = Len(inbox)'
    BY InboxMore
  <1>2. ASSUME NEW n \in 0 .. l, NEW b \in Buddies PROVE AfterB(n, b)' <=> AfterB(n, b)
    BY <1>1, StillB
  <1>3. ASSUME NEW n \in 0 .. l, NEW g \in Groups PROVE AfterG(n, g)' <=> AfterG(n, g)
    BY <1>1, StillG
  <1>4. l \in 0 .. l
    BY <1>1
  <1>5. PICK k \in Nat : k = l + 1
    OBVIOUS
  <1>6. ASSUME NEW b \in Buddies PROVE b \in srv_buddies' <=> AfterB(k, b)'
    <2>1. b \in srv_buddies <=> AfterB(l, b)'
      BY <1>1, <1>2, <1>4 DEF Sync
    <2> QED
      BY <1>1, <1>5, <2>1, NextMoreB
  <1>7. ASSUME NEW g \in Groups PROVE g \in srv_groups' <=> AfterG(k, g)'
    <2>1. g \in srv_groups <=> AfterG(l, g)'
      BY <1>1, <1>3, <1>4 DEF Sync
    <2> QED
      BY <1>1, <1>5, <2>1, NextMoreG
  <1>8. Sync'
    BY <1>1, <1>5, <1>6, <1>7 DEF Sync
  <1>9. ASSUME NEW n \in 0 .. l PROVE GoodAt(n)'
    BY <1>1, <1>2, <1>3 DEF Good, GoodAt
  <1>10. GoodAt(k)'
    BY <1>6, <1>7 DEF GoodAt, Keyed
  <1>11. \A n \in 0 .. k : n \in 0 .. l \/ n = k
    BY <1>5
  <1> QED
    BY <1>1, <1>5, <1>8, <1>9, <1>10, <1>11 DEF Good

-----------------------------------------------------------------------------
(* The lists are in step: the calls, and the steps without an answer *)

Matched == OnceB /\ OnceG /\ JobB /\ JobG /\ Sync /\ Good

LEMMA WordsFirst ==
  ASSUME TypeInv, TypeInv', NEW n \in Nat, n <= Len(inbox), n <= Len(inbox'),
         \A j \in 1 .. n : inbox'[j] = inbox[j],
         NoAck \/ (OwnB' = OwnB /\ AckG' = AckG)
  PROVE  \A j \in 1 .. n : WB'[j] = WB[j] /\ WG'[j] = WG[j]
  <1>1. Len(inbox) \in Nat /\ DOMAIN inbox = 1 .. Len(inbox)
    BY InboxIs
  <1>2. Len(inbox') \in Nat /\ DOMAIN inbox' = 1 .. Len(inbox')
    BY LenProperties DEF TypeInv, LinkT
  <1> SUFFICES ASSUME NEW j \in 1 .. n PROVE WB'[j] = WB[j] /\ WG'[j] = WG[j]
    OBVIOUS
  <1>3. j \in DOMAIN inbox /\ j \in DOMAIN inbox' /\ inbox'[j] = inbox[j]
    BY <1>1, <1>2
  <1>4. WB'[j] = WordB(inbox[j], OwnB') /\ WG'[j] = WordG(inbox[j], AckG')
    BY <1>3 DEF WB, WG, WordB, WordG
  <1>5. WB[j] = WordB(inbox[j], OwnB) /\ WG[j] = WordG(inbox[j], AckG)
    BY <1>3 DEF WB, WG
  <1>6. inbox[j].type # "ack" => /\ WordB(inbox[j], OwnB') = WordB(inbox[j], OwnB)
                                 /\ WordG(inbox[j], AckG') = WordG(inbox[j], AckG)
    BY DEF WordB, WordG
  <1> QED
    BY <1>3, <1>4, <1>5, <1>6 DEF NoAck

\* What an entry and a group are when no request about them has been granted.
LEMMA PlainB == ASSUME ~DoneB PROVE \A b : HasB(b) <=> b \in ToSet(ContactListUins)
  BY DEF HasB

LEMMA PlainG ==
  ASSUME ~DoneG \/ ToSet(plan) \cap {"push", "erase"} = {}
  PROVE  \A g \in Groups : HasG(g) <=> g \in ToSet(ContactListGroups)
  <1>1. \A g \in Groups : g.id # 0
    BY NumbersAre DEF Groups
  <1> QED
    BY <1>1 DEF HasG, OwnG, NoWord

\* Of the plan only four steps matter to a group.
LEMMA SameG ==
  ASSUME UNCHANGED <<ContactListGroups, gen>>,
         \A x \in {"push", "erase", "addgroup", "delgroup"} : x \in ToSet(plan') <=> x \in ToSet(plan),
         ~(AtGroup /\ waiting /\ got = "ok"), ~(AtGroup /\ waiting /\ got = "ok")'
  PROVE  \A g \in Groups : HasG(g)' <=> HasG(g)
  <1>1. OwnG' = OwnG
    BY DEF OwnG
  <1>2. DoneG' <=> DoneG
    BY DEF DoneG
  <1> QED
    BY <1>1, <1>2 DEF HasG

\* Nobody has said anything, and the lists stay: only the plan goes on.
LEMMA PlanMatched ==
  ASSUME Early, Early', Matched, UNCHANGED <<inbox, ContactListUins, ContactListGroups, srv_buddies, srv_groups>>,
         waiting = FALSE, waiting' = FALSE, JobG', \A g \in Groups : HasG(g)' <=> HasG(g)
  PROVE  Matched'
  <1>1. PICK n \in Nat : n = Len(inbox)
    BY InboxIs DEF Early
  <1>2. NoAck
    BY NoAckWhen DEF Early
  <1>3. \A j \in 1 .. n : WB'[j] = WB[j] /\ WG'[j] = WG[j]
    BY <1>1, <1>2, WordsFirst DEF Early
  <1>4. ASSUME NEW b \in Buddies PROVE HasB(b)' <=> HasB(b)
    BY DEF HasB, DoneB
  <1>5. Sync' /\ Good'
    BY <1>1, <1>3, <1>4, SyncStill DEF Early, Matched
  <1>6. OnceB' /\ OnceG' /\ JobB'
    BY DEF Matched, OnceB, OnceG, JobB
  <1> QED
    BY <1>5, <1>6 DEF Matched

LEMMA CallMatched ==
  ASSUME Early, Early', Matched, NEW p \in Seq(Steps), Call(p), Planned(p),
         ToSet(p) \cap {"push", "erase"} # {} => ToSet(p) \cap {"addgroup", "delgroup"} # {},
         UNCHANGED <<ContactListUins, ContactListGroups>>, JobG'
  PROVE  Matched'
  <1>1. plan = <<>> /\ plan' = p /\ UNCHANGED <<inbox, srv_buddies, srv_groups, waiting, got>>
    BY DEF Call, ack, server
  <1>2. waiting = FALSE
    BY CallEarly
  <1>3. ASSUME NEW g \in Groups PROVE HasG(g) <=> g \in ToSet(ContactListGroups)
    BY <1>1, ToSetEmpty, PlainG
  <1>4. ASSUME NEW g \in Groups PROVE HasG(g)' <=> g \in ToSet(ContactListGroups)'
    <2>1. g.id # 0
      BY NumbersAre DEF Groups
    <2>2. CASE ToSet(p) \cap {"push", "erase"} = {}
      <3>1. OwnG' = NoWord
        BY <1>1, <2>2 DEF OwnG, NoWord
      <3> QED
        BY <2>1, <3>1 DEF HasG, NoWord
    <2>3. CASE ToSet(p) \cap {"addgroup", "delgroup"} # {}
      <3>1. ~DoneG'
        BY <1>1, <1>2, <2>3 DEF DoneG
      <3> QED
        BY <3>1 DEF HasG
    <2> QED
      BY <2>2, <2>3
  <1> QED
    BY <1>1, <1>2, <1>3, <1>4, PlanMatched

LEMMA MenuMatched == ASSUME Early, Early', Matched, Menu PROVE Matched'
  <1>0. ContactListGroups \in Seq(Groups)
    BY DEF Early, TypeInv, ListT
  <1>1. ASSUME NEW n \in Names, removeGroup(n) PROVE Matched'
    <2>1. gr_ind' \in 1 .. Len(ContactListGroups) /\ gen' = ContactListGroups[gr_ind']
      BY <1>1, removeGroupIs DEF Early
    <2>2. PICK p \in Seq(Steps) :
              /\ Call(p) /\ Planned(p)
              /\ {"delgroup", "master", "end", "erase"} \subseteq ToSet(p)
              /\ ToSet(p) \cap {"push", "addgroup", "add", "remove"} = {}
      BY <1>1, removeGroupIs DEF Early
    <2>3. plan' = p /\ UNCHANGED <<ContactListUins, ContactListGroups>>
      BY <2>2 DEF Call, client
    <2>4. JobG'
      BY <2>1, <2>2, <2>3 DEF JobG
    <2> QED
      BY <2>2, <2>3, <2>4, CallMatched
  <1>2. ASSUME NEW p, p \in {<<"start", "add">>, <<"start", "remove">>, <<"privacy">>}, Call(p)
        PROVE  Matched'
    <2>1. p \in Seq(Steps) /\ Planned(p) /\ ToSet(p) \subseteq {"start", "add", "remove", "privacy"}
      BY <1>2, CallsAre
    <2>2. plan' = p /\ UNCHANGED <<ContactListUins, ContactListGroups>>
      BY <1>2 DEF Call, client
    <2>3. JobG'
      BY <2>1, <2>2 DEF JobG
    <2> QED
      BY <1>2, <2>1, <2>2, <2>3, CallMatched
  <1>3. ASSUME NEW n \in Names, addGroup(n) PROVE Matched'
    <2>1. PICK p : p = <<"start", "addgroup", "master", "end", "push">>
      OBVIOUS
    <2>2. p \in Seq(Steps) /\ Planned(p) /\ ToSet(p) = {"start", "addgroup", "master", "end", "push"}
      BY <2>1, CallsAre
    <2>3. Call(p) /\ getUnusedGroupID # 0 /\ gen'.id = getUnusedGroupID
      BY <1>3, <2>1 DEF addGroup
    <2>4. plan' = p /\ UNCHANGED <<ContactListUins, ContactListGroups>>
      BY <2>3 DEF Call, client
    <2>5. getUnusedGroupID \notin {g.id : g \in ToSet(ContactListGroups)}
      <3>1. GroupIds \ {g.id : g \in ToSet(ContactListGroups)} \subseteq Nat
        BY NumbersAre
      <3> QED
        BY <2>3, <3>1, LowestIs DEF getUnusedGroupID
    <2>6. JobG'
      BY <2>2, <2>3, <2>4, <2>5 DEF JobG
    <2> QED
      BY <2>2, <2>3, <2>4, <2>6, CallMatched
  <1> QED
    BY <1>1, <1>2, <1>3 DEF Menu, addContact, removeContact, setMyPrivacyStatus

LEMMA TransactMatched == ASSUME Early, Early', Matched, up, Transact PROVE Matched'
  <1>1. PICK step \in {"start", "end"} : At(step)
    BY DEF Transact
  <1>2. /\ plan' = Tail(plan)
        /\ UNCHANGED <<inbox, ContactListUins, ContactListGroups, srv_buddies, srv_groups, gen, gr_ind,
                       waiting, got>>
    BY DEF Transact, server, client, job, found, ack
  <1>3. waiting = FALSE
    BY <1>1, NotWaiting DEF Early
  <1>4. ToSet(plan) = {step} \cup ToSet(plan')
    BY <1>1, <1>2, AtStep DEF Early
  <1>5. \A g \in Groups : HasG(g)' <=> HasG(g)
    BY <1>1, <1>2, <1>3, <1>4, SameG
  <1>6. JobG'
    BY <1>1, <1>2, <1>4 DEF JobG, Matched
  <1> QED
    BY <1>2, <1>3, <1>5, <1>6, PlanMatched

LEMMA FailToSendMatched ==
  ASSUME Early, Early', Matched, FailToSend, waiting = FALSE,
         NEW step \in {"add", "remove", "each", "content"}, At(step)
  PROVE  Matched'
  <1>1. /\ waiting' = FALSE /\ plan' = AfterFailure
        /\ UNCHANGED <<inbox, ContactListUins, ContactListGroups, srv_buddies, srv_groups, gen, gr_ind>>
    BY DEF FailToSend, Fail, server, client, found
  <1>2. PICK q \in Seq(Steps) : q = Tail(plan) /\ ToSet(plan) = {step} \cup ToSet(q)
    BY AtStep DEF Early
  <1>3. Fit(ToSet(plan))
    BY PlanIs DEF Early
  <1>4. JobG' /\ \A g \in Groups : HasG(g)' <=> HasG(g)
    <2>1. CASE step = "each"
      <3>1. plan' = q
        BY <1>1, <1>2, <2>1 DEF AfterFailure, At
      <3>2. \A g \in Groups : HasG(g)' <=> HasG(g)
        BY <1>1, <1>2, <2>1, <3>1, SameG
      <3>3. JobG'
        BY <1>1, <1>2, <2>1, <3>1 DEF JobG, Matched
      <3> QED
        BY <3>2, <3>3
    <2>2. CASE step # "each"
      <3>1. PICK p \in {<<>>, <<"end">>, <<"content", "end">>} : p = plan'
        BY <1>1, <2>2 DEF AfterFailure, At
      <3>2. ToSet(plan') \cap {"push", "erase"} = {}
        BY <3>1, ShortPlans
      <3>3. ~DoneG \/ ToSet(plan) \cap {"push", "erase"} = {}
        <4>1. CASE step = "content"
          BY <1>2, <1>3, <4>1 DEF Fit, DoneG
        <4>2. CASE step # "content"
          BY <1>2, <1>3, <2>2, <4>2 DEF Fit
        <4> QED
          BY <4>1, <4>2
      <3>4. ASSUME NEW g \in Groups PROVE HasG(g)' <=> g \in ToSet(ContactListGroups)
        <4>1. g.id # 0
          BY NumbersAre DEF Groups
        <4>2. OwnG' = NoWord
          BY <3>2 DEF OwnG, NoWord
        <4> QED
          BY <1>1, <4>1, <4>2 DEF HasG, NoWord
      <3>5. JobG'
        BY <3>2 DEF JobG
      <3> QED
        BY <3>3, <3>4, <3>5, PlainG
    <2> QED
      BY <2>1, <2>2
  <1> QED
    BY <1>1, <1>4, PlanMatched

-----------------------------------------------------------------------------
(* The lists are in step: the requests *)

LEMMA AskMatched ==
  ASSUME Early, Early', Matched, NEW answer \in Answers \ {"none"}, Ask(answer), NoAck, ~DoneB,
         UNCHANGED <<ContactListUins, ContactListGroups>>, JobB', JobG',
         \A g \in Groups : HasG(g)' <=> HasG(g),
         \A b \in Buddies : b \in srv_buddies' <=>
           IF answer = "ok" /\ OwnB'.key = b.item THEN b \in OwnB'.puts ELSE b \in srv_buddies,
         \A g \in Groups : g \in srv_groups' <=>
           IF answer = "ok" /\ AckG'.key = g.id THEN g \in AckG'.puts ELSE g \in srv_groups
  PROVE  Matched'
  <1>1. /\ waiting' = TRUE /\ got' = "none"
        /\ inbox' = Append(inbox, [type |-> "ack", answer |-> answer])
    BY DEF Ask
  <1>2. PICK m \in Messages : m = [type |-> "ack", answer |-> answer]
    BY MessagesAre
  <1>3. PICK n \in Nat : n = Len(inbox)
    BY InboxIs DEF Early
  <1>4. /\ Len(inbox') = n + 1 /\ DOMAIN inbox' = 1 .. n + 1 /\ inbox'[n + 1] = m
        /\ \A i \in 1 .. n : inbox'[i] = inbox[i]
    BY <1>1, <1>2, <1>3, InboxMore DEF Early
  <1>5. \A j \in 1 .. n : WB'[j] = WB[j] /\ WG'[j] = WG[j]
    BY <1>3, <1>4, WordsFirst DEF Early
  <1>6. /\ WB'[n + 1] = IF answer = "ok" THEN OwnB' ELSE NoWord
        /\ WG'[n + 1] = IF answer = "ok" THEN AckG' ELSE NoWord
    <2>1. n + 1 \in DOMAIN inbox' /\ m.type = "ack" /\ m.answer = answer
      BY <1>2, <1>4
    <2>2. WB'[n + 1] = WordB(m, OwnB') /\ WG'[n + 1] = WordG(m, AckG')
      BY <1>4, <2>1 DEF WB, WG, WordB, WordG
    <2> QED
      BY <2>1, <2>2 DEF WordB, WordG
  <1>7. ASSUME NEW b \in Buddies PROVE HasB(b)' <=> HasB(b)
    BY <1>1 DEF HasB, DoneB
  <1>8. \A b \in Buddies : b.item # 0
    BY NumbersAre DEF Buddies
  <1>9. \A g \in Groups : g.id # 0
    BY NumbersAre DEF Groups
  <1>10. ASSUME NEW b \in Buddies
         PROVE  b \in srv_buddies' <=> IF WB'[n + 1].key = b.item THEN b \in WB'[n + 1].puts ELSE b \in srv_buddies
    BY <1>6, <1>8 DEF NoWord
  <1>11. ASSUME NEW g \in Groups
         PROVE  g \in srv_groups' <=> IF WG'[n + 1].key = g.id THEN g \in WG'[n + 1].puts ELSE g \in srv_groups
    BY <1>6, <1>9 DEF NoWord
  <1>12. srv_buddies' \subseteq Buddies /\ srv_groups' \subseteq Groups /\ Keyed'
    BY DEF Early, TypeInv, SrvT
  <1>13. Sync' /\ Good'
    BY <1>1, <1>2, <1>3, <1>5, <1>7, <1>10, <1>11, <1>12, SyncMore DEF Early, Matched
  <1>14. OnceB' /\ OnceG'
    BY DEF Matched, OnceB, OnceG
  <1> QED
    BY <1>13, <1>14 DEF Matched

\* The requests that are not about a group keep what has been said of the groups.
LEMMA AskSameG ==
  ASSUME Early, Matched, NEW answer, Ask(answer), NEW step \in Steps, At(step), ~AtGroup,
         UNCHANGED <<ContactListGroups, gr_ind>>, gen' = gen \/ step = "remove"
  PROVE  AckG' = NoWord /\ JobG' /\ \A g \in Groups : HasG(g)' <=> HasG(g)
  <1>1. plan' = plan
    BY DEF Ask
  <1>2. ~AtGroup'
    BY <1>1 DEF AtGroup, At
  <1>3. AckG' = NoWord
    BY <1>2 DEF AckG
  <1>4. CASE gen' = gen
    BY <1>1, <1>2, <1>3, <1>4, SameG DEF JobG, Matched
  <1>5. CASE step = "remove"
    <2>1. ToSet(plan) \cap {"push", "erase"} = {}
      <3>1. "remove" \in ToSet(plan) /\ Fit(ToSet(plan))
        BY <1>5, AtStep, PlanIs DEF Early
      <3> QED
        BY <3>1 DEF Fit
    <2>2. OwnG' = NoWord /\ JobG'
      BY <1>1, <2>1 DEF OwnG, JobG, NoWord
    <2>3. \A g \in Groups : g.id # 0
      BY NumbersAre DEF Groups
    <2>4. \A g \in Groups : HasG(g)' <=> g \in ToSet(ContactListGroups)
      BY <2>2, <2>3 DEF HasG, NoWord
    <2> QED
      BY <1>3, <2>1, <2>2, <2>4, PlainG
  <1> QED
    BY <1>4, <1>5

\* The entry of addContact is sent, or sent again.
LEMMA AskAddMatched ==
  ASSUME Early, Early', Matched, At("add"), NEW e \in Buddies, AskAdd(e), NoAck, ~DoneB,
         \A b \in ToSet(ContactListUins) : b.item # e.item
  PROVE  Matched'
  <1>1. PICK answer \in {"ok", "needauth", "refused"} :
          /\ answer = "ok" => Acceptable(e)
          /\ Ask(answer) /\ uen' = e
          /\ srv_buddies' = IF answer = "ok" THEN srv_buddies \cup {e} ELSE srv_buddies
          /\ UNCHANGED <<srv_groups, gen, gr_ind>>
    BY AskAddIs
  <1>2. answer \in Answers \ {"none"} /\ "add" \in Steps
    BY DEF Answers, Steps
  <1>3. plan' = plan /\ UNCHANGED <<ContactListUins, ContactListGroups>>
    BY <1>1 DEF Ask, client
  <1>4. At("add")' /\ ~At("remove")' /\ ~At("each")' /\ ~AtGroup
    BY <1>3 DEF At, AtGroup
  <1>5. OwnB' = [key |-> e.item, puts |-> {e}]
    BY <1>1, <1>4 DEF OwnB
  <1>6. JobB'
    BY <1>1, <1>3, <1>4 DEF JobB
  <1>7. AckG' = NoWord /\ JobG' /\ \A g \in Groups : HasG(g)' <=> HasG(g)
    BY <1>1, <1>2, <1>3, <1>4, AskSameG
  <1>8. \A g \in Groups : g.id # 0
    BY NumbersAre DEF Groups
  <1>9. \A g \in Groups : g \in srv_groups' <=>
           IF answer = "ok" /\ AckG'.key = g.id THEN g \in AckG'.puts ELSE g \in srv_groups
    BY <1>1, <1>7, <1>8 DEF NoWord
  <1>10. ASSUME NEW b \in Buddies
         PROVE  b \in srv_buddies' <=>
                  IF answer = "ok" /\ OwnB'.key = b.item THEN b \in OwnB'.puts ELSE b \in srv_buddies
    <2>1. answer = "ok" => \A d \in srv_buddies : d.item # e.item
      BY <1>1, AcceptableIs
    <2> QED
      BY <1>1, <1>5, <2>1
  <1> QED
    BY <1>1, <1>2, <1>3, <1>6, <1>7, <1>9, <1>10, AskMatched

\* The id an entry is given is none of the list's.
LEMMA UnusedIs ==
  ASSUME getUnusedItemID # 0
  PROVE  getUnusedItemID \in ItemIds \ Taken
  <1>1. ItemIds \ Taken \subseteq Nat
    BY NumbersAre
  <1> QED
    BY <1>1, LowestIs DEF getUnusedItemID

LEMMA sub_ssi_addContactMatched ==
  ASSUME Early, Early', Matched, sub_ssi_addContact
  PROVE  Matched'
  <1>1. At("add") /\ waiting = FALSE
    BY DEF sub_ssi_addContact, Early, TypeInv, AckT
  <1>2. CASE FailToSend
    BY <1>1, <1>2, FailToSendMatched
  <1>3. CASE ~FailToSend
    <2>1. PICK g : g = findCLGroup(gen.name)
      OBVIOUS
    <2>2. PICK e : e = [uin |-> uen.uin, group |-> ContactListGroups[g].id, item |-> getUnusedItemID, wait |-> FALSE]
      OBVIOUS
    <2>3. g # 0 /\ getUnusedItemID # 0 /\ AskAdd(e)
      BY <1>3, <2>1, <2>2 DEF sub_ssi_addContact
    <2>4. e \in Buddies
      <3>1. g \in 1 .. Len(ContactListGroups)
        BY <2>1, <2>3, FirstOfGroup DEF First
      <3>2. ContactListGroups[g] \in Groups
        BY <3>1, ElementOfSeq DEF Early, TypeInv, ListT
      <3>3. ContactListGroups[g].id \in GroupIds /\ uen.uin \in Uins
        BY <3>2 DEF Groups, Early, TypeInv, JobT, Buddies
      <3> QED
        BY <2>2, <2>3, <3>3, UnusedIs DEF Buddies
    <2>5. \A b \in ToSet(ContactListUins) : b.item # e.item
      BY <2>2, <2>3, UnusedIs DEF Taken
    <2>6. NoAck
      BY <1>1, NoAckWhen DEF Early
    <2>7. ~DoneB
      BY <1>1 DEF DoneB
    <2> QED
      BY <1>1, <2>3, <2>4, <2>5, <2>6, <2>7, AskAddMatched
  <1> QED
    BY <1>2, <1>3

\* What asking for a removal does.
LEMMA RemovalIs ==
  ASSUME TypeInv, sub_ssi_removeContact, ~FailToSend
  PROVE  \E i \in 1 .. Len(ContactListUins), answer \in {"ok", "refused"} :
           /\ i = findCLUIN(Head(uins)) /\ uen_ind' = i /\ Ask(answer)
           /\ gen' = IF At("remove") THEN [gen EXCEPT !.id = ContactListUins[i].group] ELSE gen
           /\ answer = "ok" <=> \E b \in srv_buddies : /\ b.uin = ContactListUins[i].uin
                                                       /\ b.group = ContactListUins[i].group
                                                       /\ b.item = ContactListUins[i].item
           /\ srv_buddies' = IF answer = "ok" THEN {b \in srv_buddies : b.item # ContactListUins[i].item}
                             ELSE srv_buddies
           /\ faults' = IF At("each") /\ ContactListUins[i].group # gen.id THEN faults \cup {"moved"} ELSE faults
           /\ UNCHANGED <<srv_groups, srv_members, srv_privacy, uins, uen, gr_ind, wish>>
  <1>1. PICK i : i = findCLUIN(Head(uins))
    OBVIOUS
  <1>2. PICK e : e = ContactListUins[i]
    OBVIOUS
  <1>3. PICK answer \in {"ok", "refused"} :
          answer = "ok" <=> \E b \in srv_buddies : b.uin = e.uin /\ b.group = e.group /\ b.item = e.item
    OBVIOUS
  <1>4. /\ i # 0 /\ uen_ind' = i /\ gen' = (IF At("remove") THEN [gen EXCEPT !.id = e.group] ELSE gen)
        /\ srv_buddies' = (IF answer = "ok" THEN {b \in srv_buddies : b.item # e.item} ELSE srv_buddies)
        /\ Ask(answer)
        /\ faults' = (IF At("each") /\ e.group # gen.id THEN faults \cup {"moved"} ELSE faults)
        /\ UNCHANGED <<srv_groups, srv_members, srv_privacy, uins, uen, gr_ind, wish>>
    BY <1>1, <1>2, <1>3 DEF sub_ssi_removeContact
  <1>5. i \in 1 .. Len(ContactListUins)
    BY <1>1, <1>4, FirstOfUin DEF First
  <1> QED
    BY <1>1, <1>2, <1>3, <1>4, <1>5

LEMMA sub_ssi_removeContactMatched ==
  ASSUME Early, Early', Matched, sub_ssi_removeContact
  PROVE  Matched'
  <1>1. PICK step \in {"remove", "each"} : At(step) /\ waiting = FALSE
    BY DEF sub_ssi_removeContact, Early, TypeInv, AckT
  <1>2. CASE FailToSend
    BY <1>1, <1>2, FailToSendMatched
  <1>3. CASE ~FailToSend
    <2>1. PICK i \in 1 .. Len(ContactListUins), answer \in {"ok", "refused"} :
           /\ uen_ind' = i /\ Ask(answer)
           /\ gen' = IF At("remove") THEN [gen EXCEPT !.id = ContactListUins[i].group] ELSE gen
           /\ srv_buddies' = IF answer = "ok" THEN {b \in srv_buddies : b.item # ContactListUins[i].item}
                             ELSE srv_buddies
           /\ UNCHANGED <<srv_groups, gr_ind>>
      BY <1>3, RemovalIs DEF Early
    <2>2. answer \in Answers \ {"none"} /\ step \in Steps
      BY DEF Answers, Steps
    <2>3. plan' = plan /\ UNCHANGED <<ContactListUins, ContactListGroups>>
      BY <2>1 DEF Ask, client
    <2>4. At(step)' /\ ~At("add")' /\ ~AtGroup
      BY <1>1, <2>3 DEF At, AtGroup
    <2>5. OwnB' = [key |-> ContactListUins[i].item, puts |-> {}]
      BY <2>1, <2>3, <2>4 DEF OwnB
    <2>6. JobB'
      BY <2>1, <2>3, <2>4 DEF JobB
    <2>7. AckG' = NoWord /\ JobG' /\ \A g \in Groups : HasG(g)' <=> HasG(g)
      <3>1. gen' = gen \/ step = "remove"
        BY <1>1, <2>1 DEF At
      <3> QED
        BY <1>1, <2>1, <2>2, <2>3, <2>4, <3>1, AskSameG
    <2>8. \A g \in Groups : g.id # 0
      BY NumbersAre DEF Groups
    <2>9. \A g \in Groups : g \in srv_groups' <=>
             IF answer = "ok" /\ AckG'.key = g.id THEN g \in AckG'.puts ELSE g \in srv_groups
      BY <2>1, <2>7, <2>8 DEF NoWord
    <2>10. ASSUME NEW b \in Buddies
           PROVE  b \in srv_buddies' <=>
                    IF answer = "ok" /\ OwnB'.key = b.item THEN b \in OwnB'.puts ELSE b \in srv_buddies
      BY <2>1, <2>5
    <2>11. NoAck
      BY <1>1, NoAckWhen DEF Early
    <2>12. ~DoneB
      BY <1>1 DEF DoneB
    <2> QED
      BY <2>1, <2>2, <2>3, <2>6, <2>7, <2>9, <2>10, <2>11, <2>12, AskMatched
  <1> QED
    BY <1>2, <1>3

\* A request that changes no entry of the server's.
LEMMA OtherRequestMatched ==
  ASSUME Early, Early', Matched, waiting = FALSE,
         NEW step \in {"content", "master", "privacy"}, At(step),
         NEW answer \in {"ok", "refused"}, Ask(answer),
         UNCHANGED <<srv_buddies, srv_groups, gen, gr_ind>>
  PROVE  Matched'
  <1>1. answer \in Answers \ {"none"} /\ step \in Steps
    BY DEF Answers, Steps
  <1>2. plan' = plan /\ UNCHANGED <<ContactListUins, ContactListGroups>>
    BY DEF Ask, client
  <1>3. ~At("add")' /\ ~At("remove")' /\ ~At("each")' /\ ~AtGroup
    BY <1>2 DEF At, AtGroup
  <1>4. OwnB' = NoWord /\ JobB'
    BY <1>3 DEF OwnB, JobB
  <1>5. AckG' = NoWord /\ JobG' /\ \A g \in Groups : HasG(g)' <=> HasG(g)
    BY <1>1, <1>2, <1>3, AskSameG
  <1>6. (\A g \in Groups : g.id # 0) /\ \A b \in Buddies : b.item # 0
    BY NumbersAre DEF Groups, Buddies
  <1>7. NoAck
    BY NoAckWhen DEF Early
  <1>8. ~DoneB
    BY DEF DoneB
  <1>9. \A b \in Buddies : b \in srv_buddies' <=>
           IF answer = "ok" /\ OwnB'.key = b.item THEN b \in OwnB'.puts ELSE b \in srv_buddies
    BY <1>4, <1>6 DEF NoWord
  <1>10. \A g \in Groups : g \in srv_groups' <=>
           IF answer = "ok" /\ AckG'.key = g.id THEN g \in AckG'.puts ELSE g \in srv_groups
    BY <1>5, <1>6 DEF NoWord
  <1> QED
    BY <1>1, <1>2, <1>4, <1>5, <1>7, <1>8, <1>9, <1>10, AskMatched

LEMMA OtherRequestsMatched ==
  ASSUME Early, Early', Matched, up, updateSSIGroupContent \/ updateMasterGroup \/ askPrivacy
  PROVE  Matched'
  <1>0. waiting = FALSE
    BY DEF updateSSIGroupContent, updateMasterGroup, askPrivacy, Early, TypeInv, AckT
  <1>1. CASE updateSSIGroupContent
    <2>1. CASE FailToSend
      BY <1>0, <1>1, <2>1, FailToSendMatched DEF updateSSIGroupContent
    <2>2. CASE ~FailToSend
      <3>1. /\ At("content") /\ UNCHANGED <<srv_buddies, srv_groups, gen, gr_ind>>
            /\ \E answer \in {"ok", "refused"} : Ask(answer)
        BY <1>1, <2>2 DEF updateSSIGroupContent, job, found
      <3> QED
        BY <1>0, <3>1, OtherRequestMatched
    <2> QED
      BY <2>1, <2>2
  <1>2. CASE updateMasterGroup
    <2>1. At("master") /\ UNCHANGED <<srv_buddies, srv_groups, gen, gr_ind>> /\ Ask("ok")
      BY <1>2 DEF updateMasterGroup, job, found
    <2> QED
      BY <1>0, <2>1, OtherRequestMatched
  <1>3. CASE askPrivacy
    <2>1. /\ At("privacy") /\ UNCHANGED <<srv_buddies, srv_groups, gen, gr_ind>>
          /\ \E answer \in {"ok", "refused"} : Ask(answer)
      BY <1>3 DEF askPrivacy, job
    <2> QED
      BY <1>0, <2>1, OtherRequestMatched
  <1> QED
    BY <1>1, <1>2, <1>3

\* addDeleSSIGroup: what a grant of it does is what the rest of the plan will do to the list.
LEMMA AskGroupMatched ==
  ASSUME Early, Early', Matched, up, askAddGroup \/ askDeleteGroup
  PROVE  Matched'
  <1>1. PICK step \in {"addgroup", "delgroup"} : At(step) /\ waiting = FALSE /\ (step = "addgroup" => askAddGroup)
                                                 /\ (step = "delgroup" => askDeleteGroup)
    BY DEF askAddGroup, askDeleteGroup, Early, TypeInv, AckT
  <1>2. PICK answer \in {"ok", "refused"} :
          /\ Ask(answer) /\ UNCHANGED <<srv_buddies, gen, gr_ind>>
          /\ step = "addgroup" =>
               /\ answer = "ok" => \A g \in srv_groups : g.id # gen.id
               /\ srv_groups' = IF answer = "ok" THEN srv_groups \cup {gen} ELSE srv_groups
          /\ step = "delgroup" =>
               /\ answer = "ok" => gen \in srv_groups
               /\ srv_groups' = IF answer = "ok" THEN srv_groups \ {gen} ELSE srv_groups
    <2>1. CASE step = "addgroup"
      BY <1>1, <2>1 DEF askAddGroup, job, found
    <2>2. CASE step = "delgroup"
      BY <1>1, <2>2 DEF askDeleteGroup, job, found
    <2> QED
      BY <2>1, <2>2
  <1>3. answer \in Answers \ {"none"} /\ step \in Steps
    BY DEF Answers, Steps
  <1>4. plan' = plan /\ got' = "none" /\ UNCHANGED <<ContactListUins, ContactListGroups>>
    BY <1>2 DEF Ask, client
  <1>5. ~At("add")' /\ ~At("remove")' /\ ~At("each")' /\ AtGroup'
    BY <1>1, <1>4 DEF At, AtGroup
  <1>6. OwnB' = NoWord /\ JobB'
    BY <1>5 DEF OwnB, JobB
  <1>7. step \in ToSet(plan) /\ Fit(ToSet(plan))
    BY <1>1, AtStep, PlanIs DEF Early
  <1>8. AckG' = [key |-> gen.id, puts |-> IF step = "addgroup" THEN {gen} ELSE {}]
    <2>1. CASE step = "addgroup"
      <3>1. "push" \in ToSet(plan)
        BY <1>7, <2>1 DEF Fit
      <3> QED
        BY <1>2, <1>4, <1>5, <2>1, <3>1 DEF AckG, OwnG
    <2>2. CASE step = "delgroup"
      <3>1. "erase" \in ToSet(plan) /\ "push" \notin ToSet(plan)
        BY <1>7, <2>2 DEF Fit
      <3> QED
        BY <1>2, <1>4, <1>5, <2>2, <3>1 DEF AckG, OwnG
    <2> QED
      BY <2>1, <2>2
  <1>9. \A g \in Groups : HasG(g)' <=> HasG(g)
    BY <1>1, <1>2, <1>4, SameG
  <1>10. JobG'
    BY <1>2, <1>4 DEF JobG, Matched
  <1>11. NoAck /\ ~DoneB
    BY <1>1, NoAckWhen DEF Early, DoneB
  <1>12. \A b \in Buddies : b.item # 0
    BY NumbersAre DEF Buddies
  <1>13. \A b \in Buddies : b \in srv_buddies' <=>
           IF answer = "ok" /\ OwnB'.key = b.item THEN b \in OwnB'.puts ELSE b \in srv_buddies
    BY <1>2, <1>6, <1>12 DEF NoWord
  <1>14. ASSUME NEW g \in Groups
         PROVE  g \in srv_groups' <=>
                  IF answer = "ok" /\ AckG'.key = g.id THEN g \in AckG'.puts ELSE g \in srv_groups
    <2>1. answer = "ok" /\ step = "delgroup" => (gen \in srv_groups /\ \A h \in srv_groups : h.id = gen.id => h = gen)
      BY <1>2 DEF Early, Keyed
    <2> QED
      BY <1>1, <1>2, <1>8, <2>1
  <1> QED
    BY <1>2, <1>3, <1>4, <1>6, <1>9, <1>10, <1>11, <1>13, <1>14, AskMatched

-----------------------------------------------------------------------------
(* The lists are in step: what an edit does with its answer *)

ItemOf == [b \in Buddies |-> b.item]
IdOf   == [g \in Groups |-> g.id]

LEMMA OnceIs ==
  /\ \A s \in Seq(Buddies) : OnceBy(ItemOf, s) <=> \A i, j \in DOMAIN s : s[i].item = s[j].item => i = j
  /\ \A s \in Seq(Groups) : OnceBy(IdOf, s) <=> \A i, j \in DOMAIN s : s[i].id = s[j].id => i = j
  <1>1. ASSUME NEW s \in Seq(Buddies)
        PROVE  OnceBy(ItemOf, s) <=> \A i, j \in DOMAIN s : s[i].item = s[j].item => i = j
    <2>1. \A i \in DOMAIN s : s[i] \in Buddies
      BY ElementOfSeq, LenProperties
    <2>2. \A i \in DOMAIN s : ItemOf[s[i]] = s[i].item
      BY <2>1 DEF ItemOf
    <2> QED
      BY <2>2 DEF OnceBy
  <1>2. ASSUME NEW s \in Seq(Groups)
        PROVE  OnceBy(IdOf, s) <=> \A i, j \in DOMAIN s : s[i].id = s[j].id => i = j
    <2>1. \A i \in DOMAIN s : s[i] \in Groups
      BY ElementOfSeq, LenProperties
    <2>2. \A i \in DOMAIN s : IdOf[s[i]] = s[i].id
      BY <2>1 DEF IdOf
    <2> QED
      BY <2>2 DEF OnceBy
  <1> QED
    BY <1>1, <1>2

\* The keys of the two lists, as the lemmas about lists want them.
LEMMA ListsAre ==
  ASSUME TypeInv
  PROVE  /\ ContactListUins \in Seq(Buddies) /\ ContactListGroups \in Seq(Groups)
         /\ OnceB <=> OnceBy(ItemOf, ContactListUins)
         /\ OnceG <=> OnceBy(IdOf, ContactListGroups)
         /\ ToSet(ContactListUins) \subseteq Buddies /\ ToSet(ContactListGroups) \subseteq Groups
         /\ \A b \in Buddies : ItemOf[b] = b.item
         /\ \A g \in Groups : IdOf[g] = g.id
  <1>1. ContactListUins \in Seq(Buddies) /\ ContactListGroups \in Seq(Groups)
    BY DEF TypeInv, ListT
  <1> QED
    BY <1>1, OnceIs, ToSetType DEF OnceB, OnceG, ItemOf, IdOf

\* Nothing is under way that an edit waits for, and all that is there stays.
LEMMA QuietMatched ==
  ASSUME Early, Early', Matched, UNCHANGED <<inbox, srv_buddies, srv_groups>>, NoAck, waiting' = FALSE,
         OnceB', OnceG', JobG',
         \A b \in Buddies : HasB(b)' <=> HasB(b),
         \A g \in Groups : HasG(g)' <=> HasG(g)
  PROVE  Matched'
  <1>1. PICK n \in Nat : n = Len(inbox)
    BY InboxIs DEF Early
  <1>2. \A j \in 1 .. n : WB'[j] = WB[j] /\ WG'[j] = WG[j]
    BY <1>1, WordsFirst DEF Early
  <1>3. Sync' /\ Good'
    BY <1>1, <1>2, SyncStill DEF Early, Matched
  <1>4. JobB'
    BY DEF JobB
  <1> QED
    BY <1>3, <1>4 DEF Matched

LEMMA NoOwnB ==
  ASSUME ~At("add"), ~At("remove"), ~At("each")
  PROVE  \A b \in Buddies : HasB(b) <=> b \in ToSet(ContactListUins)
  <1>1. OwnB = NoWord
    BY DEF OwnB
  <1>2. \A b \in Buddies : b.item # 0
    BY NumbersAre DEF Buddies
  <1> QED
    BY <1>1, <1>2 DEF HasB, NoWord

\* After a step that ends the wait an entry is there if it is in the list.
LEMMA NextPlainB ==
  ASSUME waiting' = FALSE
  PROVE  \A b \in Buddies : HasB(b)' <=> b \in ToSet(ContactListUins')
  BY DEF HasB, DoneB

LEMMA NextPlainG ==
  ASSUME ToSet(plan') \cap {"push", "erase"} = {}
  PROVE  JobG' /\ \A g \in Groups : HasG(g)' <=> g \in ToSet(ContactListGroups')
  <1>1. \A g \in Groups : g.id # 0
    BY NumbersAre DEF Groups
  <1>2. OwnG' = NoWord /\ JobG'
    BY DEF OwnG, JobG, NoWord
  <1> QED
    BY <1>1, <1>2 DEF HasG, NoWord

\* An edit of one contact: there is no group in its plan, before and after its answer.
LEMMA ShortG ==
  ASSUME Early, NEW step \in {"add", "remove", "privacy"}, At(step),
         plan' \in {<<>>, <<"end">>, <<"content", "end">>}, ContactListGroups' = ContactListGroups
  PROVE  JobG' /\ \A g \in Groups : HasG(g)' <=> HasG(g)
  <1>1. step \in ToSet(plan) /\ Fit(ToSet(plan))
    BY AtStep, PlanIs DEF Early
  <1>2. ToSet(plan) \cap {"push", "erase"} = {}
    BY <1>1 DEF Fit
  <1>3. PICK p \in {<<>>, <<"end">>, <<"content", "end">>} : p = plan'
    OBVIOUS
  <1>4. ToSet(plan') \cap {"push", "erase"} = {}
    BY <1>3, ShortPlans
  <1> QED
    BY <1>2, <1>4, PlainG, NextPlainG

LEMMA ackAddMatched ==
  ASSUME Early, Early', Matched, up, ackAdd
  PROVE  Matched'
  <1>1. At("add") /\ waiting /\ got # "none"
    BY DEF ackAdd, Acked
  <1>2. NoAck
    BY <1>1, NoAckWhen DEF Early
  <1>3. \A b \in ToSet(ContactListUins) : b.item # uen.item
    BY <1>1 DEF Matched, JobB
  <1>4. uen \in Buddies
    BY DEF Early, TypeInv, JobT
  <1>5. CASE got = "needauth" /\ ~uen.wait
    <2>1. PICK e : e = [uen EXCEPT !.wait = TRUE]
      OBVIOUS
    <2>2. e \in Buddies /\ e.item = uen.item
      BY <1>4, <2>1 DEF Buddies
    <2>3. AskAdd(e)
      BY <1>5, <2>1 DEF ackAdd
    <2>4. ~DoneB
      BY <1>5 DEF DoneB
    <2> QED
      BY <1>1, <1>2, <1>3, <2>2, <2>3, <2>4, AskAddMatched
  <1>6. CASE ~(got = "needauth" /\ ~uen.wait)
    <2>1. /\ waiting' = FALSE /\ plan' \in {<<>>, <<"end">>, <<"content", "end">>}
          /\ UNCHANGED <<inbox, srv_buddies, srv_groups, ContactListGroups>>
          /\ ContactListUins' = IF got = "ok" THEN Append(ContactListUins, uen) ELSE ContactListUins
      BY <1>6 DEF ackAdd, server
    <2>2. JobG' /\ \A g \in Groups : HasG(g)' <=> HasG(g)
      BY <1>1, <2>1, ShortG
    <2>3. OnceG'
      BY <2>1 DEF Matched, OnceG
    <2>4. \A b \in Buddies : HasB(b)' <=> b \in ToSet(ContactListUins')
      BY <2>1, NextPlainB
    <2>5. CASE got = "ok"
      <3>1. OwnB = [key |-> uen.item, puts |-> {uen}] /\ DoneB
        BY <1>1, <2>5 DEF OwnB, DoneB
      <3>2. PICK L, M : L = ContactListUins /\ M = Append(L, uen) /\ M = ContactListUins'
        BY <2>1, <2>5
      <3>3. L \in Seq(Buddies) /\ OnceBy(ItemOf, L) /\ ToSet(L) \subseteq Buddies
        BY <3>2, ListsAre DEF Early, Matched
      <3>4. \A b \in ToSet(L) : ItemOf[b] # ItemOf[uen]
        BY <1>3, <1>4, <3>2, <3>3 DEF ItemOf
      <3>5. OnceBy(ItemOf, M)
        BY <1>4, <3>2, <3>3, <3>4, AddedIs
      <3>6. OnceB'
        <4>1. M \in Seq(Buddies)
          BY <3>2 DEF Early, TypeInv, ListT
        <4> QED
          BY <3>2, <3>5, <4>1, OnceIs DEF OnceB
      <3>7. ToSet(M) = ToSet(L) \cup {uen}
        <4>1. M = Append(L, uen) /\ L \in Seq(Buddies) /\ uen \in Buddies
          BY <1>4, <3>2, <3>3
        <4> QED
          BY <4>1, ToSetAppend
      <3>8. ASSUME NEW b \in Buddies PROVE HasB(b)' <=> HasB(b)
        <4>1. HasB(b)' <=> b \in ToSet(L) \/ b = uen
          BY <2>4, <3>2, <3>7
        <4>2. HasB(b) <=> IF uen.item = b.item THEN b = uen ELSE b \in ToSet(L)
          BY <3>1, <3>2 DEF HasB
        <4> QED
          BY <1>3, <3>2, <4>1, <4>2
      <3> QED
        BY <1>2, <2>1, <2>2, <2>3, <3>6, <3>8, QuietMatched
    <2>6. CASE got # "ok"
      <3>1. \A b \in Buddies : HasB(b)' <=> HasB(b)
        BY <2>1, <2>4, <2>6, PlainB DEF DoneB
      <3>2. OnceB'
        BY <2>1, <2>6 DEF Matched, OnceB
      <3> QED
        BY <1>2, <2>1, <2>2, <2>3, <3>1, <3>2, QuietMatched
    <2> QED
      BY <2>5, <2>6
  <1> QED
    BY <1>5, <1>6

LEMMA ackRemoveMatched ==
  ASSUME Early, Early', Matched, ackRemove
  PROVE  Matched'
  <1>1. PICK step \in {"remove", "each"} : At(step) /\ waiting /\ got # "none"
    BY DEF ackRemove, Acked
  <1>2. NoAck
    BY <1>1, NoAckWhen DEF Early
  <1>3. /\ waiting' = FALSE /\ UNCHANGED <<inbox, srv_buddies, srv_groups, ContactListGroups, gen, gr_ind>>
        /\ ContactListUins' = IF got = "ok" THEN Erased(ContactListUins, uen_ind) ELSE ContactListUins
        /\ plan' = AfterRemove
    BY DEF ackRemove, server, found
  <1>4. JobG' /\ \A g \in Groups : HasG(g)' <=> HasG(g)
    <2>1. CASE step = "remove"
      <3>1. plan' \in {<<>>, <<"end">>, <<"content", "end">>}
        BY <1>1, <1>3, <2>1 DEF AfterRemove
      <3> QED
        BY <1>1, <1>3, <2>1, <3>1, ShortG
    <2>2. CASE step = "each"
      <3>1. plan' = Tail(plan)
        BY <1>1, <1>3, <2>2 DEF AfterRemove, At
      <3>2. ToSet(plan) = {"each"} \cup ToSet(plan')
        BY <1>1, <2>2, <3>1, AtStep DEF Early
      <3>3. ~AtGroup
        BY <1>1, <2>2 DEF AtGroup, At
      <3>4. \A g \in Groups : HasG(g)' <=> HasG(g)
        BY <1>3, <3>2, <3>3, SameG
      <3>5. JobG'
        BY <1>3, <3>2 DEF JobG, Matched
      <3> QED
        BY <3>4, <3>5
    <2> QED
      BY <2>1, <2>2
  <1>5. OnceG'
    BY <1>3 DEF Matched, OnceG
  <1>6. \A b \in Buddies : HasB(b)' <=> b \in ToSet(ContactListUins')
    BY <1>3, NextPlainB
  <1>7. CASE got = "ok"
    <2>1. OwnB = [key |-> ContactListUins[uen_ind].item, puts |-> {}] /\ DoneB
      BY <1>1, <1>7 DEF OwnB, DoneB, At
    <2>2. PICK L, M : L = ContactListUins /\ M = Erased(L, uen_ind) /\ M = ContactListUins'
      BY <1>3, <1>7
    <2>3. uen_ind \in 1 .. Len(L) /\ L \in Seq(Buddies) /\ OnceBy(ItemOf, L) /\ ToSet(L) \subseteq Buddies
      BY <1>1, <2>2, ListsAre DEF Early, Matched, JobB
    <2>4. OnceBy(ItemOf, M) /\ ToSet(M) = {x \in ToSet(L) : ItemOf[x] # ItemOf[L[uen_ind]]}
      <3>1. M = Erased(L, uen_ind) /\ L \in Seq(Buddies) /\ uen_ind \in 1 .. Len(L) /\ OnceBy(ItemOf, L)
        BY <2>2, <2>3
      <3> QED
        BY <3>1, ErasedIs
    <2>5. OnceB'
      <3>1. M \in Seq(Buddies)
        BY <2>2 DEF Early, TypeInv, ListT
      <3> QED
        BY <2>2, <2>4, <3>1, OnceIs DEF OnceB
    <2>6. L[uen_ind] \in Buddies
      BY <2>3, ElementOfSeq
    <2>7. ASSUME NEW b \in Buddies PROVE HasB(b)' <=> HasB(b)
      <3>1. HasB(b)' <=> b \in ToSet(L) /\ b.item # L[uen_ind].item
        BY <1>6, <2>2, <2>4, <2>6 DEF ItemOf
      <3>2. HasB(b) <=> IF L[uen_ind].item = b.item THEN FALSE ELSE b \in ToSet(L)
        BY <2>1, <2>2 DEF HasB
      <3> QED
        BY <3>1, <3>2
    <2> QED
      BY <1>2, <1>3, <1>4, <1>5, <2>5, <2>7, QuietMatched
  <1>8. CASE got # "ok"
    <2>1. \A b \in Buddies : HasB(b)' <=> HasB(b)
      BY <1>3, <1>6, <1>8, PlainB DEF DoneB
    <2>2. OnceB'
      BY <1>3, <1>8 DEF Matched, OnceB
    <2> QED
      BY <1>2, <1>3, <1>4, <1>5, <2>1, <2>2, QuietMatched
  <1> QED
    BY <1>7, <1>8

LEMMA ackGroupMatched ==
  ASSUME Early, Early', Matched, ackGroup, "masked" \notin faults'
  PROVE  Matched'
  <1>1. PICK step \in {"content", "addgroup", "delgroup", "master"} : At(step) /\ waiting /\ got # "none"
    BY DEF ackGroup, Acked
  <1>2. NoAck
    BY <1>1, NoAckWhen DEF Early
  <1>3. /\ waiting' = FALSE
        /\ UNCHANGED <<inbox, srv_buddies, srv_groups, ContactListUins, ContactListGroups, gen, gr_ind>>
        /\ plan' = Tail(plan)
        /\ faults' = IF got # "ok" /\ ~At("content") THEN faults \cup {"masked"} ELSE faults
    BY DEF ackGroup, server, client, job, found
  <1>4. step # "content" => got = "ok"
    BY <1>1, <1>3 DEF At
  <1>5. PICK q \in Seq(Steps) :
          /\ q = plan' /\ Fit(ToSet(q)) /\ ToSet(plan) = {step} \cup ToSet(q) /\ step \notin ToSet(q)
    BY <1>1, <1>3, AtStep DEF Early
  <1>6. Fit(ToSet(plan))
    BY PlanIs DEF Early
  <1>7. \A x \in {"push", "erase"} : x \in ToSet(plan) <=> x \in ToSet(plan')
    BY <1>5
  <1>8. OwnG' = OwnG
    BY <1>3, <1>7 DEF OwnG
  <1>9. DoneG' <=> DoneG
    <2>1. CASE step \in {"addgroup", "delgroup"}
      <3>1. DoneG
        BY <1>1, <1>4, <2>1 DEF DoneG, AtGroup
      <3>2. ToSet(q) \cap {"addgroup", "delgroup"} = {}
        BY <1>5, <1>6, <2>1 DEF Fit
      <3> QED
        BY <1>5, <3>1, <3>2 DEF DoneG
    <2>2. CASE step \in {"content", "master"}
      <3>1. ~AtGroup
        BY <1>1, <2>2 DEF AtGroup, At
      <3> QED
        BY <1>3, <1>5, <2>2, <3>1 DEF DoneG
    <2> QED
      BY <2>1, <2>2
  <1>10. \A g \in Groups : HasG(g)' <=> HasG(g)
    BY <1>3, <1>8, <1>9 DEF HasG
  <1>11. JobG'
    BY <1>3, <1>7 DEF JobG, Matched
  <1>12. \A b \in Buddies : HasB(b)' <=> HasB(b)
    <2>1. ~At("add") /\ ~At("remove") /\ ~At("each")
      BY <1>1 DEF At
    <2> QED
      BY <1>3, <2>1, NoOwnB, NextPlainB
  <1>13. OnceB' /\ OnceG'
    BY <1>3 DEF Matched, OnceB, OnceG
  <1> QED
    BY <1>2, <1>3, <1>10, <1>11, <1>12, <1>13, QuietMatched

LEMMA ackPrivacyMatched ==
  ASSUME Early, Early', Matched, ackPrivacy
  PROVE  Matched'
  <1>1. /\ At("privacy") /\ waiting' = FALSE /\ got # "none" /\ plan' = <<>>
        /\ UNCHANGED <<inbox, srv_buddies, srv_groups, ContactListUins, ContactListGroups>>
    BY DEF ackPrivacy, Acked, server
  <1>2. NoAck
    BY <1>1, NoAckWhen DEF Early
  <1>3. JobG' /\ \A g \in Groups : HasG(g)' <=> HasG(g)
    BY <1>1, ShortG
  <1>4. \A b \in Buddies : HasB(b)' <=> HasB(b)
    <2>1. ~At("add") /\ ~At("remove") /\ ~At("each")
      BY <1>1 DEF At
    <2> QED
      BY <1>1, <2>1, NoOwnB, NextPlainB
  <1>5. OnceB' /\ OnceG'
    BY <1>1 DEF Matched, OnceB, OnceG
  <1> QED
    BY <1>1, <1>2, <1>3, <1>4, <1>5, QuietMatched

\* The end of addGroup and removeGroup: the list now has what the server was asked for.
LEMMA endGroupMatched ==
  ASSUME Early, Early', Matched, endGroup
  PROVE  Matched'
  <1>1. PICK step \in {"push", "erase"} : At(step)
    BY DEF endGroup
  <1>2. waiting = FALSE
    BY <1>1, NotWaiting DEF Early
  <1>3. NoAck
    BY <1>2, NoAckWhen DEF Early
  <1>4. ToSet(plan) = {step}
    BY <1>1, AtStep, ToSetEmpty DEF Early
  <1>5. retflag = "ok"
    BY <1>4 DEF Early, AckInv, AckKept
  <1>6. /\ plan' = <<>> /\ UNCHANGED <<inbox, srv_buddies, srv_groups, ContactListUins, waiting>>
        /\ ContactListGroups' = IF step = "push" THEN Append(ContactListGroups, gen)
                                ELSE Erased(ContactListGroups, gr_ind)
    BY <1>1, <1>5 DEF endGroup, server, ack, At
  <1>7. DoneG /\ OwnG = [key |-> gen.id, puts |-> IF step = "push" THEN {gen} ELSE {}]
    BY <1>4 DEF DoneG, OwnG
  <1>8. ASSUME NEW b \in Buddies PROVE HasB(b)' <=> HasB(b)
    BY <1>2, <1>6 DEF HasB, DoneB
  <1>9. OnceB'
    BY <1>6 DEF Matched, OnceB
  <1>10. JobG' /\ \A g \in Groups : HasG(g)' <=> g \in ToSet(ContactListGroups')
    BY <1>6, ToSetEmpty, NextPlainG
  <1>11. gen \in Groups
    BY DEF Early, TypeInv, JobT
  <1>12. PICK L, M : L = ContactListGroups /\ M = ContactListGroups'
    OBVIOUS
  <1>13. L \in Seq(Groups) /\ OnceBy(IdOf, L) /\ ToSet(L) \subseteq Groups /\ M \in Seq(Groups)
    BY <1>12, ListsAre DEF Early, TypeInv, ListT, Matched
  <1>14. OnceBy(IdOf, M) /\ \A g \in Groups : g \in ToSet(M) <=> HasG(g)
    <2>1. CASE step = "push"
      <3>1. \A g \in ToSet(L) : g.id # gen.id
        BY <1>4, <1>12, <2>1 DEF Matched, JobG
      <3>2. \A g \in ToSet(L) : IdOf[g] # IdOf[gen]
        BY <1>11, <1>13, <3>1 DEF IdOf
      <3>3. M = Append(L, gen)
        BY <1>6, <1>12, <2>1
      <3>4. OnceBy(IdOf, M)
        BY <1>11, <1>13, <3>2, <3>3, AddedIs
      <3>5. ToSet(M) = ToSet(L) \cup {gen}
        BY <1>11, <1>13, <3>3, ToSetAppend
      <3>6. ASSUME NEW g \in Groups PROVE g \in ToSet(M) <=> HasG(g)
        <4>1. HasG(g) <=> IF gen.id = g.id THEN g = gen ELSE g \in ToSet(L)
          BY <1>7, <1>12, <2>1 DEF HasG
        <4> QED
          BY <3>1, <3>5, <4>1
      <3> QED
        BY <3>4, <3>6
    <2>2. CASE step = "erase"
      <3>1. gr_ind \in 1 .. Len(L) /\ L[gr_ind].id = gen.id
        BY <1>4, <1>12, <2>2 DEF Matched, JobG
      <3>2. M = Erased(L, gr_ind)
        BY <1>6, <1>12, <2>2
      <3>3. OnceBy(IdOf, M) /\ ToSet(M) = {x \in ToSet(L) : IdOf[x] # IdOf[L[gr_ind]]}
        BY <1>13, <3>1, <3>2, ErasedIs
      <3>4. L[gr_ind] \in Groups
        BY <1>13, <3>1, ElementOfSeq
      <3>5. ASSUME NEW g \in Groups PROVE g \in ToSet(M) <=> HasG(g)
        <4>1. HasG(g) <=> IF gen.id = g.id THEN FALSE ELSE g \in ToSet(L)
          BY <1>7, <1>12, <2>2 DEF HasG
        <4>2. g \in ToSet(M) <=> g \in ToSet(L) /\ g.id # gen.id
          BY <3>1, <3>3, <3>4 DEF IdOf
        <4> QED
          BY <4>1, <4>2
      <3> QED
        BY <3>3, <3>5
    <2> QED
      BY <2>1, <2>2
  <1>15. OnceG'
    BY <1>12, <1>13, <1>14, OnceIs DEF OnceG
  <1> QED
    BY <1>2, <1>3, <1>6, <1>8, <1>9, <1>10, <1>12, <1>14, <1>15, QuietMatched

-----------------------------------------------------------------------------
(* The lists are in step: what the reader applies *)

LEMMA ReadMatched ==
  ASSUME Early, Early', Matched, inbox # <<>>, inbox' = Tail(inbox),
         \/ OwnB' = OwnB /\ AckG' = AckG
         \/ NoAck,
         \A b \in Buddies : HasB(b)' <=> LET w == WordB(Head(inbox), OwnB) IN
                                         IF w.key = b.item THEN b \in w.puts ELSE HasB(b),
         \A g \in Groups : HasG(g)' <=> LET w == WordG(Head(inbox), AckG) IN
                                        IF w.key = g.id THEN g \in w.puts ELSE HasG(g),
         OnceB', OnceG', JobB', JobG', UNCHANGED <<srv_buddies, srv_groups>>
  PROVE  Matched'
  <1>1. PICK n \in Nat \ {0} : n = Len(inbox)
    BY InboxRead DEF Early
  <1>2. /\ DOMAIN inbox = 1 .. n /\ DOMAIN inbox' = 1 .. n - 1
        /\ \A i \in 1 .. n - 1 : inbox'[i] = inbox[i + 1]
        /\ Head(inbox) = inbox[1]
    BY <1>1, InboxRead DEF Early
  <1>3. ASSUME NEW j \in 1 .. n - 1 PROVE WB'[j] = WB[j + 1] /\ WG'[j] = WG[j + 1]
    <2>1. j \in DOMAIN inbox' /\ j + 1 \in DOMAIN inbox /\ inbox'[j] = inbox[j + 1]
      BY <1>2
    <2>2. PICK m : m = inbox[j + 1]
      OBVIOUS
    <2>3. WB'[j] = WordB(m, OwnB') /\ WG'[j] = WordG(m, AckG')
      BY <2>1, <2>2 DEF WB, WG, WordB, WordG
    <2>4. WB[j + 1] = WordB(m, OwnB) /\ WG[j + 1] = WordG(m, AckG)
      BY <2>1, <2>2 DEF WB, WG
    <2>5. NoAck => m.type # "ack"
      BY <2>1, <2>2 DEF NoAck
    <2>6. m.type # "ack" => WordB(m, OwnB') = WordB(m, OwnB) /\ WordG(m, AckG') = WordG(m, AckG)
      BY DEF WordB, WordG
    <2> QED
      BY <2>3, <2>4, <2>5, <2>6
  <1>4. WB[1] = WordB(Head(inbox), OwnB) /\ WG[1] = WordG(Head(inbox), AckG)
    <2>1. 1 \in DOMAIN inbox
      BY <1>2
    <2> QED
      BY <1>2, <2>1 DEF WB, WG
  <1>5. Sync' /\ Good'
    BY <1>1, <1>3, <1>4, SyncRead DEF Early, Matched
  <1> QED
    BY <1>5 DEF Matched

LEMMA readAckMatched == ASSUME Early, Early', Matched, readAck PROVE Matched'
  <1>1. PICK m \in Messages : m = Head(inbox) /\ m.type = "ack" /\ inbox # <<>> /\ inbox' = Tail(inbox)
    BY InboxRead DEF readAck, Early
  <1>2. m.answer \in Answers \ {"none"}
    BY <1>1, OfMessages
  <1>3. waiting /\ got = "none"
    <2>1. 1 \in DOMAIN inbox /\ inbox[1] = m
      BY <1>1, InboxRead DEF Early
    <2> QED
      BY <1>1, <2>1 DEF Early, AckInv, AckOne
  <1>4. /\ got' = m.answer
        /\ UNCHANGED <<srv_buddies, srv_groups, ContactListUins, ContactListGroups, plan, uins, uen, gen,
                       uen_ind, gr_ind, waiting>>
    BY <1>1, <1>3 DEF readAck, server, client, job, found
  <1>5. OwnB' = OwnB /\ OwnG' = OwnG /\ AckG' = AckG
    BY <1>4 DEF OwnB, OwnG, AckG, AtGroup, At
  <1>6. ASSUME NEW b \in Buddies
        PROVE  HasB(b)' <=> LET w == WordB(m, OwnB) IN IF w.key = b.item THEN b \in w.puts ELSE HasB(b)
    <2>1. HasB(b) <=> b \in ToSet(ContactListUins)
      BY <1>3, PlainB DEF DoneB
    <2>2. HasB(b)' <=> IF m.answer = "ok" /\ OwnB.key = b.item THEN b \in OwnB.puts ELSE b \in ToSet(ContactListUins)
      BY <1>3, <1>4, <1>5 DEF HasB, DoneB
    <2>3. b.item # 0
      BY NumbersAre DEF Buddies
    <2> QED
      BY <1>1, <2>1, <2>2, <2>3 DEF WordB, NoWord
  <1>7. ASSUME NEW g \in Groups
        PROVE  HasG(g)' <=> LET w == WordG(m, AckG) IN IF w.key = g.id THEN g \in w.puts ELSE HasG(g)
    <2>1. g.id # 0
      BY NumbersAre DEF Groups
    <2>2. AtGroup' <=> AtGroup
      BY <1>4 DEF AtGroup, At
    <2>3. CASE AtGroup
      <3>1. ToSet(plan) \cap {"addgroup", "delgroup"} # {}
        BY <2>3, AtStep DEF AtGroup, Early
      <3>2. ~DoneG /\ (DoneG' <=> m.answer = "ok") /\ AckG = OwnG
        BY <1>3, <1>4, <2>2, <2>3, <3>1 DEF DoneG, AckG
      <3> QED
        BY <1>1, <1>4, <1>5, <2>1, <3>2 DEF HasG, WordG, NoWord
    <2>4. CASE ~AtGroup
      <3>1. (DoneG' <=> DoneG) /\ AckG = NoWord
        BY <1>4, <2>2, <2>4 DEF DoneG, AckG
      <3> QED
        BY <1>1, <1>4, <1>5, <2>1, <3>1 DEF HasG, WordG, NoWord
    <2> QED
      BY <2>3, <2>4
  <1>8. OnceB' /\ OnceG' /\ JobB' /\ JobG'
    BY <1>4 DEF Matched, OnceB, OnceG, JobB, JobG, At
  <1> QED
    BY <1>1, <1>4, <1>5, <1>6, <1>7, <1>8, ReadMatched

\* What a notification leaves alone.
LEMMA NotifiedKeeps ==
  ASSUME NEW type, Notified(type)
  PROVE  /\ inbox # <<>> /\ inbox' = Tail(inbox) /\ Head(inbox).type = type
         /\ UNCHANGED <<srv_buddies, srv_groups, srv_members, srv_privacy, trans, up, privacy, unknown_item_ids,
                        plan, uins, uen, gen, uen_ind, gr_ind, wish, waiting, got, retflag>>
  BY DEF Notified, server, job, found, ack

\* A contact is told of, and the edit in progress is not about it.
LEMMA BuddyRead ==
  ASSUME Early, Early', Matched, NEW type \in {"buddy", "nobuddy"}, Notified(type),
         NEW c \in Buddies, c = Head(inbox).buddy, ContactListGroups' = ContactListGroups, OnceB',
         \A b \in Buddies : b \in ToSet(ContactListUins') <=>
           IF c.item = b.item THEN type = "buddy" /\ b = c ELSE b \in ToSet(ContactListUins),
         waiting /\ At("add") => c.item # uen.item,
         waiting /\ (At("remove") \/ At("each")) =>
           /\ uen_ind \in 1 .. Len(ContactListUins') /\ ContactListUins'[uen_ind] = ContactListUins[uen_ind]
           /\ ContactListUins[uen_ind].item # c.item
  PROVE  Matched'
  <1>0. PICK P : \A x : x \in P <=> type = "buddy" /\ x = c
    <2>1. \A x : x \in (IF type = "buddy" THEN {c} ELSE {}) <=> type = "buddy" /\ x = c
      OBVIOUS
    <2> QED
      BY <2>1
  <1>1. /\ inbox # <<>> /\ inbox' = Tail(inbox) /\ Head(inbox).type = type
        /\ UNCHANGED <<srv_buddies, srv_groups, plan, uins, uen, gen, uen_ind, gr_ind, waiting, got>>
    BY NotifiedKeeps
  <1>2. OwnG' = OwnG /\ AckG' = AckG /\ (DoneG' <=> DoneG) /\ (DoneB' <=> DoneB) /\ \A s : At(s)' <=> At(s)
    BY <1>1 DEF OwnG, AckG, AtGroup, At, DoneG, DoneB
  <1>3. /\ WordB(Head(inbox), OwnB).key = c.item /\ (\A x : x \in WordB(Head(inbox), OwnB).puts <=> x \in P)
        /\ WordG(Head(inbox), AckG) = NoWord
    BY <1>0, <1>1 DEF WordB, WordG
  <1>4. waiting => OwnB' = OwnB
    BY <1>1, <1>2 DEF OwnB
  <1>5. waiting \in BOOLEAN
    BY DEF Early, TypeInv, AckT
  <1>6. OwnB' = OwnB \/ NoAck
    BY <1>4, <1>5, NoAckWhen DEF Early
  <1>7. waiting => OwnB.key # c.item
    <2>1. c.item # 0
      BY NumbersAre DEF Buddies
    <2> QED
      BY <2>1 DEF OwnB, NoWord
  <1>8. ASSUME NEW b \in Buddies
        PROVE  HasB(b)' <=> LET w == WordB(Head(inbox), OwnB) IN IF w.key = b.item THEN b \in w.puts ELSE HasB(b)
    <2>1. HasB(b)' <=> IF DoneB /\ OwnB.key = b.item THEN b \in OwnB.puts ELSE b \in ToSet(ContactListUins')
      BY <1>2, <1>4 DEF HasB, DoneB
    <2>2. HasB(b) <=> IF DoneB /\ OwnB.key = b.item THEN b \in OwnB.puts ELSE b \in ToSet(ContactListUins)
      BY DEF HasB
    <2>3. DoneB => OwnB.key # c.item
      BY <1>7 DEF DoneB
    <2>4. HasB(b)' <=> IF c.item = b.item THEN b \in P ELSE HasB(b)
      BY <1>0, <2>1, <2>2, <2>3
    <2> QED
      BY <1>3, <2>4
  <1>9. ASSUME NEW g \in Groups
        PROVE  HasG(g)' <=> LET w == WordG(Head(inbox), AckG) IN IF w.key = g.id THEN g \in w.puts ELSE HasG(g)
    <2>1. g.id # 0
      BY NumbersAre DEF Groups
    <2>2. HasG(g)' <=> HasG(g)
      BY <1>2 DEF HasG
    <2> QED
      BY <1>3, <2>1, <2>2 DEF NoWord
  <1>10. JobB'
    <2>1. ASSUME waiting, At("add"), NEW e \in ToSet(ContactListUins') PROVE e.item # uen.item
      <3>1. e \in Buddies
        BY ListsAre, ToSetType DEF Early, TypeInv, ListT
      <3>2. \A x \in ToSet(ContactListUins) : x.item # uen.item
        BY <2>1 DEF Matched, JobB
      <3> QED
        BY <2>1, <3>1, <3>2
    <2> QED
      BY <1>1, <1>2, <2>1 DEF JobB
  <1>11. OnceG' /\ JobG'
    BY <1>1 DEF OnceG, JobG, Matched
  <1> QED
    BY <1>1, <1>2, <1>6, <1>8, <1>9, <1>10, <1>11, ReadMatched

\* The same of a group.
LEMMA GroupRead ==
  ASSUME Early, Early', Matched, NEW type \in {"group", "nogroup"}, Notified(type),
         NEW c \in Groups, c = Head(inbox).group, OnceB', OnceG', JobB',
         OwnB' = OwnB \/ NoAck, \A b \in Buddies : HasB(b)' <=> HasB(b),
         \A g \in Groups : g \in ToSet(ContactListGroups') <=>
           IF c.id = g.id THEN type = "group" /\ g = c ELSE g \in ToSet(ContactListGroups),
         "push" \in ToSet(plan) => c.id # gen.id,
         "erase" \in ToSet(plan) =>
           /\ gr_ind \in 1 .. Len(ContactListGroups') /\ ContactListGroups'[gr_ind] = ContactListGroups[gr_ind]
           /\ ContactListGroups[gr_ind].id # c.id
  PROVE  Matched'
  <1>0. PICK P : \A x : x \in P <=> type = "group" /\ x = c
    <2>1. \A x : x \in (IF type = "group" THEN {c} ELSE {}) <=> type = "group" /\ x = c
      OBVIOUS
    <2> QED
      BY <2>1
  <1>1. /\ inbox # <<>> /\ inbox' = Tail(inbox) /\ Head(inbox).type = type
        /\ UNCHANGED <<srv_buddies, srv_groups, plan, uins, uen, gen, uen_ind, gr_ind, waiting, got>>
    BY NotifiedKeeps
  <1>2. OwnG' = OwnG /\ AckG' = AckG /\ (DoneG' <=> DoneG)
    BY <1>1 DEF OwnG, AckG, AtGroup, At, DoneG
  <1>3. /\ WordG(Head(inbox), AckG).key = c.id /\ (\A x : x \in WordG(Head(inbox), AckG).puts <=> x \in P)
        /\ WordB(Head(inbox), OwnB) = NoWord
    BY <1>0, <1>1 DEF WordB, WordG
  <1>4. OwnG.key # c.id
    <2>1. c.id # 0
      BY NumbersAre DEF Groups
    <2>2. "erase" \in ToSet(plan) => gen.id # c.id
      BY DEF Matched, JobG
    <2> QED
      BY <2>1, <2>2 DEF OwnG, NoWord
  <1>5. ASSUME NEW g \in Groups
        PROVE  HasG(g)' <=> LET w == WordG(Head(inbox), AckG) IN IF w.key = g.id THEN g \in w.puts ELSE HasG(g)
    <2>1. HasG(g)' <=> IF DoneG /\ OwnG.key = g.id THEN g \in OwnG.puts ELSE g \in ToSet(ContactListGroups')
      BY <1>2 DEF HasG
    <2>2. HasG(g) <=> IF DoneG /\ OwnG.key = g.id THEN g \in OwnG.puts ELSE g \in ToSet(ContactListGroups)
      BY DEF HasG
    <2>3. HasG(g)' <=> IF c.id = g.id THEN g \in P ELSE HasG(g)
      BY <1>0, <1>4, <2>1, <2>2
    <2> QED
      BY <1>3, <2>3
  <1>6. ASSUME NEW b \in Buddies
        PROVE  HasB(b)' <=> LET w == WordB(Head(inbox), OwnB) IN IF w.key = b.item THEN b \in w.puts ELSE HasB(b)
    <2>1. b.item # 0
      BY NumbersAre DEF Buddies
    <2> QED
      BY <1>3, <2>1 DEF NoWord
  <1>7. JobG'
    <2>1. ASSUME "push" \in ToSet(plan), NEW h \in ToSet(ContactListGroups') PROVE h.id # gen.id
      <3>1. h \in Groups
        BY ToSetType DEF Early, TypeInv, ListT
      <3>2. \A x \in ToSet(ContactListGroups) : x.id # gen.id
        BY <2>1 DEF Matched, JobG
      <3> QED
        BY <2>1, <3>1, <3>2
    <2>2. "erase" \in ToSet(plan) => ContactListGroups'[gr_ind].id = gen.id
      BY DEF Matched, JobG
    <2> QED
      BY <1>1, <2>1, <2>2 DEF JobG
  <1> QED
    BY <1>1, <1>2, <1>5, <1>6, <1>7, ReadMatched

\* A contact the other client has added, or one whose authorisation has come.
LEMMA buddyMatched ==
  ASSUME Early, Early', Matched, parseSSIAddNotify, Notified("buddy"), "overtaken" \notin faults'
  PROVE  Matched'
  <1>1. PICK c \in Buddies : c = Head(inbox).buddy
    BY NotifiedIs, OfMessages DEF Early
  <1>2. PICK i : i = SelectInSeq(ContactListUins, LAMBDA e : e.item = c.item)
    OBVIOUS
  <1>3. PICK L \in Seq(Buddies) : L = ContactListUins
    BY ListsAre DEF Early
  <1>4. Head(inbox).type = "buddy"
    BY DEF Notified
  <1>5. /\ ContactListUins' = Put(L, i, c) /\ ContactListGroups' = ContactListGroups
        /\ Overtaken(OvertakesContact(c.item, IF i = uen_ind THEN {i} ELSE {}))
    BY <1>1, <1>2, <1>3, <1>4 DEF parseSSIAddNotify, Notified
  <1>6. ~OvertakesContact(c.item, IF i = uen_ind THEN {i} ELSE {})
    BY <1>5 DEF Overtaken
  <1>7. OnceBy(ItemOf, L) /\ ItemOf[c] = c.item
    BY <1>3, ListsAre DEF Early, Matched
  <1>8. \A j \in 1 .. Len(L) : L[j] \in Buddies /\ ItemOf[L[j]] = L[j].item
    BY ElementOfSeq DEF ItemOf
  <1>9. First({j \in 1 .. Len(L) : L[j].item = c.item}, i)
    <2> DEFINE S == {j \in 1 .. Len(L) : L[j].item = c.item}
    <2>1. i = IF S # {} THEN Min(S) ELSE 0
      BY <1>2, <1>3 DEF SelectInSeq
    <2>2. S \subseteq Nat
      OBVIOUS
    <2> HIDE DEF S
    <2>3. First(S, i)
      BY <2>1, <2>2, FirstIs
    <2> QED
      BY <2>3 DEF S
  <1>10. {j \in 1 .. Len(L) : L[j].item = c.item} = {j \in 1 .. Len(L) : ItemOf[L[j]] = ItemOf[c]}
    BY <1>7, <1>8
  <1>11. First({j \in 1 .. Len(L) : ItemOf[L[j]] = ItemOf[c]}, i)
    BY <1>9, <1>10
  <1>12. PICK M : M = Put(L, i, c)
    OBVIOUS
  <1>13. /\ OnceBy(ItemOf, M) /\ ToSet(M) = {x \in ToSet(L) : ItemOf[x] # ItemOf[c]} \cup {c}
         /\ \A p \in 1 .. Len(L) : p \in 1 .. Len(M) /\ (p # i => M[p] = L[p])
    BY <1>7, <1>11, <1>12, PutIs
  <1>14. M = ContactListUins'
    BY <1>5, <1>12
  <1>15. OnceB'
    <2>1. M \in Seq(Buddies)
      BY <1>14 DEF Early, TypeInv, ListT
    <2>2. \A k, l \in DOMAIN M : M[k].item = M[l].item => k = l
      BY <1>13, <2>1, OnceIs
    <2> QED
      BY <1>14, <2>2 DEF OnceB
  <1>16. \A b \in Buddies : b \in ToSet(ContactListUins') <=>
            IF c.item = b.item THEN b \in {c} ELSE b \in ToSet(ContactListUins)
    BY <1>3, <1>13, <1>14 DEF ItemOf
  <1>17. waiting /\ At("add") => c.item # uen.item
    BY <1>6 DEF OvertakesContact
  <1>18. ASSUME waiting, At("remove") \/ At("each")
         PROVE  /\ uen_ind \in 1 .. Len(M) /\ M[uen_ind] = L[uen_ind]
                /\ L[uen_ind].item # c.item
    <2>1. PICK k \in 1 .. Len(L) : k = uen_ind
      BY <1>3, <1>18 DEF Matched, JobB
    <2>2. i # k
      BY <1>6, <1>18, <2>1 DEF OvertakesContact
    <2>3. k \in 1 .. Len(M) /\ M[k] = L[k]
      BY <1>13, <2>1, <2>2
    <2>4. L[k].item # c.item
      <3>1. SUFFICES ASSUME L[k].item = c.item PROVE FALSE
        OBVIOUS
      <3>2. i \in 1 .. Len(L) /\ L[i].item = c.item
        BY <1>9, <3>1 DEF First
      <3>3. i = k
        BY <1>7, <1>8, <3>1, <3>2, LenProperties DEF OnceBy
      <3> QED
        BY <2>2, <3>3
    <2> QED
      BY <2>1, <2>3, <2>4
  <1>19. PICK type : type = "buddy"
    OBVIOUS
  <1>20. Notified(type) /\ type \in {"buddy", "nobuddy"}
    BY <1>19
  <1>21. /\ \A b \in Buddies : b \in ToSet(ContactListUins') <=>
              IF c.item = b.item THEN type = "buddy" /\ b = c ELSE b \in ToSet(ContactListUins)
         /\ waiting /\ (At("remove") \/ At("each")) =>
              /\ uen_ind \in 1 .. Len(ContactListUins') /\ ContactListUins'[uen_ind] = ContactListUins[uen_ind]
              /\ ContactListUins[uen_ind].item # c.item
    BY <1>3, <1>14, <1>16, <1>18, <1>19
  <1> QED
    BY <1>1, <1>5, <1>15, <1>17, <1>20, <1>21, BuddyRead

LEMMA nobuddyMatched ==
  ASSUME Early, Early', Matched, parseSSIDeleteNotify, Notified("nobuddy"), "overtaken" \notin faults'
  PROVE  Matched'
  <1>1. PICK c \in Buddies : c = Head(inbox).buddy
    BY NotifiedIs, OfMessages DEF Early
  <1>2. PICK L \in Seq(Buddies) : L = ContactListUins
    BY ListsAre DEF Early
  <1>3. PICK gone : gone = {i \in DOMAIN L : L[i].item = c.item}
    OBVIOUS
  <1>4. Head(inbox).type = "nobuddy"
    BY DEF Notified
  <1>5. /\ ContactListUins' = Without(L, gone) /\ ContactListGroups' = ContactListGroups
        /\ Overtaken(OvertakesContact(c.item, gone))
    BY <1>1, <1>2, <1>3, <1>4 DEF parseSSIDeleteNotify, Notified
  <1>6. ~OvertakesContact(c.item, gone)
    BY <1>5 DEF Overtaken
  <1>7. OnceBy(ItemOf, L) /\ \A b \in Buddies : ItemOf[b] = b.item
    BY <1>2, ListsAre DEF Early, Matched
  <1>8. DOMAIN L = 1 .. Len(L) /\ \A j \in 1 .. Len(L) : L[j] \in Buddies /\ ItemOf[L[j]] = L[j].item
    BY ElementOfSeq, LenProperties DEF ItemOf
  <1>9. gone = {i \in DOMAIN L : ItemOf[L[i]] = c.item}
    BY <1>3, <1>8
  <1>10. PICK M : M = Without(L, gone)
    OBVIOUS
  <1>11. /\ M \in Seq(Buddies) /\ OnceBy(ItemOf, M)
         /\ \A p \in 1 .. Len(L) : (\A i \in gone : ~(i <= p)) => p \in 1 .. Len(M) /\ M[p] = L[p]
    BY <1>7, <1>10, WithoutKeeps
  <1>12. ToSet(M) = {x \in ToSet(L) : ItemOf[x] # c.item}
    <2>1. gone = GoneBy(ItemOf, L, c.item)
      BY <1>9 DEF GoneBy
    <2>2. \A x : x \in ToSet(Without(L, gone)) <=> x \in ToSet(L) /\ ItemOf[x] # c.item
      BY <2>1, WithoutKey
    <2> QED
      BY <1>10, <2>2
  <1>13. M = ContactListUins'
    BY <1>5, <1>10
  <1>14. OnceB'
    <2>1. \A k, l \in DOMAIN M : M[k].item = M[l].item => k = l
      BY <1>11, OnceIs
    <2> QED
      BY <1>13, <2>1 DEF OnceB
  <1>15. \A b \in Buddies : b \in ToSet(ContactListUins') <=>
            IF c.item = b.item THEN b \in {} ELSE b \in ToSet(ContactListUins)
    BY <1>2, <1>7, <1>12, <1>13
  <1>16. waiting /\ At("add") => c.item # uen.item
    BY <1>6 DEF OvertakesContact
  <1>17. ASSUME waiting, At("remove") \/ At("each")
         PROVE  /\ uen_ind \in 1 .. Len(M) /\ M[uen_ind] = L[uen_ind]
                /\ L[uen_ind].item # c.item
    <2>1. PICK k \in 1 .. Len(L) : k = uen_ind
      BY <1>2, <1>17 DEF Matched, JobB
    <2>2. \A i \in gone : ~(i <= k)
      BY <1>6, <1>17, <2>1 DEF OvertakesContact
    <2>3. k \in 1 .. Len(M) /\ M[k] = L[k]
      BY <1>11, <2>1, <2>2
    <2>4. k \notin gone
      BY <2>2
    <2>5. L[k].item # c.item
      BY <1>3, <1>8, <2>1, <2>4
    <2> QED
      BY <2>1, <2>3, <2>5
  <1>18. PICK type : type = "nobuddy"
    OBVIOUS
  <1>19. Notified(type) /\ type \in {"buddy", "nobuddy"}
    BY <1>18
  <1>20. /\ \A b \in Buddies : b \in ToSet(ContactListUins') <=>
              IF c.item = b.item THEN type = "buddy" /\ b = c ELSE b \in ToSet(ContactListUins)
         /\ waiting /\ (At("remove") \/ At("each")) =>
              /\ uen_ind \in 1 .. Len(ContactListUins') /\ ContactListUins'[uen_ind] = ContactListUins[uen_ind]
              /\ ContactListUins[uen_ind].item # c.item
    BY <1>2, <1>13, <1>15, <1>17, <1>18
  <1> QED
    BY <1>1, <1>5, <1>14, <1>16, <1>19, <1>20, BuddyRead

LEMMA groupMatched ==
  ASSUME Early, Early', Matched, parseSSIAddNotify, Notified("group"), "overtaken" \notin faults'
  PROVE  Matched'
  <1>1. PICK c \in Groups : c = Head(inbox).group
    BY NotifiedIs, OfMessages DEF Early
  <1>2. PICK i : i = SelectInSeq(ContactListGroups, LAMBDA h : h.id = c.id)
    OBVIOUS
  <1>3. PICK L \in Seq(Groups) : L = ContactListGroups
    BY ListsAre DEF Early
  <1>4. Head(inbox).type = "group"
    BY DEF Notified
  <1>5. /\ ContactListGroups' = Put(L, i, c) /\ ContactListUins' = ContactListUins
        /\ Overtaken(OvertakesGroup(c.id, IF i = gr_ind THEN {i} ELSE {}))
    BY <1>1, <1>2, <1>3, <1>4 DEF parseSSIAddNotify, Notified
  <1>6. ~OvertakesGroup(c.id, IF i = gr_ind THEN {i} ELSE {})
    BY <1>5 DEF Overtaken
  <1>7. OnceBy(IdOf, L) /\ IdOf[c] = c.id
    BY <1>3, ListsAre DEF Early, Matched
  <1>8. \A j \in 1 .. Len(L) : L[j] \in Groups /\ IdOf[L[j]] = L[j].id
    BY ElementOfSeq DEF IdOf
  <1>9. First({j \in 1 .. Len(L) : L[j].id = c.id}, i)
    <2> DEFINE S == {j \in 1 .. Len(L) : L[j].id = c.id}
    <2>1. i = IF S # {} THEN Min(S) ELSE 0
      BY <1>2, <1>3 DEF SelectInSeq
    <2>2. S \subseteq Nat
      OBVIOUS
    <2> HIDE DEF S
    <2>3. First(S, i)
      BY <2>1, <2>2, FirstIs
    <2> QED
      BY <2>3 DEF S
  <1>10. {j \in 1 .. Len(L) : L[j].id = c.id} = {j \in 1 .. Len(L) : IdOf[L[j]] = IdOf[c]}
    BY <1>7, <1>8
  <1>11. First({j \in 1 .. Len(L) : IdOf[L[j]] = IdOf[c]}, i)
    BY <1>9, <1>10
  <1>12. PICK M : M = Put(L, i, c)
    OBVIOUS
  <1>13. /\ OnceBy(IdOf, M) /\ ToSet(M) = {x \in ToSet(L) : IdOf[x] # IdOf[c]} \cup {c}
         /\ \A p \in 1 .. Len(L) : p \in 1 .. Len(M) /\ (p # i => M[p] = L[p])
    BY <1>7, <1>11, <1>12, PutIs
  <1>14. M = ContactListGroups'
    BY <1>5, <1>12
  <1>15. OnceG'
    <2>1. M \in Seq(Groups)
      BY <1>14 DEF Early, TypeInv, ListT
    <2>2. \A k, l \in DOMAIN M : M[k].id = M[l].id => k = l
      BY <1>13, <2>1, OnceIs
    <2> QED
      BY <1>14, <2>2 DEF OnceG
  <1>16. \A g \in Groups : g \in ToSet(ContactListGroups') <=>
            IF c.id = g.id THEN g \in {c} ELSE g \in ToSet(ContactListGroups)
    BY <1>3, <1>13, <1>14 DEF IdOf
  <1>17. "push" \in ToSet(plan) => c.id # gen.id
    BY <1>6 DEF OvertakesGroup
  <1>18. ASSUME "erase" \in ToSet(plan)
         PROVE  /\ gr_ind \in 1 .. Len(M) /\ M[gr_ind] = L[gr_ind]
                /\ L[gr_ind].id # c.id
    <2>1. PICK k \in 1 .. Len(L) : k = gr_ind
      BY <1>3, <1>18 DEF Matched, JobG
    <2>2. i # k
      BY <1>6, <1>18, <2>1 DEF OvertakesGroup
    <2>3. k \in 1 .. Len(M) /\ M[k] = L[k]
      BY <1>13, <2>1, <2>2
    <2>4. L[k].id # c.id
      <3>1. SUFFICES ASSUME L[k].id = c.id PROVE FALSE
        OBVIOUS
      <3>2. i \in 1 .. Len(L) /\ L[i].id = c.id
        BY <1>9, <3>1 DEF First
      <3>3. i = k
        BY <1>7, <1>8, <3>1, <3>2, LenProperties DEF OnceBy
      <3> QED
        BY <2>2, <3>3
    <2> QED
      BY <2>1, <2>3, <2>4
  <1>19. PICK type : type = "group"
    OBVIOUS
  <1>20. UNCHANGED <<plan, uins, uen, gen, uen_ind, waiting, got>>
    BY NotifiedKeeps
  <1>21. OnceB' /\ JobB' /\ OwnB' = OwnB /\ \A b \in Buddies : HasB(b)' <=> HasB(b)
    <2>1. OnceB' /\ JobB'
      BY <1>5, <1>20 DEF Matched, OnceB, JobB, At
    <2>2. OwnB' = OwnB /\ (DoneB' <=> DoneB)
      BY <1>5, <1>20 DEF OwnB, DoneB, At
    <2> QED
      BY <1>5, <2>1, <2>2 DEF HasB
  <1>22. Notified(type) /\ type \in {"group", "nogroup"}
    BY <1>19
  <1>23. /\ \A g \in Groups : g \in ToSet(ContactListGroups') <=>
              IF c.id = g.id THEN type = "group" /\ g = c ELSE g \in ToSet(ContactListGroups)
         /\ "erase" \in ToSet(plan) =>
              /\ gr_ind \in 1 .. Len(ContactListGroups')
              /\ ContactListGroups'[gr_ind] = ContactListGroups[gr_ind]
              /\ ContactListGroups[gr_ind].id # c.id
    BY <1>3, <1>14, <1>16, <1>18, <1>19
  <1> QED
    BY <1>1, <1>15, <1>17, <1>21, <1>22, <1>23, GroupRead

\* A group of which the next word says that it is gone has no contacts left.
LEMMA NoneLeft ==
  ASSUME Early, Matched, inbox # <<>>, Head(inbox).type = "nogroup", NEW c \in Groups, c = Head(inbox).group
  PROVE  \A b \in Buddies : HasB(b) => b.group # c.id
  <1>1. PICK n \in Nat \ {0} : n = Len(inbox)
    BY InboxIs, EmptySeq DEF Early, TypeInv, LinkT
  <1>2. 1 \in 0 .. Len(inbox)
    BY <1>1
  <1>3. GoodAt(1)
    BY <1>2 DEF Matched, Good
  <1>4. 1 \in DOMAIN inbox /\ inbox[1] = Head(inbox)
    BY <1>1, InboxIs DEF Early
  <1>5. WB[1] = NoWord /\ WG[1] = [key |-> c.id, puts |-> {}]
    BY <1>4 DEF WB, WG, WordB, WordG
  <1>6. ASSUME NEW b \in Buddies PROVE AfterB(1, b) <=> HasB(b)
    <2>1. b.item # 0
      BY NumbersAre DEF Buddies
    <2>2. AfterB(0 + 1, b) <=> IF WB[0 + 1].key = b.item THEN b \in WB[0 + 1].puts ELSE AfterB(0, b)
      BY MoreB
    <2>3. AfterB(1, b) <=> IF WB[1].key = b.item THEN b \in WB[1].puts ELSE AfterB(0, b)
      BY <2>2
    <2> QED
      BY <1>5, <2>1, <2>3, NoneB DEF NoWord
  <1>7. ASSUME NEW g \in Groups, g.id = c.id PROVE ~AfterG(1, g)
    <2>1. AfterG(0 + 1, g) <=> IF WG[0 + 1].key = g.id THEN g \in WG[0 + 1].puts ELSE AfterG(0, g)
      BY MoreG
    <2>2. AfterG(1, g) <=> IF WG[1].key = g.id THEN g \in WG[1].puts ELSE AfterG(0, g)
      BY <2>1
    <2> QED
      BY <1>5, <1>7, <2>2
  <1> QED
    BY <1>3, <1>6, <1>7 DEF GoodAt

\* The group takes its contacts along, and none was left: the words said so.
LEMMA nogroupMatched ==
  ASSUME Early, Early', Matched, parseSSIDeleteNotify, Notified("nogroup"), "overtaken" \notin faults'
  PROVE  Matched'
  <1>1. PICK c \in Groups : c = Head(inbox).group
    BY NotifiedIs, OfMessages DEF Early
  <1>2. PICK L \in Seq(Buddies), Lg \in Seq(Groups) : L = ContactListUins /\ Lg = ContactListGroups
    BY ListsAre DEF Early
  <1>3. PICK gone, places : gone = {i \in DOMAIN L : L[i].group = c.id} /\ places = {i \in DOMAIN Lg : Lg[i].id = c.id}
    OBVIOUS
  <1>4. Head(inbox).type = "nogroup"
    BY DEF Notified
  <1>5. /\ ContactListUins' = Without(L, gone) /\ ContactListGroups' = Without(Lg, places)
        /\ ~OvertakesContact(0, gone) /\ ~OvertakesGroup(c.id, places)
    BY <1>1, <1>2, <1>3, <1>4 DEF parseSSIDeleteNotify, Notified
  <1>6. /\ OnceBy(ItemOf, L) /\ OnceBy(IdOf, Lg)
        /\ (\A b \in Buddies : ItemOf[b] = b.item) /\ (\A g \in Groups : IdOf[g] = g.id)
    BY <1>2, ListsAre DEF Early, Matched
  <1>7. /\ DOMAIN L = 1 .. Len(L) /\ \A j \in 1 .. Len(L) : L[j] \in Buddies
        /\ DOMAIN Lg = 1 .. Len(Lg) /\ \A j \in 1 .. Len(Lg) : Lg[j] \in Groups
    BY ElementOfSeq, LenProperties
  <1>8. places = {i \in DOMAIN Lg : IdOf[Lg[i]] = c.id}
    BY <1>3, <1>6, <1>7
  <1>9. PICK M, Mg : M = Without(L, gone) /\ Mg = Without(Lg, places)
    OBVIOUS
  <1>10. M = ContactListUins' /\ Mg = ContactListGroups'
    BY <1>5, <1>9
  <1>11. /\ M \in Seq(Buddies) /\ ToSet(M) = {L[i] : i \in (1 .. Len(L)) \ gone} /\ OnceBy(ItemOf, M)
         /\ \A p \in 1 .. Len(L) : (\A i \in gone : ~(i <= p)) => p \in 1 .. Len(M) /\ M[p] = L[p]
    BY <1>6, <1>9, WithoutKeeps
  <1>12. /\ Mg \in Seq(Groups) /\ OnceBy(IdOf, Mg)
         /\ \A p \in 1 .. Len(Lg) : (\A i \in places : ~(i <= p)) => p \in 1 .. Len(Mg) /\ Mg[p] = Lg[p]
    BY <1>6, <1>9, WithoutKeeps
  <1>13. ToSet(Mg) = {x \in ToSet(Lg) : IdOf[x] # c.id}
    <2>1. places = GoneBy(IdOf, Lg, c.id)
      BY <1>8 DEF GoneBy
    <2>2. \A x : x \in ToSet(Without(Lg, places)) <=> x \in ToSet(Lg) /\ IdOf[x] # c.id
      BY <2>1, WithoutKey
    <2> QED
      BY <1>9, <2>2
  <1>14. OnceB' /\ OnceG'
    <2>1. (\A k, l \in DOMAIN M : M[k].item = M[l].item => k = l) /\ (\A k, l \in DOMAIN Mg : Mg[k].id = Mg[l].id => k = l)
      BY <1>11, <1>12, OnceIs
    <2> QED
      BY <1>10, <2>1 DEF OnceB, OnceG
  <1>15. \A b : b \in ToSet(M) <=> b \in ToSet(L) /\ b.group # c.id
    <2>1. \A b : b \in ToSet(L) <=> \E i \in 1 .. Len(L) : L[i] = b
      BY ToSetMember
    <2> QED
      BY <1>3, <1>7, <1>11, <2>1
  <1>16. UNCHANGED <<plan, uins, uen, gen, uen_ind, gr_ind, waiting, got>> /\ inbox # <<>>
    BY NotifiedKeeps
  <1>17. ASSUME waiting, At("remove") \/ At("each")
         PROVE  uen_ind \in 1 .. Len(M) /\ M[uen_ind] = L[uen_ind]
    <2>1. PICK k \in 1 .. Len(L) : k = uen_ind
      BY <1>2, <1>17 DEF Matched, JobB
    <2>2. \A i \in gone : ~(i <= k)
      BY <1>5, <1>17, <2>1 DEF OvertakesContact
    <2> QED
      BY <1>11, <2>1, <2>2
  <1>18. waiting => OwnB' = OwnB
    BY <1>2, <1>10, <1>16, <1>17 DEF OwnB, At
  <1>19. waiting \in BOOLEAN
    BY DEF Early, TypeInv, AckT
  <1>20. OwnB' = OwnB \/ NoAck
    BY <1>18, <1>19, NoAckWhen DEF Early
  <1>21. JobB'
    <2>1. ASSUME waiting, At("add"), NEW e \in ToSet(M) PROVE e.item # uen.item
      BY <1>2, <1>15, <2>1 DEF Matched, JobB
    <2>2. At("add")' <=> At("add")
      BY <1>16 DEF At
    <2>3. (At("remove") \/ At("each"))' <=> At("remove") \/ At("each")
      BY <1>16 DEF At
    <2> QED
      BY <1>10, <1>16, <1>17, <2>1, <2>2, <2>3 DEF JobB
  <1>22. \A b \in Buddies : HasB(b) => b.group # c.id
    BY <1>1, <1>4, <1>16, NoneLeft
  <1>23. ASSUME NEW b \in Buddies PROVE HasB(b)' <=> HasB(b)
    <2>1. DoneB' <=> DoneB
      BY <1>16 DEF DoneB
    <2>2. DoneB => OwnB' = OwnB
      BY <1>18 DEF DoneB
    <2>3. HasB(b)' <=> IF DoneB /\ OwnB.key = b.item THEN b \in OwnB.puts ELSE b \in ToSet(M)
      BY <1>10, <2>1, <2>2 DEF HasB
    <2>4. HasB(b) <=> IF DoneB /\ OwnB.key = b.item THEN b \in OwnB.puts ELSE b \in ToSet(L)
      BY <1>2 DEF HasB
    <2> QED
      BY <1>15, <1>22, <2>3, <2>4
  <1>24. \A g \in Groups : g \in ToSet(ContactListGroups') <=>
            IF c.id = g.id THEN g \in {} ELSE g \in ToSet(ContactListGroups)
    BY <1>2, <1>6, <1>10, <1>13
  <1>25. "push" \in ToSet(plan) => c.id # gen.id
    BY <1>5 DEF OvertakesGroup
  <1>26. ASSUME "erase" \in ToSet(plan)
         PROVE  /\ gr_ind \in 1 .. Len(Mg) /\ Mg[gr_ind] = Lg[gr_ind]
                /\ Lg[gr_ind].id # c.id
    <2>1. PICK k \in 1 .. Len(Lg) : k = gr_ind
      BY <1>2, <1>26 DEF Matched, JobG
    <2>2. \A i \in places : ~(i <= k)
      BY <1>5, <1>26, <2>1 DEF OvertakesGroup
    <2>3. k \in 1 .. Len(Mg) /\ Mg[k] = Lg[k]
      BY <1>12, <2>1, <2>2
    <2>4. k \notin places
      BY <2>2
    <2> QED
      BY <1>3, <1>7, <2>1, <2>3, <2>4
  <1>27. PICK type : type = "nogroup"
    OBVIOUS
  <1>28. Notified(type) /\ type \in {"group", "nogroup"}
    BY <1>27
  <1>29. /\ \A g \in Groups : g \in ToSet(ContactListGroups') <=>
              IF c.id = g.id THEN type = "group" /\ g = c ELSE g \in ToSet(ContactListGroups)
         /\ "erase" \in ToSet(plan) =>
              /\ gr_ind \in 1 .. Len(ContactListGroups')
              /\ ContactListGroups'[gr_ind] = ContactListGroups[gr_ind]
              /\ ContactListGroups[gr_ind].id # c.id
    BY <1>2, <1>10, <1>24, <1>26, <1>27
  <1> QED
    BY <1>1, <1>14, <1>20, <1>21, <1>23, <1>25, <1>28, <1>29, GroupRead

\* What the reader passes over.
LEMMA privacyMatched ==
  ASSUME Early, Early', Matched, parseSSIAddNotify, Notified("privacy") PROVE Matched'
  <1>1. /\ inbox # <<>> /\ inbox' = Tail(inbox) /\ Head(inbox).type = "privacy"
        /\ UNCHANGED <<srv_buddies, srv_groups, plan, uins, uen, gen, uen_ind, gr_ind, waiting, got>>
    BY NotifiedKeeps
  <1>2. ContactListUins' = ContactListUins /\ ContactListGroups' = ContactListGroups
    BY <1>1 DEF parseSSIAddNotify, Notified
  <1>3. OwnB' = OwnB /\ AckG' = AckG /\ (\A b \in Buddies : HasB(b)' <=> HasB(b)) /\ (\A g \in Groups : HasG(g)' <=> HasG(g))
    <2>1. OwnB' = OwnB /\ OwnG' = OwnG /\ AckG' = AckG /\ (DoneB' <=> DoneB) /\ (DoneG' <=> DoneG)
      BY <1>1, <1>2 DEF OwnB, OwnG, AckG, AtGroup, At, DoneG, DoneB
    <2> QED
      BY <1>2, <2>1 DEF HasB, HasG
  <1>4. WordB(Head(inbox), OwnB) = NoWord /\ WordG(Head(inbox), AckG) = NoWord
    BY <1>1 DEF WordB, WordG
  <1>5. (\A b \in Buddies : b.item # 0) /\ (\A g \in Groups : g.id # 0)
    BY NumbersAre DEF Buddies, Groups
  <1>6. OnceB' /\ OnceG' /\ JobB' /\ JobG'
    BY <1>1, <1>2 DEF Matched, OnceB, OnceG, JobB, JobG, At
  <1>7. \A b \in Buddies : HasB(b)' <=> LET w == WordB(Head(inbox), OwnB) IN
                                        IF w.key = b.item THEN b \in w.puts ELSE HasB(b)
    BY <1>3, <1>4, <1>5 DEF NoWord
  <1>8. \A g \in Groups : HasG(g)' <=> LET w == WordG(Head(inbox), AckG) IN
                                       IF w.key = g.id THEN g \in w.puts ELSE HasG(g)
    BY <1>3, <1>4, <1>5 DEF NoWord
  <1> QED
    BY <1>1, <1>3, <1>6, <1>7, <1>8, ReadMatched

LEMMA ReaderMatched ==
  ASSUME Early, Early', Matched, Reader, "overtaken" \notin faults'
  PROVE  Matched'
  <1>1. CASE readAck
    BY <1>1, readAckMatched
  <1>2. CASE parseSSIAddNotify
    <2>1. Notified("buddy") \/ Notified("group") \/ Notified("privacy")
      BY <1>2 DEF parseSSIAddNotify
    <2> QED
      BY <1>2, <2>1, buddyMatched, groupMatched, privacyMatched
  <1>3. CASE parseSSIDeleteNotify
    <2>1. Notified("nobuddy") \/ Notified("nogroup")
      BY <1>3 DEF parseSSIDeleteNotify
    <2> QED
      BY <1>3, <2>1, nobuddyMatched, nogroupMatched
  <1> QED
    BY <1>1, <1>2, <1>3 DEF Reader

-----------------------------------------------------------------------------
(* The lists are in step: the other client, and a login *)

LEMMA ForeignMatched ==
  ASSUME Early, Early', Matched, up, Foreign, NEW m \in Messages, m.type # "ack", Notify(m),
         \A b \in Buddies : b \in srv_buddies' <=> LET w == WordB(m, OwnB) IN
                            IF w.key = b.item THEN b \in w.puts ELSE b \in srv_buddies,
         \A g \in Groups : g \in srv_groups' <=> LET w == WordG(m, AckG) IN
                           IF w.key = g.id THEN g \in w.puts ELSE g \in srv_groups
  PROVE  Matched'
  <1>1. /\ inbox' = Append(inbox, m)
        /\ UNCHANGED <<ContactListUins, ContactListGroups, plan, uins, uen, gen, uen_ind, gr_ind, waiting, got>>
    BY DEF Foreign, Notify, client, job, found, ack
  <1>2. OwnB' = OwnB /\ OwnG' = OwnG /\ AckG' = AckG /\ (DoneB' <=> DoneB) /\ (DoneG' <=> DoneG)
    BY <1>1 DEF OwnB, OwnG, AckG, AtGroup, At, DoneG, DoneB
  <1>3. (\A b \in Buddies : HasB(b)' <=> HasB(b)) /\ (\A g \in Groups : HasG(g)' <=> HasG(g))
    BY <1>1, <1>2 DEF HasB, HasG
  <1>4. PICK n \in Nat : n = Len(inbox)
    BY InboxIs DEF Early
  <1>5. /\ Len(inbox') = n + 1 /\ DOMAIN inbox' = 1 .. n + 1 /\ inbox'[n + 1] = m
        /\ \A i \in 1 .. n : inbox'[i] = inbox[i]
    BY <1>1, <1>4, InboxMore DEF Early
  <1>6. \A j \in 1 .. n : WB'[j] = WB[j] /\ WG'[j] = WG[j]
    <2>1. n <= Len(inbox) /\ n <= Len(inbox')
      BY <1>4, <1>5
    <2> QED
      BY <1>2, <1>5, <2>1, WordsFirst DEF Early
  <1>7. WB'[n + 1] = WordB(m, OwnB) /\ WG'[n + 1] = WordG(m, AckG)
    <2>1. n + 1 \in DOMAIN inbox'
      BY <1>5
    <2>2. WB'[n + 1] = WordB(m, OwnB') /\ WG'[n + 1] = WordG(m, AckG')
      BY <1>5, <2>1 DEF WB, WG, WordB, WordG
    <2>3. WordB(m, OwnB') = WordB(m, OwnB) /\ WordG(m, AckG') = WordG(m, AckG)
      BY DEF WordB, WordG
    <2> QED
      BY <2>2, <2>3
  <1>8. /\ \A b \in Buddies : b \in srv_buddies' <=>
             IF WB'[n + 1].key = b.item THEN b \in WB'[n + 1].puts ELSE b \in srv_buddies
        /\ \A g \in Groups : g \in srv_groups' <=>
             IF WG'[n + 1].key = g.id THEN g \in WG'[n + 1].puts ELSE g \in srv_groups
    BY <1>7
  <1>9. srv_buddies' \subseteq Buddies /\ srv_groups' \subseteq Groups /\ Keyed'
    BY DEF Early, TypeInv, SrvT
  <1>10. Sync' /\ Good'
    BY <1>1, <1>3, <1>4, <1>6, <1>8, <1>9, SyncMore DEF Early, Matched
  <1>11. OnceB' /\ OnceG' /\ JobB' /\ JobG'
    BY <1>1 DEF Matched, OnceB, OnceG, JobB, JobG, At
  <1> QED
    BY <1>10, <1>11 DEF Matched

LEMMA OthersMatched == ASSUME Early, Early', Matched, up, Others PROVE Matched'
  <1>0. /\ srv_buddies \subseteq Buddies /\ srv_groups \subseteq Groups
        /\ (\A b, c \in srv_buddies : b.item = c.item => b = c)
        /\ (\A g, h \in srv_groups : g.id = h.id => g = h)
        /\ (\A b \in Buddies : b.item # 0) /\ (\A g \in Groups : g.id # 0)
    BY NumbersAre DEF Early, TypeInv, SrvT, Keyed, Buddies, Groups
  <1>1. ASSUME NEW m \in Messages, NEW c \in Buddies, m.type \in {"buddy", "nobuddy"}, m.buddy = c,
               Foreign, Notify(m), srv_groups' = srv_groups,
               \A b \in Buddies : b \in srv_buddies' <=>
                 IF c.item = b.item THEN b = c /\ m.type = "buddy" ELSE b \in srv_buddies
        PROVE  Matched'
    <2>1. WordB(m, OwnB).key = c.item /\ (\A b : b \in WordB(m, OwnB).puts <=> b = c /\ m.type = "buddy")
      BY <1>1 DEF WordB
    <2>2. WordG(m, AckG) = NoWord
      BY <1>1 DEF WordG
    <2>3. \A b \in Buddies : b \in srv_buddies' <=> LET w == WordB(m, OwnB) IN
                             IF w.key = b.item THEN b \in w.puts ELSE b \in srv_buddies
      BY <1>1, <2>1
    <2>4. \A g \in Groups : g \in srv_groups' <=> LET w == WordG(m, AckG) IN
                            IF w.key = g.id THEN g \in w.puts ELSE g \in srv_groups
      BY <1>0, <1>1, <2>2 DEF NoWord
    <2> QED
      BY <1>1, <2>3, <2>4, ForeignMatched
  <1>2. ASSUME NEW m \in Messages, NEW c \in Groups, m.type \in {"group", "nogroup"}, m.group = c,
               Foreign, Notify(m), srv_buddies' = srv_buddies,
               \A g \in Groups : g \in srv_groups' <=>
                 IF c.id = g.id THEN g = c /\ m.type = "group" ELSE g \in srv_groups
        PROVE  Matched'
    <2>1. WordG(m, AckG).key = c.id /\ (\A g : g \in WordG(m, AckG).puts <=> g = c /\ m.type = "group")
      BY <1>2 DEF WordG
    <2>2. WordB(m, OwnB) = NoWord
      BY <1>2 DEF WordB
    <2>3. \A g \in Groups : g \in srv_groups' <=> LET w == WordG(m, AckG) IN
                            IF w.key = g.id THEN g \in w.puts ELSE g \in srv_groups
      BY <1>2, <2>1
    <2>4. \A b \in Buddies : b \in srv_buddies' <=> LET w == WordB(m, OwnB) IN
                             IF w.key = b.item THEN b \in w.puts ELSE b \in srv_buddies
      BY <1>0, <1>2, <2>2 DEF NoWord
    <2> QED
      BY <1>2, <2>3, <2>4, ForeignMatched
  <1>3. ASSUME NEW b \in Buddies, otherAdds(b) PROVE Matched'
    <2>1. PICK m \in Messages : m = [type |-> "buddy", buddy |-> b]
      BY MessagesAre
    <2>2. Foreign /\ Notify(m) /\ srv_buddies' = srv_buddies \cup {b} /\ srv_groups' = srv_groups /\ Acceptable(b)
      BY <1>3, <2>1 DEF otherAdds
    <2>3. \A d \in srv_buddies : d.item # b.item
      BY <2>2, AcceptableIs
    <2>4. m.type = "buddy" /\ m.buddy = b
      BY <2>1
    <2> QED
      BY <1>1, <2>2, <2>3, <2>4
  <1>4. ASSUME NEW b \in srv_buddies, otherGrants(b) PROVE Matched'
    <2>1. PICK c : c = [b EXCEPT !.wait = FALSE]
      OBVIOUS
    <2>2. c \in Buddies /\ c.item = b.item
      BY <1>0, <2>1 DEF Buddies
    <2>3. PICK m \in Messages : m = [type |-> "buddy", buddy |-> c]
      BY <2>2, MessagesAre
    <2>4. Foreign /\ Notify(m) /\ srv_buddies' = (srv_buddies \ {b}) \cup {c} /\ srv_groups' = srv_groups
      BY <1>4, <2>1, <2>3 DEF otherGrants
    <2>5. m.type = "buddy" /\ m.buddy = c
      BY <2>3
    <2>6. \A d \in Buddies : d \in srv_buddies' <=>
            IF c.item = d.item THEN d = c /\ m.type = "buddy" ELSE d \in srv_buddies
      BY <1>0, <2>2, <2>4, <2>5
    <2> QED
      BY <1>1, <2>2, <2>4, <2>5, <2>6
  <1>5. ASSUME NEW b \in srv_buddies, otherDeletes(b) PROVE Matched'
    <2>1. PICK m \in Messages : m = [type |-> "nobuddy", buddy |-> b]
      BY <1>0, MessagesAre
    <2>2. Foreign /\ Notify(m) /\ srv_buddies' = srv_buddies \ {b} /\ srv_groups' = srv_groups
      BY <1>5, <2>1 DEF otherDeletes
    <2>3. m.type = "nobuddy" /\ m.buddy = b
      BY <2>1
    <2>4. \A d \in Buddies : d \in srv_buddies' <=>
            IF b.item = d.item THEN d = b /\ m.type = "buddy" ELSE d \in srv_buddies
      BY <1>0, <2>2, <2>3
    <2> QED
      BY <1>0, <1>1, <2>2, <2>3, <2>4
  <1>6. ASSUME NEW g \in Groups, otherAddsGroup(g) PROVE Matched'
    <2>1. PICK m \in Messages : m = [type |-> "group", group |-> g]
      BY MessagesAre
    <2>2. /\ Foreign /\ Notify(m) /\ srv_groups' = srv_groups \cup {g} /\ srv_buddies' = srv_buddies
          /\ \A h \in srv_groups : h.id # g.id
      BY <1>6, <2>1 DEF otherAddsGroup
    <2>3. m.type = "group" /\ m.group = g
      BY <2>1
    <2> QED
      BY <1>2, <2>2, <2>3
  <1>7. ASSUME NEW g \in srv_groups, otherDeletesGroup(g) PROVE Matched'
    <2>1. PICK m \in Messages : m = [type |-> "nogroup", group |-> g]
      BY <1>0, MessagesAre
    <2>2. Foreign /\ Notify(m) /\ srv_groups' = srv_groups \ {g} /\ srv_buddies' = srv_buddies
      BY <1>7, <2>1 DEF otherDeletesGroup
    <2>3. m.type = "nogroup" /\ m.group = g
      BY <2>1
    <2>4. \A h \in Groups : h \in srv_groups' <=>
            IF g.id = h.id THEN h = g /\ m.type = "group" ELSE h \in srv_groups
      BY <1>0, <2>2, <2>3
    <2> QED
      BY <1>0, <1>2, <2>2, <2>3, <2>4
  <1>8. ASSUME NEW p \in Privacy, otherSetsPrivacy(p) PROVE Matched'
    <2>1. PICK m \in Messages : m = [type |-> "privacy"]
      BY MessagesAre
    <2>2. Foreign /\ Notify(m) /\ srv_groups' = srv_groups /\ srv_buddies' = srv_buddies
      BY <1>8, <2>1 DEF otherSetsPrivacy
    <2>3. m.type = "privacy"
      BY <2>1
    <2>4. WordB(m, OwnB) = NoWord /\ WordG(m, AckG) = NoWord
      BY <2>3 DEF WordB, WordG
    <2>5. \A b \in Buddies : b \in srv_buddies' <=> LET w == WordB(m, OwnB) IN
                             IF w.key = b.item THEN b \in w.puts ELSE b \in srv_buddies
      BY <1>0, <2>2, <2>4 DEF NoWord
    <2>6. \A g \in Groups : g \in srv_groups' <=> LET w == WordG(m, AckG) IN
                            IF w.key = g.id THEN g \in w.puts ELSE g \in srv_groups
      BY <1>0, <2>2, <2>4 DEF NoWord
    <2> QED
      BY <2>2, <2>3, <2>5, <2>6, ForeignMatched
  <1> QED
    BY <1>3, <1>4, <1>5, <1>6, <1>7, <1>8 DEF Others

\* The list of a login is the server's.
LEMMA LoginMatched == ASSUME Early, Early', Login PROVE Matched'
  <1>1. /\ plan' = <<>> /\ inbox' = <<>> /\ waiting' = FALSE /\ UNCHANGED <<srv_buddies, srv_groups>>
        /\ ContactListUins' \in SetToSeqs(srv_buddies) /\ ContactListGroups' \in SetToSeqs(srv_groups)
    <2>1. plan = <<>> /\ ~up /\ UNCHANGED <<plan, inbox, waiting, srv_buddies, srv_groups>>
      BY DEF Login, ack, server
    <2>2. inbox = <<>>
      BY <2>1 DEF Early, AckInv, Down
    <2>3. waiting = FALSE
      BY <2>1, NotWaiting DEF Early
    <2> QED
      BY <2>1, <2>2, <2>3 DEF Login
  <1>2. PICK L, Lg : L = ContactListUins' /\ Lg = ContactListGroups'
    OBVIOUS
  <1>3. IsFiniteSet(srv_buddies) /\ IsFiniteSet(srv_groups) /\ srv_buddies \subseteq Buddies /\ srv_groups \subseteq Groups
    BY DEF Early, TypeInv, SrvT
  <1>4. /\ L \in Seq(srv_buddies) /\ ToSet(L) = srv_buddies /\ \A i, j \in DOMAIN L : L[i] = L[j] => i = j
        /\ Lg \in Seq(srv_groups) /\ ToSet(Lg) = srv_groups /\ \A i, j \in DOMAIN Lg : Lg[i] = Lg[j] => i = j
    BY <1>1, <1>2, <1>3, AllInOrder
  <1>5. OnceB' /\ OnceG'
    <2>1. (\A i \in DOMAIN L : L[i] \in srv_buddies) /\ (\A i \in DOMAIN Lg : Lg[i] \in srv_groups)
      BY <1>4, ElementOfSeq, LenProperties
    <2>2. (\A i, j \in DOMAIN L : L[i].item = L[j].item => i = j) /\ (\A i, j \in DOMAIN Lg : Lg[i].id = Lg[j].id => i = j)
      BY <1>4, <2>1 DEF Early, Keyed
    <2> QED
      BY <1>2, <2>2 DEF OnceB, OnceG
  <1>6. ToSet(plan') = {} /\ Len(inbox') = 0
    BY <1>1, ToSetEmpty, EmptySeq
  <1>7. JobB' /\ JobG'
    BY <1>1, <1>6 DEF JobB, JobG
  <1>8. ASSUME NEW b \in Buddies PROVE AfterB(0, b)' <=> b \in srv_buddies
    <2>1. PICK n : n = 0
      OBVIOUS
    <2>2. HasB(b)' <=> b \in srv_buddies
      BY <1>1, <1>2, <1>4, NextPlainB
    <2> QED
      BY <2>2 DEF AfterB, After
  <1>9. ASSUME NEW g \in Groups PROVE AfterG(0, g)' <=> g \in srv_groups
    <2>1. ToSet(plan') \cap {"push", "erase"} = {}
      BY <1>6
    <2>2. HasG(g)' <=> g \in srv_groups
      BY <1>2, <1>4, <2>1, NextPlainG
    <2> QED
      BY <2>2 DEF AfterG, After
  <1>10. Sync'
    BY <1>1, <1>6, <1>8, <1>9 DEF Sync
  <1>11. GoodAt(0)'
    <2>1. ASSUME NEW b \in Buddies, AfterB(0, b)' PROVE \E g \in Groups : g.id = b.group /\ AfterG(0, g)'
      <3>1. b \in srv_buddies
        BY <1>8, <2>1
      <3>2. PICK g \in srv_groups : g.id = b.group
        BY <3>1 DEF Early, Keyed
      <3> QED
        BY <1>3, <1>9, <3>2
    <2>2. ASSUME NEW b \in Buddies, NEW c \in Buddies, AfterB(0, b)', AfterB(0, c)', b.uin = c.uin PROVE b = c
      <3>1. b \in srv_buddies /\ c \in srv_buddies
        BY <1>8, <2>2
      <3> QED
        BY <2>2, <3>1 DEF Early, Keyed
    <2> QED
      BY <2>1, <2>2 DEF GoodAt
  <1>12. Good'
    <2>1. \A n : n \in 0 .. Len(inbox') => n = 0
      BY <1>6
    <2> QED
      BY <1>11, <2>1 DEF Good
  <1> QED
    BY <1>5, <1>7, <1>10, <1>12 DEF Matched

-----------------------------------------------------------------------------
(* The lists are in step, whatever happens *)

LEMMA StutterMatched == ASSUME Early, Early', Matched, UNCHANGED vars PROVE Matched'
  <1>1. UNCHANGED <<inbox, srv_buddies, srv_groups, ContactListUins, ContactListGroups, plan, uen, gen,
                    uen_ind, gr_ind, waiting, got>>
    BY DEF vars, server, client, job, found, ack
  <1>2. OwnB' = OwnB /\ OwnG' = OwnG /\ AckG' = AckG /\ (DoneB' <=> DoneB) /\ (DoneG' <=> DoneG)
    BY <1>1 DEF OwnB, OwnG, AckG, AtGroup, At, DoneG, DoneB
  <1>3. (\A b \in Buddies : HasB(b)' <=> HasB(b)) /\ (\A g \in Groups : HasG(g)' <=> HasG(g))
    BY <1>1, <1>2 DEF HasB, HasG
  <1>4. PICK n \in Nat : n = Len(inbox)
    BY InboxIs DEF Early
  <1>5. \A j \in 1 .. n : WB'[j] = WB[j] /\ WG'[j] = WG[j]
    BY <1>1, <1>2, <1>4, WordsFirst DEF Early
  <1>6. Sync' /\ Good'
    BY <1>1, <1>3, <1>4, <1>5, SyncStill DEF Early, Matched
  <1> QED
    BY <1>1, <1>6 DEF Matched, OnceB, OnceG, JobB, JobG, At

\* Only a login forgets what has come between the edits.
LEMMA FaultsStay ==
  ASSUME [Next]_vars, ~Login
  PROVE  (up' => up) /\ faults \subseteq faults'
  <1>1. CASE Menu
    BY <1>1 DEF Menu, Call, addContact, removeContact, addGroup, removeGroup, setMyPrivacyStatus
  <1>2. CASE Transact \/ ackRemove \/ ackGroup \/ ackPrivacy \/ endGroup \/ crash \/ giveUp
    BY <1>2 DEF Transact, ackRemove, ackGroup, ackPrivacy, endGroup, crash, giveUp
  <1>3. ASSUME NEW e, AskAdd(e) PROVE (up' => up) /\ faults \subseteq faults'
    BY <1>3, AskAddIs DEF Ask
  <1>4. CASE sub_ssi_addContact \/ ackAdd
    BY <1>3, <1>4 DEF sub_ssi_addContact, ackAdd, FailToSend
  <1>5. CASE sub_ssi_removeContact \/ updateSSIGroupContent \/ updateMasterGroup \/ askPrivacy
    BY <1>5 DEF sub_ssi_removeContact, updateSSIGroupContent, updateMasterGroup, askPrivacy, FailToSend, Ask
  <1>6. CASE askAddGroup \/ askDeleteGroup
    BY <1>6 DEF askAddGroup, askDeleteGroup, FailToSend, Ask
  <1>7. CASE Reader
    <2>1. up' = up
      BY <1>7 DEF Reader, readAck, parseSSIAddNotify, parseSSIDeleteNotify, Notified
    <2>2. faults \subseteq faults'
      BY <1>7 DEF Reader, readAck, parseSSIAddNotify, parseSSIDeleteNotify, Overtaken
    <2> QED
      BY <2>1, <2>2
  <1>8. CASE Others
    <2>1. Foreign
      BY <1>8 DEF Others, otherAdds, otherGrants, otherDeletes, otherAddsGroup, otherDeletesGroup,
         otherSetsPrivacy
    <2> QED
      BY <2>1 DEF Foreign
  <1>9. CASE Disconnect \/ UNCHANGED vars
    BY <1>9 DEF Disconnect, vars
  <1> QED
    BY <1>1, <1>2, <1>4, <1>5, <1>6, <1>7, <1>8, <1>9 DEF Next, Edit

\* MirrorInv is inductive, beside the facts about the plan and the ack.
LEMMA MatchedNext == ASSUME Early, MirrorInv, [Next]_vars PROVE MirrorInv'
  <1> SUFFICES ASSUME up', Undisturbed' PROVE Matched'
    BY DEF MirrorInv, Matched
  <1>1. Early'
    BY EarlyNext
  <1>2. CASE Login
    BY <1>1, <1>2, LoginMatched
  <1>3. CASE ~Login
    <2>1. up /\ faults \subseteq faults'
      BY <1>3, FaultsStay
    <2>2. "timeout" \notin faults' /\ "overtaken" \notin faults' /\ "masked" \notin faults'
      BY DEF Undisturbed
    <2>3. Matched
      BY <2>1, <2>2 DEF MirrorInv, Matched, Undisturbed
    <2>4. CASE Menu
      BY <1>1, <2>3, <2>4, MenuMatched
    <2>5. CASE Transact
      BY <1>1, <2>1, <2>3, <2>5, TransactMatched
    <2>6. CASE sub_ssi_addContact \/ sub_ssi_removeContact
      BY <1>1, <2>3, <2>6, sub_ssi_addContactMatched, sub_ssi_removeContactMatched
    <2>7. CASE updateSSIGroupContent \/ updateMasterGroup \/ askPrivacy
      BY <1>1, <2>1, <2>3, <2>7, OtherRequestsMatched
    <2>8. CASE askAddGroup \/ askDeleteGroup
      BY <1>1, <2>1, <2>3, <2>8, AskGroupMatched
    <2>9. CASE ackAdd \/ ackRemove
      BY <1>1, <2>1, <2>3, <2>9, ackAddMatched, ackRemoveMatched
    <2>10. CASE ackGroup \/ ackPrivacy \/ endGroup
      BY <1>1, <2>1, <2>2, <2>3, <2>10, ackGroupMatched, ackPrivacyMatched, endGroupMatched
    <2>11. CASE Disconnect \/ crash
      BY <2>11 DEF Disconnect, crash
    <2>12. CASE giveUp
      BY <2>1, <2>2, <2>12 DEF giveUp
    <2>13. CASE Reader
      BY <1>1, <2>2, <2>3, <2>13, ReaderMatched
    <2>14. CASE Others
      BY <1>1, <2>1, <2>3, <2>14, OthersMatched
    <2>15. CASE UNCHANGED vars
      BY <1>1, <2>3, <2>15, StutterMatched
    <2> QED
      BY <1>3, <2>4, <2>5, <2>6, <2>7, <2>8, <2>9, <2>10, <2>11, <2>12, <2>13, <2>14, <2>15 DEF Next, Edit
  <1> QED
    BY <1>2, <1>3

LEMMA MirrorInvAlways == Spec => [](Early /\ MirrorInv)
  <1>1. Init => Early /\ MirrorInv
    <2>1. Init => MirrorInv
      BY DEF Init, MirrorInv
    <2> QED
      BY <2>1, EarlyInit
  <1>2. Early /\ MirrorInv /\ [Next]_vars => (Early /\ MirrorInv)'
    BY EarlyNext, MatchedNext
  <1> QED
    BY <1>1, <1>2, PTL DEF Spec

-----------------------------------------------------------------------------
(* The ids of unknown items, and who can see the user *)

LEMMA KnownNext == ASSUME KnownIds, [Next]_vars PROVE KnownIds'
  <1>1. CASE Login
    BY <1>1 DEF Login, KnownIds
  <1>2. CASE ~Login
    <2>1. SUFFICES ASSUME up' PROVE up /\ unknown_item_ids' = unknown_item_ids
      BY DEF KnownIds
    <2>2. up
      BY <1>2, <2>1, FaultsStay
    <2>3. CASE Menu
      BY <2>2, <2>3 DEF Menu, Call, addContact, removeContact, addGroup, removeGroup, setMyPrivacyStatus, client
    <2>4. CASE Transact \/ ackRemove \/ ackGroup \/ ackPrivacy \/ endGroup \/ crash \/ giveUp
      BY <2>1, <2>2, <2>4 DEF Transact, ackRemove, ackGroup, ackPrivacy, endGroup, crash, giveUp, client
    <2>5. CASE sub_ssi_addContact \/ ackAdd
      BY <2>2, <2>5, AskAddIs DEF sub_ssi_addContact, ackAdd, FailToSend, Ask, client
    <2>6. CASE sub_ssi_removeContact \/ updateSSIGroupContent \/ updateMasterGroup \/ askPrivacy
      BY <2>2, <2>6 DEF sub_ssi_removeContact, updateSSIGroupContent, updateMasterGroup, askPrivacy, FailToSend,
         Ask, client
    <2>7. CASE askAddGroup \/ askDeleteGroup
      BY <2>2, <2>7 DEF askAddGroup, askDeleteGroup, FailToSend, Ask, client
    <2>8. CASE Reader
      BY <2>2, <2>8 DEF Reader, readAck, parseSSIAddNotify, parseSSIDeleteNotify, Notified, client
    <2>9. CASE Others
      BY <2>2, <2>9 DEF Others, otherAdds, otherGrants, otherDeletes, otherAddsGroup, otherDeletesGroup,
         otherSetsPrivacy, Foreign, client
    <2>10. CASE Disconnect \/ UNCHANGED vars
      BY <2>1, <2>2, <2>10 DEF Disconnect, vars, client
    <2> QED
      BY <1>2, <2>2, <2>3, <2>4, <2>5, <2>6, <2>7, <2>8, <2>9, <2>10 DEF Next, Edit
  <1> QED
    BY <1>1, <1>2

NoPrivacy == \A i \in DOMAIN inbox : inbox[i].type # "privacy"

\* A step that is not about the privacy, or leaves what is known of it alone.
LEMMA PrivacySame ==
  ASSUME PrivacyInv, UNCHANGED <<srv_privacy, privacy>>,
         \/ ~OwnP /\ ~OwnP'
         \/ (OwnP' <=> OwnP) /\ wish' = wish,
         up' => up /\ faults \subseteq faults',
         up' /\ Undisturbed' /\ "unread" \notin faults' /\ NoPrivacy' => NoPrivacy
  PROVE  PrivacyInv'
  <1>1. up' /\ Undisturbed' => up /\ Undisturbed
    BY DEF Undisturbed
  <1>2. srv_privacy'.item = 0 => ~OwnP' /\ srv_privacy'.stat = PRIV_ALL_CAN_SEE /\ privacy' = srv_privacy'
    BY DEF PrivacyInv
  <1>3. up' /\ Undisturbed' /\ "unread" \notin faults' /\ NoPrivacy'
          => srv_privacy' = IF OwnP' THEN wish' ELSE privacy'
    BY <1>1 DEF PrivacyInv, NoPrivacy
  <1> QED
    BY <1>2, <1>3 DEF PrivacyInv, NoPrivacy

\* A message is appended or read that is not the ack.
LEMMA GrantedSame ==
  ASSUME TypeInv, UNCHANGED <<plan, waiting, got>>,
         \/ inbox' = inbox
         \/ \E m \in Messages : m.type # "ack" /\ inbox' = Append(inbox, m)
         \/ inbox # <<>> /\ inbox' = Tail(inbox) /\ Head(inbox).type # "ack"
  PROVE  (OwnP' <=> OwnP) /\ (Granted' <=> Granted)
  <1>1. (\E i \in DOMAIN inbox' : inbox'[i].type = "ack" /\ inbox'[i].answer = "ok")
          <=> \E i \in DOMAIN inbox : inbox[i].type = "ack" /\ inbox[i].answer = "ok"
    <2>1. CASE inbox' = inbox
      BY <2>1
    <2>2. ASSUME NEW m \in Messages, m.type # "ack", inbox' = Append(inbox, m)
          PROVE  (\E i \in DOMAIN inbox' : inbox'[i].type = "ack" /\ inbox'[i].answer = "ok")
                   <=> \E i \in DOMAIN inbox : inbox[i].type = "ack" /\ inbox[i].answer = "ok"
      <3>1. PICK n \in Nat : n = Len(inbox)
        BY InboxIs
      <3>2. /\ DOMAIN inbox = 1 .. n /\ DOMAIN inbox' = 1 .. n + 1
            /\ \A i \in 1 .. n : inbox'[i] = inbox[i]
            /\ inbox'[n + 1] = m
        BY <2>2, <3>1, InboxMore
      <3>3. \A i : i \in 1 .. n + 1 <=> i \in 1 .. n \/ i = n + 1
        BY <3>1
      <3> QED
        BY <2>2, <3>2, <3>3
    <2>3. CASE inbox # <<>> /\ inbox' = Tail(inbox) /\ Head(inbox).type # "ack"
      <3>1. PICK n \in Nat \ {0} : n = Len(inbox)
        BY <2>3, InboxRead
      <3>2. /\ DOMAIN inbox = 1 .. n /\ DOMAIN inbox' = 1 .. n - 1
            /\ \A i \in 1 .. n - 1 : inbox'[i] = inbox[i + 1]
            /\ Head(inbox) = inbox[1]
        BY <2>3, <3>1, InboxRead
      <3>3. (\A i \in 1 .. n - 1 : i + 1 \in 1 .. n) /\ \A i \in 1 .. n : i = 1 \/ (i - 1 \in 1 .. n - 1 /\ (i - 1) + 1 = i)
        BY <3>1
      <3>4. ASSUME NEW i \in 1 .. n, inbox[i].type = "ack", inbox[i].answer = "ok"
            PROVE  \E j \in 1 .. n - 1 : inbox'[j].type = "ack" /\ inbox'[j].answer = "ok"
        <4>1. i - 1 \in 1 .. n - 1 /\ inbox'[i - 1] = inbox[(i - 1) + 1] /\ (i - 1) + 1 = i
          BY <2>3, <3>2, <3>3, <3>4
        <4> QED
          BY <3>4, <4>1
      <3>5. ASSUME NEW j \in 1 .. n - 1, inbox'[j].type = "ack", inbox'[j].answer = "ok"
            PROVE  \E i \in 1 .. n : inbox[i].type = "ack" /\ inbox[i].answer = "ok"
        <4>1. j + 1 \in 1 .. n /\ inbox'[j] = inbox[j + 1]
          BY <3>2, <3>3, <3>5
        <4> QED
          BY <3>5, <4>1
      <3> QED
        BY <3>2, <3>4, <3>5
    <2> QED
      BY <2>1, <2>2, <2>3
  <1> QED
    BY <1>1 DEF OwnP, Granted, At

\* The one ack there is goes from what is under way to the cache.
LEMMA readAckGranted ==
  ASSUME Early, readAck
  PROVE  (Granted' <=> Granted) /\ UNCHANGED <<plan, waiting>>
  <1>1. PICK m \in Messages : m = Head(inbox) /\ m.type = "ack" /\ inbox # <<>> /\ inbox' = Tail(inbox)
    BY InboxRead DEF readAck, Early
  <1>2. PICK n \in Nat \ {0} : n = Len(inbox)
    BY <1>1, InboxRead DEF Early
  <1>3. /\ DOMAIN inbox = 1 .. n /\ DOMAIN inbox' = 1 .. n - 1
        /\ \A i \in 1 .. n - 1 : inbox'[i] = inbox[i + 1]
        /\ Head(inbox) = inbox[1]
    BY <1>1, <1>2, InboxRead DEF Early
  <1>4. 1 \in DOMAIN inbox /\ inbox[1] = m
    BY <1>1, <1>3
  <1>5. waiting /\ got = "none" /\ \A j \in DOMAIN inbox : inbox[j].type = "ack" => j = 1
    BY <1>1, <1>4 DEF Early, AckInv, AckOne
  <1>6. got' = m.answer /\ UNCHANGED <<plan, waiting>>
    BY <1>1, <1>5 DEF readAck
  <1>7. \A i \in 1 .. n - 1 : i + 1 \in 1 .. n /\ i + 1 # 1
    BY <1>2
  <1>8. \A i \in DOMAIN inbox' : inbox'[i].type # "ack"
    BY <1>3, <1>5, <1>7
  <1> QED
    BY <1>1, <1>4, <1>5, <1>6, <1>8 DEF Granted

LEMMA readAckPrivacy ==
  ASSUME Early, PrivacyInv, readAck PROVE PrivacyInv'
  <1>1. PICK m \in Messages : m = Head(inbox) /\ m.type = "ack" /\ inbox # <<>> /\ inbox' = Tail(inbox)
    BY InboxRead DEF readAck, Early
  <1>2. PICK n \in Nat \ {0} : n = Len(inbox)
    BY <1>1, InboxRead DEF Early
  <1>3. /\ DOMAIN inbox = 1 .. n /\ DOMAIN inbox' = 1 .. n - 1
        /\ \A i \in 1 .. n - 1 : inbox'[i] = inbox[i + 1]
        /\ inbox[1] = m
    BY <1>1, <1>2, InboxRead DEF Early
  <1>4. UNCHANGED <<srv_privacy, privacy, up, faults, plan, wish, waiting>>
    BY DEF readAck, server, client, found
  <1>5. OwnP' <=> OwnP
    BY <1>4, readAckGranted DEF OwnP, At
  <1>6. NoPrivacy' => NoPrivacy
    <2>1. ASSUME NoPrivacy', NEW i \in 1 .. n PROVE inbox[i].type # "privacy"
      <3>1. CASE i = 1
        BY <1>1, <1>3, <3>1
      <3>2. CASE i # 1
        <4>1. i - 1 \in 1 .. n - 1 /\ (i - 1) + 1 = i
          BY <1>2, <3>2
        <4>2. inbox'[i - 1] = inbox[i]
          BY <1>3, <4>1
        <4> QED
          BY <1>3, <2>1, <4>1, <4>2 DEF NoPrivacy
      <3> QED
        BY <3>1, <3>2
    <2> QED
      BY <1>3, <2>1 DEF NoPrivacy
  <1> QED
    BY <1>4, <1>5, <1>6, PrivacySame

LEMMA NotifiedPrivacy ==
  ASSUME Early, PrivacyInv, NEW type \in {"buddy", "group", "privacy", "nobuddy", "nogroup"}, Notified(type),
         type = "privacy" => "unread" \in faults', faults \subseteq faults'
  PROVE  PrivacyInv'
  <1>1. /\ inbox # <<>> /\ inbox' = Tail(inbox) /\ Head(inbox).type = type
        /\ UNCHANGED <<srv_privacy, privacy, up, plan, waiting, got, wish>>
    BY NotifiedKeeps
  <1>2. OwnP' <=> OwnP
    BY <1>1, GrantedSame DEF Early
  <1>3. PICK n \in Nat \ {0} : n = Len(inbox)
    BY <1>1, InboxRead DEF Early
  <1>4. /\ DOMAIN inbox = 1 .. n /\ DOMAIN inbox' = 1 .. n - 1
        /\ \A i \in 1 .. n - 1 : inbox'[i] = inbox[i + 1]
        /\ Head(inbox) = inbox[1]
    BY <1>1, <1>3, InboxRead DEF Early
  <1>5. ASSUME NoPrivacy', type # "privacy", NEW i \in 1 .. n PROVE inbox[i].type # "privacy"
    <2>1. CASE i = 1
      BY <1>1, <1>4, <1>5, <2>1
    <2>2. CASE i # 1
      <3>1. i - 1 \in 1 .. n - 1 /\ (i - 1) + 1 = i
        BY <1>3, <2>2
      <3>2. inbox'[i - 1] = inbox[i]
        BY <1>4, <3>1
      <3> QED
        BY <1>4, <1>5, <3>1, <3>2 DEF NoPrivacy
    <2> QED
      BY <2>1, <2>2
  <1>6. NoPrivacy' /\ type # "privacy" => NoPrivacy
    BY <1>4, <1>5 DEF NoPrivacy
  <1> QED
    BY <1>1, <1>2, <1>6, PrivacySame

LEMMA OthersPrivacy == ASSUME Early, PrivacyInv, Others PROVE PrivacyInv'
  <1>0. /\ srv_buddies \subseteq Buddies /\ srv_groups \subseteq Groups
    BY DEF Early, TypeInv, SrvT
  <1>1. ASSUME NEW m \in Messages, m.type # "ack", Foreign, Notify(m)
        PROVE  /\ OwnP' <=> OwnP
               /\ UNCHANGED <<privacy, wish, up, faults>>
               /\ NoPrivacy' => NoPrivacy
               /\ m.type = "privacy" /\ up => ~NoPrivacy'
    <2>1. /\ UNCHANGED <<privacy, wish, up, faults, plan, waiting, got>>
          /\ inbox' = IF up THEN Append(inbox, m) ELSE inbox
      BY <1>1 DEF Foreign, Notify, client, found, ack
    <2>2. CASE ~up
      <3>1. inbox' = inbox
        BY <2>1, <2>2
      <3> QED
        BY <2>1, <2>2, <3>1, GrantedSame DEF Early, NoPrivacy
    <2>3. CASE up
      <3>1. inbox' = Append(inbox, m)
        BY <2>1, <2>3
      <3>2. PICK n \in Nat : n = Len(inbox)
        BY InboxIs DEF Early
      <3>3. /\ DOMAIN inbox = 1 .. n /\ DOMAIN inbox' = 1 .. n + 1
            /\ \A i \in 1 .. n : inbox'[i] = inbox[i]
            /\ inbox'[n + 1] = m
        BY <3>1, <3>2, InboxMore DEF Early
      <3>4. n + 1 \in 1 .. n + 1 /\ \A i \in 1 .. n : i \in 1 .. n + 1
        BY <3>2
      <3>5. (NoPrivacy' => NoPrivacy) /\ (m.type = "privacy" => ~NoPrivacy')
        BY <3>3, <3>4 DEF NoPrivacy
      <3>6. OwnP' <=> OwnP
        BY <1>1, <2>1, <3>1, GrantedSame DEF Early
      <3> QED
        BY <2>1, <3>5, <3>6
    <2> QED
      BY <2>2, <2>3
  <1>2. ASSUME NEW m \in Messages, m.type # "ack", Foreign, Notify(m), srv_privacy' = srv_privacy
        PROVE  PrivacyInv'
    <2>1. (OwnP' <=> OwnP) /\ UNCHANGED <<privacy, wish, up, faults>> /\ (NoPrivacy' => NoPrivacy)
      BY <1>1, <1>2
    <2> QED
      BY <1>2, <2>1, PrivacySame
  <1>3. ASSUME NEW b \in Buddies, NEW t \in {"buddy", "nobuddy"}, Foreign, Notify([type |-> t, buddy |-> b]),
               srv_privacy' = srv_privacy
        PROVE  PrivacyInv'
    <2>1. PICK m \in Messages : m = [type |-> t, buddy |-> b]
      BY MessagesAre
    <2>2. m.type # "ack" /\ Notify(m)
      BY <1>3, <2>1
    <2> QED
      BY <1>2, <1>3, <2>2
  <1>4. ASSUME NEW g \in Groups, NEW t \in {"group", "nogroup"}, Foreign, Notify([type |-> t, group |-> g]),
               srv_privacy' = srv_privacy
        PROVE  PrivacyInv'
    <2>1. PICK m \in Messages : m = [type |-> t, group |-> g]
      BY MessagesAre
    <2>2. m.type # "ack" /\ Notify(m)
      BY <1>4, <2>1
    <2> QED
      BY <1>2, <1>4, <2>2
  <1>5. ASSUME NEW b \in Buddies, otherAdds(b) PROVE PrivacyInv'
    BY <1>3, <1>5 DEF otherAdds
  <1>6. ASSUME NEW b \in srv_buddies, otherGrants(b) PROVE PrivacyInv'
    <2>1. PICK c : c = [b EXCEPT !.wait = FALSE]
      OBVIOUS
    <2>2. c \in Buddies
      BY <1>0, <2>1 DEF Buddies
    <2>3. Foreign /\ Notify([type |-> "buddy", buddy |-> c]) /\ srv_privacy' = srv_privacy
      BY <1>6, <2>1 DEF otherGrants
    <2> QED
      BY <1>3, <2>2, <2>3
  <1>7. ASSUME NEW b \in srv_buddies, otherDeletes(b) PROVE PrivacyInv'
    BY <1>0, <1>3, <1>7 DEF otherDeletes
  <1>8. ASSUME NEW g \in Groups, otherAddsGroup(g) PROVE PrivacyInv'
    BY <1>4, <1>8 DEF otherAddsGroup
  <1>9. ASSUME NEW g \in srv_groups, otherDeletesGroup(g) PROVE PrivacyInv'
    BY <1>0, <1>4, <1>9 DEF otherDeletesGroup
  <1>10. ASSUME NEW p \in Privacy, otherSetsPrivacy(p) PROVE PrivacyInv'
    <2>1. PICK m \in Messages : m = [type |-> "privacy"]
      BY MessagesAre
    <2>2. m.type = "privacy" /\ Notify(m) /\ Foreign /\ srv_privacy' = p
      BY <1>10, <2>1 DEF otherSetsPrivacy
    <2>3. srv_privacy'.item # 0
      <3>1. Free(p.item) => p.item # 0
        BY NumbersAre DEF Free
      <3> QED
        BY <1>10, <2>2, <3>1 DEF otherSetsPrivacy
    <2>4. up' = up /\ (up => ~NoPrivacy')
      BY <1>1, <2>2
    <2> QED
      BY <2>3, <2>4 DEF PrivacyInv, NoPrivacy
  <1> QED
    BY <1>5, <1>6, <1>7, <1>8, <1>9, <1>10 DEF Others

\* The request of setMyPrivacyStatus and its answer.
LEMMA askPrivacyPrivacy == ASSUME Early, PrivacyInv, askPrivacy PROVE PrivacyInv'
  <1>1. At("privacy") /\ waiting = FALSE
    BY DEF askPrivacy, Early, TypeInv, AckT
  <1>2. NoAck /\ ~OwnP
    BY <1>1, NoAckWhen DEF Early, OwnP
  <1>3. CASE FailToSend
    <2>1. UNCHANGED <<srv_privacy, privacy, up, faults, inbox>> /\ waiting' = FALSE
      BY <1>3 DEF FailToSend, Fail, server, client
    <2> QED
      BY <1>2, <2>1, PrivacySame DEF OwnP, NoPrivacy
  <1>4. CASE ~FailToSend
    <2>a. PICK item : item = IF privacy.item = 0 THEN getUnusedItemID ELSE privacy.item
      OBVIOUS
    <2>b. PICK fits \in BOOLEAN :
            fits <=> IF privacy.item = 0 THEN srv_privacy.item = 0 /\ Free(item) ELSE srv_privacy.item = item
      OBVIOUS
    <2>1. /\ up /\ Ask(IF fits THEN "ok" ELSE "refused")
          /\ wish' = [wish EXCEPT !.item = item]
          /\ srv_privacy' = IF fits THEN wish' ELSE srv_privacy
          /\ UNCHANGED faults
      BY <1>4, <2>a, <2>b DEF askPrivacy
    <2>2. PICK answer \in {"ok", "refused"} : answer = IF fits THEN "ok" ELSE "refused"
      OBVIOUS
    <2>3. PICK m \in Messages : m = [type |-> "ack", answer |-> answer]
      BY <2>2, MessagesAre DEF Answers
    <2>4. waiting' = TRUE /\ got' = "none" /\ inbox' = Append(inbox, m) /\ UNCHANGED <<privacy, up, plan>>
      BY <2>1, <2>2, <2>3 DEF Ask, client
    <2>5. PICK n \in Nat : n = Len(inbox)
      BY InboxIs DEF Early
    <2>6. /\ DOMAIN inbox = 1 .. n /\ DOMAIN inbox' = 1 .. n + 1
          /\ \A i \in 1 .. n : inbox'[i] = inbox[i]
          /\ inbox'[n + 1] = m
      BY <2>4, <2>5, InboxMore DEF Early
    <2>7. n + 1 \in 1 .. n + 1 /\ \A i : i \in 1 .. n + 1 <=> i \in 1 .. n \/ i = n + 1
      BY <2>5
    <2>8. OwnP' <=> answer = "ok"
      <3>1. m.type = "ack" /\ m.answer = answer
        BY <2>3
      <3>2. At("privacy")'
        BY <1>1, <2>4 DEF At
      <3> QED
        BY <1>2, <2>4, <2>6, <2>7, <3>1, <3>2 DEF OwnP, Granted, NoAck
    <2>9. CASE ~fits
      <3>1. ~OwnP' /\ srv_privacy' = srv_privacy
        BY <2>1, <2>2, <2>8, <2>9
      <3>2. NoPrivacy' => NoPrivacy
        BY <2>6, <2>7 DEF NoPrivacy
      <3> QED
        BY <1>2, <2>1, <2>4, <3>1, <3>2, PrivacySame
    <2>10. CASE fits
      <3>1. OwnP' /\ srv_privacy' = wish'
        BY <2>1, <2>2, <2>8, <2>10
      <3>2. item # 0
        BY <2>b, <2>a, <2>10, NumbersAre DEF Free
      <3>3. wish'.item = item
        BY <2>1 DEF Early, TypeInv, PrivT, Privacy
      <3> QED
        BY <3>1, <3>2, <3>3 DEF PrivacyInv
    <2> QED
      BY <2>9, <2>10
  <1> QED
    BY <1>3, <1>4

LEMMA ackPrivacyPrivacy == ASSUME Early, PrivacyInv, ackPrivacy PROVE PrivacyInv'
  <1>1. At("privacy") /\ waiting /\ got # "none"
    BY DEF ackPrivacy, Acked
  <1>2. NoAck
    BY <1>1, NoAckWhen DEF Early
  <1>3. OwnP <=> got = "ok"
    BY <1>1, <1>2 DEF OwnP, Granted, NoAck
  <1>4. /\ waiting' = FALSE /\ privacy' = (IF got = "ok" THEN wish ELSE privacy)
        /\ UNCHANGED <<srv_privacy, inbox, up, faults>>
    BY DEF ackPrivacy, Confirmed, server
  <1>5. ~OwnP'
    BY <1>4 DEF OwnP
  <1> QED
    BY <1>3, <1>4, <1>5 DEF PrivacyInv, Undisturbed

\* A step of an edit that is not about the privacy.
LEMMA EditPrivacy ==
  ASSUME Early, PrivacyInv, ~At("privacy"), NEW m \in Messages, m.type = "ack",
         UNCHANGED <<srv_privacy, privacy, up>>, faults \subseteq faults',
         plan' = plan \/ waiting' = FALSE, inbox' = inbox \/ inbox' = Append(inbox, m)
  PROVE  PrivacyInv'
  <1>1. ~OwnP /\ ~OwnP'
    BY DEF OwnP, At
  <1>2. NoPrivacy' => NoPrivacy
    <2>1. CASE inbox' = inbox
      BY <2>1 DEF NoPrivacy
    <2>2. CASE inbox' = Append(inbox, m)
      <3>1. PICK n \in Nat : n = Len(inbox)
        BY InboxIs DEF Early
      <3>2. /\ DOMAIN inbox = 1 .. n /\ DOMAIN inbox' = 1 .. n + 1
            /\ \A i \in 1 .. n : inbox'[i] = inbox[i]
        BY <2>2, <3>1, InboxMore DEF Early
      <3>3. \A i \in 1 .. n : i \in 1 .. n + 1
        BY <3>1
      <3> QED
        BY <3>2, <3>3 DEF NoPrivacy
    <2> QED
      BY <2>1, <2>2
  <1> QED
    BY <1>1, <1>2, PrivacySame

LEMMA PrivacyNext == ASSUME Early, PrivacyInv, [Next]_vars PROVE PrivacyInv'
  <1>0. PICK m \in Messages : m = [type |-> "ack", answer |-> "ok"]
    BY MessagesAre DEF Answers
  <1>a. ASSUME NEW step \in Steps \ {"privacy"}, At(step), NEW answer \in Answers \ {"none"}, Ask(answer),
               srv_privacy' = srv_privacy, faults \subseteq faults'
        PROVE  PrivacyInv'
    <2>1. PICK k \in Messages : k = [type |-> "ack", answer |-> answer]
      BY MessagesAre
    <2>2. k.type = "ack" /\ inbox' = Append(inbox, k) /\ plan' = plan /\ UNCHANGED <<privacy, up>>
      BY <1>a, <2>1 DEF Ask, client
    <2>3. ~At("privacy")
      BY <1>a DEF At
    <2> QED
      BY <1>a, <2>2, <2>3, EditPrivacy
  <1>b. ASSUME NEW step \in Steps \ {"privacy"}, At(step), FailToSend PROVE PrivacyInv'
    <2>1. m.type = "ack" /\ ~At("privacy")
      BY <1>0, <1>b DEF At
    <2>2. waiting' = FALSE /\ UNCHANGED <<srv_privacy, privacy, up, faults, inbox>>
      BY <1>b DEF FailToSend, Fail, server, client
    <2> QED
      BY <2>1, <2>2, EditPrivacy
  <1>c. ASSUME NEW e, At("add"), AskAdd(e) PROVE PrivacyInv'
    <2>1. PICK answer \in {"ok", "needauth", "refused"} : Ask(answer) /\ UNCHANGED <<srv_privacy, faults>>
      BY <1>c, AskAddIs
    <2> QED
      BY <1>a, <1>c, <2>1 DEF Answers, Steps
  <1>1. CASE Login
    <2>1. /\ plan' = <<>> /\ UNCHANGED srv_privacy
          /\ privacy' = IF srv_privacy.item = 0 THEN privacy ELSE srv_privacy
      BY <1>1 DEF Login, server
    <2>2. ~OwnP'
      BY <2>1 DEF OwnP, At
    <2> QED
      BY <2>1, <2>2 DEF PrivacyInv
  <1>2. CASE Disconnect
    <2>1. /\ up' = FALSE /\ inbox' = <<>> /\ UNCHANGED <<srv_privacy, privacy, plan, waiting, got, wish>>
      BY <1>2 DEF Disconnect, server, client, found, ack
    <2>2. DOMAIN inbox' = {}
      BY <2>1
    <2>3. OwnP' => OwnP
      BY <2>1, <2>2 DEF OwnP, Granted, At
    <2> QED
      BY <2>1, <2>3 DEF PrivacyInv
  <1>3. CASE Menu
    <2>1. /\ plan = <<>> /\ UNCHANGED <<srv_privacy, privacy, up, inbox, waiting, faults>>
      BY <1>3 DEF Menu, Call, addContact, removeContact, addGroup, removeGroup, setMyPrivacyStatus, server,
         client, ack
    <2>2. waiting = FALSE
      BY <2>1, NotWaiting DEF Early
    <2> QED
      BY <2>1, <2>2, PrivacySame DEF OwnP, NoPrivacy
  <1>4. CASE Transact \/ endGroup
    <2>1. waiting = FALSE
      BY <1>4, NotWaiting DEF Early, Transact, endGroup
    <2>2. UNCHANGED <<srv_privacy, privacy, up, inbox, waiting, faults>>
      BY <1>4 DEF Transact, endGroup, server, client, ack
    <2> QED
      BY <2>1, <2>2, PrivacySame DEF OwnP, NoPrivacy
  <1>5. CASE sub_ssi_addContact \/ ackAdd
    <2>1. At("add")
      BY <1>5 DEF sub_ssi_addContact, ackAdd
    <2>2. CASE FailToSend
      BY <1>b, <2>1, <2>2 DEF Steps
    <2>3. ASSUME NEW e, AskAdd(e) PROVE PrivacyInv'
      BY <1>c, <2>1, <2>3
    <2>4. CASE waiting' = FALSE /\ UNCHANGED <<srv_privacy, privacy, up, faults, inbox>>
      <3>1. m.type = "ack" /\ ~At("privacy")
        BY <1>0, <2>1 DEF At
      <3> QED
        BY <2>4, <3>1, EditPrivacy
    <2> QED
      BY <1>5, <2>2, <2>3, <2>4 DEF sub_ssi_addContact, ackAdd, server
  <1>6. CASE sub_ssi_removeContact \/ updateSSIGroupContent \/ updateMasterGroup \/ askAddGroup \/ askDeleteGroup
    <2>1. PICK step \in Steps \ {"privacy"} : At(step)
      BY <1>6 DEF sub_ssi_removeContact, updateSSIGroupContent, updateMasterGroup, askAddGroup,
         askDeleteGroup, Steps
    <2>2. CASE FailToSend
      BY <1>b, <2>1, <2>2
    <2>3. CASE ~FailToSend
      <3>1. PICK answer \in {"ok", "refused"} :
                Ask(answer) /\ srv_privacy' = srv_privacy /\ faults \subseteq faults'
        BY <1>6, <2>3 DEF sub_ssi_removeContact, updateSSIGroupContent, updateMasterGroup, askAddGroup,
           askDeleteGroup
      <3> QED
        BY <1>a, <2>1, <3>1 DEF Answers
    <2> QED
      BY <2>2, <2>3
  <1>7. CASE ackRemove \/ ackGroup
    <2>1. PICK step \in Steps \ {"privacy"} : At(step)
      BY <1>7 DEF ackRemove, ackGroup, Steps
    <2>2. waiting' = FALSE /\ UNCHANGED <<srv_privacy, privacy, up, inbox>> /\ faults \subseteq faults'
      BY <1>7 DEF ackRemove, ackGroup, server, client
    <2>3. m.type = "ack" /\ ~At("privacy")
      BY <1>0, <2>1 DEF At
    <2> QED
      BY <2>2, <2>3, EditPrivacy
  <1>8. CASE crash
    <2>1. /\ up' = FALSE /\ waiting' = FALSE /\ privacy' = [item |-> 0, stat |-> PRIV_ALL_CAN_SEE]
          /\ srv_privacy' = srv_privacy
      BY <1>8 DEF crash, server
    <2>2. srv_privacy \in Privacy
      BY DEF Early, TypeInv, PrivT
    <2>3. srv_privacy.item = 0 /\ srv_privacy.stat = PRIV_ALL_CAN_SEE
            => srv_privacy = [item |-> 0, stat |-> PRIV_ALL_CAN_SEE]
      BY <2>2 DEF Privacy
    <2> QED
      BY <2>1, <2>3 DEF PrivacyInv, OwnP
  <1>9. CASE giveUp
    <2>1. waiting' = FALSE /\ UNCHANGED <<srv_privacy, privacy, up>> /\ (up => "timeout" \in faults')
      BY <1>9 DEF giveUp, Fail, server, client
    <2> QED
      BY <2>1 DEF PrivacyInv, OwnP, Undisturbed
  <1>10. CASE Reader
    <2>1. CASE readAck
      BY <2>1, readAckPrivacy
    <2>2. CASE parseSSIAddNotify \/ parseSSIDeleteNotify
      <3>1. PICK type \in {"buddy", "group", "privacy", "nobuddy", "nogroup"} :
                /\ Notified(type) /\ (type = "privacy" => "unread" \in faults') /\ faults \subseteq faults'
        BY <2>2 DEF parseSSIAddNotify, parseSSIDeleteNotify, Overtaken
      <3> QED
        BY <3>1, NotifiedPrivacy
    <2> QED
      BY <1>10, <2>1, <2>2 DEF Reader
  <1>11. CASE UNCHANGED vars
    <2>1. UNCHANGED <<srv_privacy, privacy, up, inbox, waiting, faults, plan, got, wish>>
      BY <1>11 DEF vars, server, client, found, ack
    <2> QED
      BY <2>1, PrivacySame DEF OwnP, Granted, At, NoPrivacy
  <1> QED
    BY <1>1, <1>2, <1>3, <1>4, <1>5, <1>6, <1>7, <1>8, <1>9, <1>10, <1>11, OthersPrivacy, askPrivacyPrivacy,
       ackPrivacyPrivacy DEF Next, Edit

-----------------------------------------------------------------------------
(* Mirror *)

LEMMA MirrorOf == ASSUME Early, MirrorInv, KnownIds, PrivacyInv PROVE Mirror
  <1> SUFFICES ASSUME up, plan = <<>>, inbox = <<>>, Undisturbed
               PROVE  SameEntries /\ FreshItemId /\ PrivacyTrue
    BY DEF Mirror, Quiet
  <1>1. Matched
    BY DEF MirrorInv, Matched
  <1>2. waiting = FALSE /\ ToSet(plan) = {} /\ Len(inbox) = 0
    BY NotWaiting, ToSetEmpty, EmptySeq DEF Early
  <1>3. ToSet(ContactListUins) \subseteq Buddies /\ ToSet(ContactListGroups) \subseteq Groups
        /\ srv_buddies \subseteq Buddies /\ srv_groups \subseteq Groups
    BY ListsAre DEF Early, TypeInv, SrvT
  <1>4. ASSUME NEW b \in Buddies PROVE b \in srv_buddies <=> b \in ToSet(ContactListUins)
    <2>1. b \in srv_buddies <=> AfterB(0, b)
      BY <1>1, <1>2 DEF Matched, Sync
    <2>2. ~DoneB
      BY <1>2 DEF DoneB
    <2> QED
      BY <2>1, <2>2, NoneB, PlainB
  <1>5. ASSUME NEW g \in Groups PROVE g \in srv_groups <=> g \in ToSet(ContactListGroups)
    <2>1. g \in srv_groups <=> AfterG(0, g)
      BY <1>1, <1>2 DEF Matched, Sync
    <2> QED
      BY <1>2, <2>1, NoneG, PlainG
  <1>6. SameEntries
    BY <1>1, <1>3, <1>4, <1>5 DEF SameEntries, Matched, OnceB
  <1>7. FreshItemId
    <2>1. CASE getUnusedItemID = 0
      BY <1>3, <2>1, NumbersAre, ContactListAssumption DEF FreshItemId, Buddies
    <2>2. CASE getUnusedItemID # 0
      <3>1. getUnusedItemID \notin Taken
        BY <2>2, UnusedIs
      <3>2. ToSet(ContactListUins) = srv_buddies
        BY <1>6 DEF SameEntries
      <3> QED
        BY <3>1, <3>2 DEF Taken, FreshItemId, KnownIds
    <2> QED
      BY <2>1, <2>2
  <1>8. PrivacyTrue
    <2>1. ~OwnP /\ NoPrivacy
      BY <1>2 DEF OwnP, NoPrivacy
    <2> QED
      BY <2>1 DEF PrivacyInv, NoPrivacy, PrivacyTrue
  <1> QED
    BY <1>6, <1>7, <1>8

\* When nothing is under way and no ack was lost, no edit overtaken and no refusal masked
\* since the login, the list of the client has the entries and the groups of the
\* server's and no item twice, getUnusedItemID returns no id of an item there, and the privacy
\* shown is the one stored: however the requests and acks of sub_ssi_addContact,
\* sub_ssi_removeContact and the group edits and what parseSSIAddNotify and
\* parseSSIDeleteNotify apply came in between.
THEOREM MirrorAlways == Spec => []Mirror
  <1>1. Init => KnownIds /\ PrivacyInv
    BY DEF Init, KnownIds, PrivacyInv, OwnP
  <1>2. Early /\ KnownIds /\ PrivacyInv /\ [Next]_vars => (KnownIds /\ PrivacyInv)'
    BY KnownNext, PrivacyNext
  <1>3. Early /\ MirrorInv /\ KnownIds /\ PrivacyInv => Mirror
    BY MirrorOf
  <1> QED
    BY <1>1, <1>2, <1>3, MirrorInvAlways, PTL DEF Spec

-----------------------------------------------------------------------------
(* What the list drops *)

\* The steps that change the list of contacts of a client that is logged in.
LEMMA ListSteps ==
  ASSUME [Next]_vars, up
  PROVE  \/ ContactListUins' = ContactListUins
         \/ ackAdd /\ ContactListUins' = Append(ContactListUins, uen)
         \/ ackRemove \/ parseSSIAddNotify \/ parseSSIDeleteNotify
  <1>1. CASE Menu
    BY <1>1 DEF Menu, Call, addContact, removeContact, addGroup, removeGroup, setMyPrivacyStatus, client
  <1>2. CASE Transact \/ ackGroup \/ ackPrivacy \/ endGroup \/ crash \/ giveUp
    BY <1>2 DEF Transact, ackGroup, ackPrivacy, endGroup, crash, giveUp, client
  <1>3. CASE sub_ssi_addContact
    BY <1>3, AskAddIs DEF sub_ssi_addContact, FailToSend, Ask, client
  <1>4. CASE ackAdd
    BY <1>4, AskAddIs DEF ackAdd, FailToSend, Ask, client
  <1>5. CASE sub_ssi_removeContact \/ updateSSIGroupContent \/ updateMasterGroup \/ askPrivacy
    BY <1>5 DEF sub_ssi_removeContact, updateSSIGroupContent, updateMasterGroup, askPrivacy, FailToSend, Ask, client
  <1>6. CASE askAddGroup \/ askDeleteGroup
    BY <1>6 DEF askAddGroup, askDeleteGroup, FailToSend, Ask, client
  <1>7. CASE readAck
    BY <1>7 DEF readAck, client
  <1>8. CASE Others
    BY <1>8 DEF Others, otherAdds, otherGrants, otherDeletes, otherAddsGroup, otherDeletesGroup,
       otherSetsPrivacy, Foreign, client
  <1>9. CASE Login \/ Disconnect \/ UNCHANGED vars
    BY <1>9 DEF Login, Disconnect, vars, client
  <1> QED
    BY <1>1, <1>2, <1>3, <1>4, <1>5, <1>6, <1>7, <1>8, <1>9 DEF Next, Edit, Reader

\* If an item of the list is on the server, no message about it is under way but
\* one that says it is there, or the last word about it has been spoken.
LEMMA StillThere ==
  ASSUME Early, Matched, NEW e \in ToSet(ContactListUins), NEW b \in srv_buddies, b.item = e.item,
         ~\E i \in DOMAIN inbox : inbox[i].type = "buddy" /\ inbox[i].buddy.item = e.item
  PROVE  /\ HasB(b) /\ \A j \in 1 .. Len(inbox) : WB[j].key # b.item
         /\ At("add") /\ waiting => uen.item # e.item
  <1>1. PICK n \in Nat : n = Len(inbox) /\ DOMAIN inbox = 1 .. n
    BY InboxIs DEF Early
  <1>2. b \in Buddies
    BY DEF Early, TypeInv, SrvT
  <1>3. At("add") /\ waiting => uen.item # e.item
    BY DEF Matched, JobB
  <1>4. AfterB(n, b)
    BY <1>1, <1>2 DEF Matched, Sync
  <1>5. PICK has \in BOOLEAN : has <=> HasB(b)
    BY HasBool
  <1>6. PICK w : w = WB
    OBVIOUS
  <1>7. After(w, has, n, b.item, b)
    BY <1>4, <1>5, <1>6 DEF AfterB, After
  <1>8. (has /\ \A j \in 1 .. n : w[j].key # b.item) \/ \E j \in 1 .. n : w[j].key = b.item /\ b \in w[j].puts
    BY <1>7, AfterPuts
  <1>9. ASSUME NEW j \in 1 .. n, w[j].key = b.item, b \in w[j].puts PROVE FALSE
    <2>1. w[j] = WordB(inbox[j], OwnB)
      BY <1>1, <1>6 DEF WB
    <2>2. CASE inbox[j].type = "buddy"
      BY <1>1, <1>9, <2>1, <2>2 DEF WordB
    <2>3. CASE inbox[j].type # "buddy"
      <3>1. inbox[j].type = "ack" /\ b \in OwnB.puts
        BY <1>9, <2>1, <2>3 DEF WordB, NoWord
      <3>2. At("add") /\ b = uen
        BY <3>1 DEF OwnB, NoWord
      <3>3. waiting
        BY <1>1, <3>1 DEF Early, AckInv, AckOne
      <3> QED
        BY <1>3, <3>2, <3>3
    <2> QED
      BY <2>2, <2>3
  <1> QED
    BY <1>1, <1>3, <1>5, <1>6, <1>8, <1>9

LEMMA DropNext ==
  ASSUME Early, MirrorInv, [Next]_vars, up, Undisturbed,
         NEW e \in ToSet(ContactListUins), NEW b \in srv_buddies, b.item = e.item,
         ~\E i \in DOMAIN inbox : inbox[i].type = "buddy" /\ inbox[i].buddy.item = e.item
  PROVE  \E f \in ToSet(ContactListUins') : f.item = e.item
  <1>1. Matched
    BY DEF MirrorInv, Matched
  <1>2. PICK n \in Nat : n = Len(inbox) /\ DOMAIN inbox = 1 .. n
    BY InboxIs DEF Early
  <1>3. /\ HasB(b) /\ (\A j \in 1 .. n : WB[j].key # b.item)
        /\ At("add") /\ waiting => uen.item # e.item
    BY <1>1, <1>2, StillThere
  <1>4. PICK L \in Seq(Buddies) : L = ContactListUins
    BY ListsAre DEF Early
  <1>5. OnceBy(ItemOf, L) /\ (\A x \in Buddies : ItemOf[x] = x.item) /\ e \in Buddies /\ ToSet(L) \subseteq Buddies
    BY <1>1, <1>4, ListsAre, ToSetType DEF Early, Matched
  <1>6. DOMAIN L = 1 .. Len(L) /\ (\A j \in 1 .. Len(L) : L[j] \in Buddies)
        /\ \A x : x \in ToSet(L) <=> \E i \in 1 .. Len(L) : L[i] = x
    BY ElementOfSeq, LenProperties, ToSetMember
  <1>7. CASE ContactListUins' = ContactListUins
    BY <1>7
  <1>8. CASE ackAdd /\ ContactListUins' = Append(ContactListUins, uen)
    <2>1. PICK u \in Buddies : u = uen
      BY DEF Early, TypeInv, JobT
    <2>2. ToSet(Append(L, u)) = ToSet(L) \cup {u}
      BY <2>1, ToSetAppend
    <2>3. ContactListUins' = Append(L, u)
      BY <1>4, <1>8, <2>1
    <2> QED
      BY <1>4, <2>2, <2>3
  <1>9. CASE ackRemove
    <2>1. waiting /\ (At("remove") \/ At("each"))
          /\ ContactListUins' = IF got = "ok" THEN Erased(L, uen_ind) ELSE L
      BY <1>4, <1>9 DEF ackRemove, Acked
    <2>2. CASE got = "ok"
      <3>1. PICK k \in 1 .. Len(L) : k = uen_ind
        BY <1>1, <1>4, <2>1 DEF Matched, JobB
      <3>2. OwnB = [key |-> L[k].item, puts |-> {}] /\ DoneB
        BY <1>4, <2>1, <2>2, <3>1 DEF OwnB, DoneB, At
      <3>3. L[k].item # e.item
        BY <1>3, <3>2 DEF HasB
      <3>4. ToSet(Erased(L, k)) = {x \in ToSet(L) : ItemOf[x] # ItemOf[L[k]]}
        BY <1>5, ErasedIs
      <3>5. ItemOf[e] # ItemOf[L[k]]
        BY <1>5, <1>6, <3>3
      <3> QED
        BY <1>4, <2>1, <2>2, <3>1, <3>4, <3>5
    <2> QED
      BY <1>4, <2>1, <2>2
  <1>10. CASE parseSSIAddNotify
    <2>1. CASE Notified("buddy")
      <3>1. PICK c \in Buddies : c = Head(inbox).buddy
        BY <2>1, NotifiedIs, OfMessages DEF Early
      <3>2. PICK i : i = SelectInSeq(L, LAMBDA x : x.item = c.item)
        OBVIOUS
      <3>3. ContactListUins' = Put(L, i, c)
        BY <1>4, <1>10, <2>1, <3>1, <3>2 DEF parseSSIAddNotify, Notified
      <3>4. First({j \in 1 .. Len(L) : L[j].item = c.item}, i)
        <4> DEFINE S == {j \in 1 .. Len(L) : L[j].item = c.item}
        <4>1. i = IF S # {} THEN Min(S) ELSE 0
          BY <3>2 DEF SelectInSeq
        <4>2. S \subseteq Nat
          OBVIOUS
        <4> HIDE DEF S
        <4>3. First(S, i)
          BY <4>1, <4>2, FirstIs
        <4> QED
          BY <4>3 DEF S
      <3>5. {j \in 1 .. Len(L) : L[j].item = c.item} = {j \in 1 .. Len(L) : ItemOf[L[j]] = ItemOf[c]}
        BY <1>5, <1>6
      <3>6. First({j \in 1 .. Len(L) : ItemOf[L[j]] = ItemOf[c]}, i)
        BY <3>4, <3>5
      <3>7. PICK M : M = Put(L, i, c)
        OBVIOUS
      <3>8. ToSet(M) = {x \in ToSet(L) : ItemOf[x] # ItemOf[c]} \cup {c}
        BY <1>5, <3>6, <3>7, PutIs
      <3>9. e \in ToSet(M) \/ (c \in ToSet(M) /\ c.item = e.item)
        BY <1>4, <1>5, <3>8
      <3> QED
        BY <3>3, <3>7, <3>9
    <2>2. CASE ~Notified("buddy")
      BY <1>10, <2>2 DEF parseSSIAddNotify
    <2> QED
      BY <2>1, <2>2
  <1>11. CASE parseSSIDeleteNotify
    <2>0. inbox # <<>>
      BY <1>11 DEF parseSSIDeleteNotify, Notified
    <2>1. 1 \in DOMAIN inbox /\ Head(inbox) = inbox[1] /\ 1 \in 1 .. n /\ inbox[1] \in Messages
      <3>1. inbox \in Seq(Messages)
        BY DEF Early, TypeInv, LinkT
      <3>2. n # 0
        BY <1>2, <2>0, <3>1, EmptySeq
      <3> QED
        BY <1>2, <3>1, <3>2, InboxIs DEF Early
    <2>2. WB[1] = WordB(inbox[1], OwnB)
      BY <2>1 DEF WB
    <2>3. CASE Notified("nobuddy")
      <3>1. PICK c \in Buddies : c = Head(inbox).buddy
        BY <2>3, NotifiedIs, OfMessages DEF Early
      <3>2. Head(inbox).type = "nobuddy"
        BY <2>3 DEF Notified
      <3>3. c.item # e.item
        BY <1>3, <2>1, <2>2, <3>1, <3>2 DEF WordB
      <3>4. PICK gone : gone = {i \in DOMAIN L : L[i].item = c.item}
        OBVIOUS
      <3>5. ContactListUins' = Without(L, gone)
        BY <1>4, <1>11, <3>1, <3>2, <3>4 DEF parseSSIDeleteNotify, Notified
      <3>6. ToSet(Without(L, gone)) = {L[i] : i \in (1 .. Len(L)) \ gone}
        BY WithoutKeeps
      <3>7. e \in {L[i] : i \in (1 .. Len(L)) \ gone}
        BY <1>4, <1>6, <3>3, <3>4
      <3> QED
        BY <3>5, <3>6, <3>7
    <2>4. CASE Notified("nogroup")
      <3>1. PICK c \in Groups : c = Head(inbox).group
        BY <2>4, NotifiedIs, OfMessages DEF Early
      <3>2. Head(inbox).type = "nogroup"
        BY <2>4 DEF Notified
      <3>3. HasB(e) => e.group # c.id
        BY <1>1, <1>5, <2>0, <3>1, <3>2, NoneLeft
      <3>4. HasB(e)
        <4>1. CASE DoneB /\ OwnB.key = b.item
          <5>1. b \in OwnB.puts
            BY <1>3, <4>1 DEF HasB
          <5>2. At("add") /\ b = uen /\ waiting
            BY <4>1, <5>1 DEF OwnB, NoWord, DoneB
          <5> QED
            BY <1>3, <5>2
        <4>2. CASE ~(DoneB /\ OwnB.key = b.item)
          BY <4>2 DEF HasB
        <4> QED
          BY <4>1, <4>2
      <3>5. PICK gone : gone = {i \in DOMAIN L : L[i].group = c.id}
        OBVIOUS
      <3>6. ContactListUins' = Without(L, gone)
        BY <1>4, <1>11, <3>1, <3>2, <3>5 DEF parseSSIDeleteNotify, Notified
      <3>7. ToSet(Without(L, gone)) = {L[i] : i \in (1 .. Len(L)) \ gone}
        BY WithoutKeeps
      <3>8. e \in {L[i] : i \in (1 .. Len(L)) \ gone}
        BY <1>4, <1>6, <3>3, <3>4, <3>5
      <3> QED
        BY <3>6, <3>7, <3>8
    <2> QED
      BY <1>11, <2>3, <2>4 DEF parseSSIDeleteNotify
  <1> QED
    BY <1>7, <1>8, <1>9, <1>10, <1>11, ListSteps

\* An entry is dropped from the list of the client only when the server has dropped it or
\* the message that it is there again is on the way: the position that
\* sub_ssi_removeContact looked up before it waited, and the items and groups parseSSIDeleteNotify
\* is told of, are never those of another contact.
THEOREM DropsAlways == Spec => DropsOnlyDeleted
  <1>1. Early /\ MirrorInv /\ [Next]_vars =>
          [up /\ Undisturbed =>
             \A e \in ToSet(ContactListUins) :
               \/ \E f \in ToSet(ContactListUins') : f.item = e.item
               \/ \A b \in srv_buddies : b.item # e.item
               \/ \E i \in DOMAIN inbox : inbox[i].type = "buddy" /\ inbox[i].buddy.item = e.item]_vars
    BY DropNext
  <1> QED
    BY <1>1, MirrorInvAlways, PTL DEF Spec, DropsOnlyDeleted

-----------------------------------------------------------------------------
(* Transactions *)

\* A step that leaves the transaction and the groups alone, and of the plan what ends it.
LEMMA TransSame ==
  ASSUME WillEnd, WillFind, UNCHANGED <<trans, gen, ContactListGroups>>,
         \A x \in {"end", "add", "remove", "content"} : x \in ToSet(plan') <=> x \in ToSet(plan),
         At("remove")' /\ waiting' => At("remove") /\ waiting
  PROVE  WillEnd' /\ WillFind'
  <1>1. WillEnd'
    BY DEF WillEnd
  <1>2. GroupThere => GroupThere'
    BY DEF GroupThere
  <1> QED
    BY <1>1, <1>2 DEF WillFind

\* The group of an entry of the list is there when nothing awaited is about a group.
LEMMA GroupOfEntry ==
  ASSUME Matched, ToSet(plan) \cap {"push", "erase"} = {}, NEW e \in Buddies, HasB(e), TypeInv
  PROVE  \E g \in ToSet(ContactListGroups) : g.id = e.group
  <1>1. Len(inbox) \in Nat
    BY InboxIs
  <1>2. GoodAt(0)
    BY <1>1 DEF Matched, Good
  <1>3. PICK g \in Groups : g.id = e.group /\ AfterG(0, g)
    BY <1>2, NoneB DEF GoodAt
  <1> QED
    BY <1>3, NoneG, PlainG

\* The same after a step.
LEMMA NextGroupOfEntry ==
  ASSUME Matched', TypeInv', ToSet(plan') \cap {"push", "erase"} = {}, waiting' = FALSE,
         NEW e \in Buddies, e \in ToSet(ContactListUins')
  PROVE  \E g \in ToSet(ContactListGroups') : g.id = e.group
  <1>1. Len(inbox') \in Nat
    BY LenProperties DEF TypeInv, LinkT
  <1>2. PICK z : z = 0
    OBVIOUS
  <1>3. GoodAt(z)'
    BY <1>1, <1>2 DEF Matched, Good
  <1>4. AfterB(z, e)'
    <2>1. HasB(e)'
      BY NextPlainB
    <2>2. \A j \in 1 .. z : FALSE
      BY <1>2
    <2> QED
      BY <2>1, <2>2 DEF AfterB, After
  <1>5. PICK g \in Groups : g.id = e.group /\ AfterG(z, g)'
    BY <1>3, <1>4 DEF GoodAt
  <1>6. HasG(g)'
    BY <1>2, <1>5 DEF AfterG, After
  <1> QED
    BY <1>5, <1>6, NextPlainG

LEMMA TransRemove ==
  ASSUME Early, Matched, WillEnd, WillFind, up, sub_ssi_removeContact
  PROVE  WillEnd' /\ WillFind'
  <1>1. PICK step \in {"remove", "each"} : At(step)
    BY DEF sub_ssi_removeContact
  <1>2. waiting = FALSE
    BY DEF sub_ssi_removeContact, Early, TypeInv, AckT
  <1>3. PICK q \in Seq(Steps) : /\ q = Tail(plan) /\ ToSet(plan) = {step} \cup ToSet(q)
                                /\ step = "remove" => q = <<>>
    BY <1>1, AtStep DEF Early
  <1>4. CASE FailToSend
    <2>1. plan' = AfterFailure /\ waiting' = FALSE /\ UNCHANGED <<trans, gen, ContactListGroups>>
      BY <1>4 DEF FailToSend, Fail, client
    <2>2. CASE step = "remove"
      <3>1. plan' = <<"end">>
        BY <1>1, <2>1, <2>2 DEF AfterFailure
      <3>2. ToSet(plan') = {"end"}
        BY <3>1 DEF ToSet
      <3> QED
        BY <2>1, <3>2 DEF WillEnd, WillFind
    <2>3. CASE step = "each"
      <3>1. At("each") /\ ~At("add") /\ ~At("remove")
        BY <1>1, <2>3 DEF At
      <3>2. plan' = q
        BY <1>3, <2>1, <3>1 DEF AfterFailure
      <3>3. \A x \in {"end", "add", "remove", "content"} : x \in ToSet(plan') <=> x \in ToSet(plan)
        BY <1>3, <2>3, <3>2
      <3>4. ~(At("remove")' /\ waiting')
        BY <2>1
      <3> QED
        BY <2>1, <3>3, <3>4, TransSame
    <2> QED
      BY <2>2, <2>3
  <1>5. CASE ~FailToSend
    <2>1. PICK i \in 1 .. Len(ContactListUins), answer \in {"ok", "refused"} :
             /\ Ask(answer)
             /\ gen' = IF At("remove") THEN [gen EXCEPT !.id = ContactListUins[i].group] ELSE gen
      BY <1>5, RemovalIs DEF Early
    <2>2. UNCHANGED <<trans, plan, ContactListGroups>>
      BY <2>1 DEF Ask, client
    <2>3. CASE step = "each"
      <3>1. gen' = gen /\ ~At("remove")'
        BY <1>1, <2>1, <2>2, <2>3 DEF At
      <3> QED
        BY <2>2, <3>1, TransSame
    <2>4. CASE step = "remove"
      <3>1. PICK e \in Buddies : e = ContactListUins[i] /\ e \in ToSet(ContactListUins)
        BY <2>1, ListsAre, ElementOfSeq, ToSetMember DEF Early
      <3>2. gen' = [gen EXCEPT !.id = e.group]
        BY <1>1, <2>1, <2>4, <3>1
      <3>3. gen'.id = e.group
        BY <3>2 DEF Early, TypeInv, JobT, Groups
      <3>4. HasB(e)
        BY <1>2, <3>1, PlainB DEF DoneB
      <3>5. ToSet(plan) = {"remove"}
        <4>1. q = <<>>
          BY <1>3, <2>4
        <4>2. ToSet(q) = {}
          BY <4>1, ToSetEmpty
        <4> QED
          BY <1>3, <2>4, <4>2
      <3>6. \E g \in ToSet(ContactListGroups) : g.id = e.group
        BY <3>4, <3>5, GroupOfEntry DEF Early
      <3>7. GroupThere'
        BY <2>2, <3>3, <3>6 DEF GroupThere
      <3>8. WillEnd'
        BY <2>2 DEF WillEnd
      <3> QED
        BY <3>7, <3>8 DEF WillFind
    <2> QED
      BY <2>3, <2>4
  <1> QED
    BY <1>4, <1>5

LEMMA TransAdded ==
  ASSUME Early, Early', Matched', WillEnd, WillFind, ackAdd, up
  PROVE  WillEnd' /\ WillFind'
  <1>1. At("add")
    BY DEF ackAdd
  <1>2. CASE got = "needauth" /\ ~uen.wait
    <2>1. PICK e : AskAdd(e)
      BY <1>2 DEF ackAdd
    <2>2. UNCHANGED <<trans, plan, gen, ContactListGroups>>
      BY <2>1, AskAddIs DEF Ask, client
    <2>3. ~At("remove")'
      BY <1>1, <2>2 DEF At
    <2> QED
      BY <2>2, <2>3, TransSame
  <1>3. CASE ~(got = "needauth" /\ ~uen.wait)
    <2>1. /\ waiting' = FALSE /\ UNCHANGED <<trans, ContactListGroups>>
          /\ \E i \in {SelectInSeq(ContactListUins', LAMBDA e : e.uin = uen.uin)} :
               IF i = 0 THEN plan' = <<"end">>
               ELSE plan' = <<"content", "end">> /\ gen' = [gen EXCEPT !.id = ContactListUins'[i].group]
      BY <1>3 DEF ackAdd
    <2>2. PICK p \in {<<"end">>, <<"content", "end">>} : p = plan'
      BY <2>1
    <2>3. "end" \in ToSet(p) /\ ToSet(p) \cap {"push", "erase"} = {} /\ (p = <<"end">> => "content" \notin ToSet(p))
      <3>1. CASE p = <<"end">>
        BY <3>1 DEF ToSet
      <3>2. CASE p = <<"content", "end">>
        <4>1. p # <<"end">>
          BY <3>2
        <4> QED
          BY <3>2, <4>1 DEF ToSet
      <3> QED
        BY <3>1, <3>2
    <2>4. WillEnd'
      BY <2>2, <2>3 DEF WillEnd
    <2>5. ASSUME "content" \in ToSet(p) PROVE GroupThere'
      <3>1. PICK i : /\ i = SelectInSeq(ContactListUins', LAMBDA e : e.uin = uen.uin) /\ i # 0
                     /\ gen' = [gen EXCEPT !.id = ContactListUins'[i].group]
        BY <2>1, <2>2, <2>3, <2>5
      <3>2. PICK M \in Seq(Buddies) : M = ContactListUins'
        BY DEF Early, TypeInv, ListT
      <3>3. i \in 1 .. Len(M)
        <4> DEFINE S == {j \in 1 .. Len(M) : M[j].uin = uen.uin}
        <4>1. i = IF S # {} THEN Min(S) ELSE 0
          BY <3>1, <3>2 DEF SelectInSeq
        <4>2. S \subseteq Nat /\ S \subseteq 1 .. Len(M)
          OBVIOUS
        <4> HIDE DEF S
        <4>3. First(S, i)
          BY <4>1, <4>2, FirstIs
        <4> QED
          BY <3>1, <4>2, <4>3 DEF First
      <3>4. PICK e \in Buddies : e = M[i] /\ e \in ToSet(M)
        BY <3>3, ElementOfSeq, ToSetMember
      <3>5. gen'.id = e.group
        BY <3>1, <3>2, <3>4 DEF Early, TypeInv, JobT, Groups
      <3>6. \E g \in ToSet(ContactListGroups') : g.id = e.group
        BY <2>1, <2>2, <2>3, <3>2, <3>4, NextGroupOfEntry DEF Early
      <3> QED
        BY <3>5, <3>6 DEF GroupThere
    <2> QED
      BY <2>1, <2>2, <2>4, <2>5 DEF WillFind
  <1> QED
    BY <1>2, <1>3

LEMMA TransMenu == ASSUME Early, WillEnd, Menu PROVE WillEnd' /\ WillFind'
  <1>1. ASSUME NEW p \in Seq(Steps), Call(p), "content" \in ToSet(p) => GroupThere'
        PROVE  WillEnd' /\ WillFind'
    <2>1. plan = <<>> /\ plan' = p /\ UNCHANGED <<trans, waiting>>
      BY <1>1 DEF Call, ack
    <2>2. ~trans /\ waiting = FALSE
      BY <2>1, ToSetEmpty, NotWaiting DEF WillEnd, Early
    <2> QED
      BY <1>1, <2>1, <2>2 DEF WillEnd, WillFind
  <1>2. ASSUME NEW n \in Names, removeGroup(n) PROVE WillEnd' /\ WillFind'
    <2>1. gr_ind' \in 1 .. Len(ContactListGroups) /\ gen' = ContactListGroups[gr_ind']
      BY <1>2, removeGroupIs DEF Early
    <2>2. PICK p \in Seq(Steps) : Call(p) /\ {"delgroup"} \subseteq ToSet(p)
      BY <1>2, removeGroupIs DEF Early
    <2>3. ContactListGroups' = ContactListGroups
      BY <2>2 DEF Call, client
    <2>4. gen' \in ToSet(ContactListGroups)
      BY <2>1, ListsAre, ToSetMember DEF Early
    <2>5. GroupThere'
      BY <2>3, <2>4 DEF GroupThere
    <2> QED
      BY <1>1, <2>2, <2>5
  <1>3. ASSUME NEW p, p \in {<<"start", "add">>, <<"start", "remove">>, <<"privacy">>}, Call(p)
        PROVE  WillEnd' /\ WillFind'
    <2>1. p \in Seq(Steps) /\ "content" \notin ToSet(p)
      BY <1>3, CallsAre
    <2> QED
      BY <1>1, <1>3, <2>1
  <1>4. ASSUME NEW p, p = <<"start", "addgroup", "master", "end", "push">>, Call(p)
        PROVE  WillEnd' /\ WillFind'
    <2>1. p \in Seq(Steps) /\ ToSet(p) = {"start", "addgroup", "master", "end", "push"}
      BY <1>4, CallsAre
    <2> QED
      BY <1>1, <1>4, <2>1
  <1> QED
    BY <1>2, <1>3, <1>4 DEF Menu, addContact, removeContact, addGroup, setMyPrivacyStatus

LEMMA TransEdit ==
  ASSUME Early, Early', Matched, Matched', WillEnd, WillFind, up, "timeout" \notin faults', Edit, ~crash
  PROVE  WillEnd' /\ WillFind'
  <1>a. ASSUME NEW answer, Ask(answer), gen' = gen, ~At("remove") PROVE WillEnd' /\ WillFind'
    <2>1. UNCHANGED <<trans, plan, ContactListGroups>>
      BY <1>a DEF Ask, client
    <2>2. ~At("remove")'
      BY <1>a, <2>1 DEF At
    <2> QED
      BY <1>a, <2>1, <2>2, TransSame
  <1>1. CASE Transact
    <2>1. PICK step \in {"start", "end"} : At(step)
      BY <1>1 DEF Transact
    <2>2. plan' = Tail(plan) /\ trans' = At("start") /\ UNCHANGED <<gen, ContactListGroups, waiting>>
      BY <1>1 DEF Transact, client, job, ack
    <2>3. PICK q \in Seq(Steps) : /\ q = Tail(plan) /\ ToSet(plan) = {step} \cup ToSet(q)
                                  /\ step = "start" => ToSet(q) \cap {"end", "add", "remove"} # {}
      BY <2>1, AtStep DEF Early
    <2>4. waiting = FALSE
      BY <2>1, NotWaiting DEF Early
    <2>5. At("start") <=> step = "start"
      BY <2>1 DEF At
    <2>6. WillEnd'
      <3>1. ToSet(plan') = ToSet(q)
        BY <2>2, <2>3
      <3>2. CASE step = "start"
        BY <2>3, <3>1, <3>2 DEF WillEnd
      <3>3. CASE step = "end"
        BY <2>2, <2>5, <3>3 DEF WillEnd
      <3> QED
        BY <2>1, <3>2, <3>3
    <2>7. GroupThere => GroupThere'
      BY <2>2 DEF GroupThere
    <2>8. WillFind'
      <3>1. ToSet(plan') = ToSet(q) /\ waiting' = FALSE
        BY <2>2, <2>3, <2>4
      <3>2. "content" \in ToSet(plan') => "content" \in ToSet(plan)
        BY <2>3, <3>1
      <3> QED
        BY <2>7, <3>1, <3>2 DEF WillFind
    <2> QED
      BY <2>6, <2>8
  <1>2. CASE sub_ssi_addContact
    <2>1. At("add") /\ ~At("remove")
      BY <1>2 DEF sub_ssi_addContact, At
    <2>2. CASE FailToSend
      <3>1. plan' = <<"end">> /\ waiting' = FALSE
        BY <2>1, <2>2 DEF FailToSend, Fail, AfterFailure
      <3>2. ToSet(plan') = {"end"}
        BY <3>1 DEF ToSet
      <3> QED
        BY <3>1, <3>2 DEF WillEnd, WillFind
    <2>3. ASSUME NEW e, AskAdd(e) PROVE WillEnd' /\ WillFind'
      BY <1>a, <2>1, <2>3, AskAddIs
    <2> QED
      BY <1>2, <2>2, <2>3 DEF sub_ssi_addContact
  <1>3. CASE updateSSIGroupContent
    <2>1. At("content") /\ ~At("remove") /\ "content" \in ToSet(plan)
      BY <1>3, AtStep DEF updateSSIGroupContent, At, Early
    <2>2. HasGroupId(ContactListGroups, gen.id)
      <3>1. GroupThere
        BY <2>1 DEF WillFind
      <3>2. DOMAIN ContactListGroups = 1 .. Len(ContactListGroups) /\ ContactListGroups \in Seq(Groups)
        BY ListsAre, LenProperties DEF Early
      <3> QED
        BY <3>1, <3>2, ToSetMember DEF GroupThere, HasGroupId
    <2>3. PICK answer \in {"ok", "refused"} : Ask(answer) /\ gen' = gen
      BY <1>3, <2>2 DEF updateSSIGroupContent, job
    <2> QED
      BY <1>a, <2>1, <2>3
  <1>4. CASE updateMasterGroup \/ askAddGroup \/ askDeleteGroup \/ askPrivacy
    <2>1. ~At("remove")
      BY <1>4 DEF updateMasterGroup, askAddGroup, askDeleteGroup, askPrivacy, At
    <2>2. PICK answer \in {"ok", "refused"} : Ask(answer) /\ gen' = gen
      BY <1>4 DEF updateMasterGroup, askAddGroup, askDeleteGroup, askPrivacy, job
    <2> QED
      BY <1>a, <2>1, <2>2
  <1>5. CASE ackRemove
    <2>1. PICK step \in {"remove", "each"} : At(step)
      BY <1>5 DEF ackRemove
    <2>2. waiting /\ waiting' = FALSE /\ plan' = AfterRemove /\ UNCHANGED <<trans, gen, ContactListGroups>>
      BY <1>5 DEF ackRemove, Acked
    <2>3. CASE step = "remove"
      <3>1. plan' = <<"content", "end">>
        BY <2>1, <2>2, <2>3 DEF AfterRemove
      <3>2. "end" \in ToSet(plan')
        BY <3>1 DEF ToSet
      <3>3. GroupThere'
        BY <2>1, <2>2, <2>3 DEF WillFind, GroupThere
      <3> QED
        BY <3>2, <3>3 DEF WillEnd, WillFind
    <2>4. CASE step = "each"
      <3>1. plan' = Tail(plan)
        BY <2>1, <2>2, <2>4 DEF AfterRemove, At
      <3>2. ToSet(plan) = {"each"} \cup ToSet(plan')
        BY <2>1, <2>4, <3>1, AtStep DEF Early
      <3> QED
        BY <2>2, <3>2, TransSame
    <2> QED
      BY <2>3, <2>4
  <1>6. CASE ackGroup
    <2>1. PICK step \in {"content", "addgroup", "delgroup", "master"} : At(step)
      BY <1>6 DEF ackGroup
    <2>2. waiting' = FALSE /\ plan' = Tail(plan) /\ UNCHANGED <<trans, gen, ContactListGroups>>
      BY <1>6 DEF ackGroup, client, job
    <2>3. ToSet(plan) = {step} \cup ToSet(plan')
      BY <2>1, <2>2, AtStep DEF Early
    <2>4. GroupThere => GroupThere'
      BY <2>2 DEF GroupThere
    <2>5. WillEnd'
      BY <2>1, <2>2, <2>3 DEF WillEnd
    <2>6. WillFind'
      BY <2>1, <2>2, <2>3, <2>4 DEF WillFind
    <2> QED
      BY <2>5, <2>6
  <1>7. CASE ackPrivacy \/ endGroup
    <2>1. PICK step \in {"privacy", "push", "erase"} : At(step)
      BY <1>7 DEF ackPrivacy, endGroup
    <2>2. plan' = <<>> /\ trans' = trans
      BY <1>7 DEF ackPrivacy, endGroup
    <2>3. PICK q \in Seq(Steps) : q = <<>> /\ ToSet(plan) = {step} \cup ToSet(q)
      BY <2>1, AtStep DEF Early
    <2>4. ToSet(plan) = {step} /\ ToSet(plan') = {}
      BY <2>2, <2>3, ToSetEmpty
    <2> QED
      BY <2>1, <2>2, <2>4 DEF WillEnd, WillFind, At
  <1>8. CASE giveUp
    BY <1>8 DEF giveUp
  <1> QED
    BY <1>1, <1>2, <1>3, <1>4, <1>5, <1>6, <1>7, <1>8, TransRemove, TransAdded DEF Edit

\* A notification of a group puts it in the place of the one with its id, and one that it is
\* gone takes that away.
LEMMA GroupPut ==
  ASSUME Early, Matched, parseSSIAddNotify, Notified("group"), NEW c \in Groups, c = Head(inbox).group
  PROVE  \A x \in Groups : x \in ToSet(ContactListGroups') <=>
                            x = c \/ (x \in ToSet(ContactListGroups) /\ x.id # c.id)
  <1>1. PICK L \in Seq(Groups) : L = ContactListGroups
    BY ListsAre DEF Early
  <1>2. PICK i : i = SelectInSeq(L, LAMBDA h : h.id = c.id)
    OBVIOUS
  <1>3. ContactListGroups' = Put(L, i, c)
    BY <1>1, <1>2 DEF parseSSIAddNotify, Notified
  <1>4. OnceBy(IdOf, L) /\ (\A g \in Groups : IdOf[g] = g.id) /\ ToSet(L) \subseteq Groups
    BY <1>1, ListsAre DEF Early, Matched
  <1>5. \A j \in 1 .. Len(L) : L[j] \in Groups
    BY ElementOfSeq
  <1>6. First({j \in 1 .. Len(L) : L[j].id = c.id}, i)
    <2> DEFINE S == {j \in 1 .. Len(L) : L[j].id = c.id}
    <2>1. i = IF S # {} THEN Min(S) ELSE 0
      BY <1>2 DEF SelectInSeq
    <2>2. S \subseteq Nat
      OBVIOUS
    <2> HIDE DEF S
    <2>3. First(S, i)
      BY <2>1, <2>2, FirstIs
    <2> QED
      BY <2>3 DEF S
  <1>7. {j \in 1 .. Len(L) : L[j].id = c.id} = {j \in 1 .. Len(L) : IdOf[L[j]] = IdOf[c]}
    BY <1>4, <1>5
  <1>8. First({j \in 1 .. Len(L) : IdOf[L[j]] = IdOf[c]}, i)
    BY <1>6, <1>7
  <1>9. PICK M : M = Put(L, i, c)
    OBVIOUS
  <1>10. ToSet(M) = {x \in ToSet(L) : IdOf[x] # IdOf[c]} \cup {c}
    BY <1>4, <1>8, <1>9, PutIs
  <1> QED
    BY <1>1, <1>3, <1>4, <1>9, <1>10

LEMMA GroupGone ==
  ASSUME Early, parseSSIDeleteNotify, Notified("nogroup"), NEW c \in Groups, c = Head(inbox).group
  PROVE  \A x \in Groups : x \in ToSet(ContactListGroups') <=> x \in ToSet(ContactListGroups) /\ x.id # c.id
  <1>1. PICK L \in Seq(Groups) : L = ContactListGroups
    BY ListsAre DEF Early
  <1>2. PICK places : places = {i \in DOMAIN L : L[i].id = c.id}
    OBVIOUS
  <1>3. ContactListGroups' = Without(L, places)
    BY <1>1, <1>2 DEF parseSSIDeleteNotify, Notified
  <1>4. /\ \A g \in Groups : IdOf[g] = g.id
        /\ DOMAIN L = 1 .. Len(L) /\ \A j \in 1 .. Len(L) : L[j] \in Groups
    BY ListsAre, ElementOfSeq, LenProperties DEF Early
  <1>5. places = GoneBy(IdOf, L, c.id)
    BY <1>2, <1>4 DEF GoneBy
  <1>6. \A x : x \in ToSet(Without(L, places)) <=> x \in ToSet(L) /\ IdOf[x] # c.id
    BY <1>5, WithoutKey
  <1> QED
    BY <1>1, <1>3, <1>4, <1>6

LEMMA TransReader ==
  ASSUME Early, Matched, WillEnd, WillFind, Reader, "vanished" \notin faults'
  PROVE  WillEnd' /\ WillFind'
  <1>1. UNCHANGED <<trans, plan, gen, waiting>>
    BY DEF Reader, readAck, parseSSIAddNotify, parseSSIDeleteNotify, Notified, job, ack
  <1>2. At("remove")' <=> At("remove")
    BY <1>1 DEF At
  <1>3. CASE ContactListGroups' = ContactListGroups
    BY <1>1, <1>2, <1>3, TransSame
  <1>4. CASE ~(ContactListGroups' = ContactListGroups)
    <2>1. parseSSIAddNotify /\ Notified("group")
      BY <1>4 DEF Reader, readAck, parseSSIAddNotify, parseSSIDeleteNotify, client
    <2>2. PICK c \in Groups : c = Head(inbox).group
      BY <2>1, NotifiedIs, OfMessages DEF Early
    <2>3. ToSet(ContactListGroups) \subseteq Groups
      BY ListsAre DEF Early
    <2>4. \A x \in Groups : x \in ToSet(ContactListGroups') <=>
                             x = c \/ (x \in ToSet(ContactListGroups) /\ x.id # c.id)
      BY <2>1, <2>2, GroupPut
    <2>5. GroupThere => GroupThere'
      BY <1>1, <2>3, <2>4 DEF GroupThere
    <2> QED
      BY <1>1, <1>2, <2>5 DEF WillEnd, WillFind
  <1> QED
    BY <1>3, <1>4

LEMMA TransNext == ASSUME Early, MirrorInv, TransInv, [Next]_vars PROVE TransInv'
  <1>0. Early' /\ MirrorInv'
    BY EarlyNext, MatchedNext
  <1> SUFFICES ASSUME up', Clean' PROVE WillEnd' /\ WillFind'
    BY DEF TransInv, WillEnd, WillFind, GroupThere
  <1>1. CASE Login
    <2>1. ~up /\ plan = <<>> /\ UNCHANGED <<trans, plan>>
      BY <1>1 DEF Login
    <2>2. ~trans' /\ ToSet(plan') = {} /\ ~At("remove")'
      BY <2>1, ToSetEmpty DEF Early, AckInv, Down, At
    <2> QED
      BY <2>2 DEF WillEnd, WillFind
  <1>2. CASE ~Login
    <2>1. up /\ faults \subseteq faults'
      BY <1>2, FaultsStay
    <2>2. Clean /\ Undisturbed /\ Undisturbed' /\ "timeout" \notin faults' /\ "vanished" \notin faults'
      BY <2>1 DEF Clean, Undisturbed
    <2>3. Matched /\ Matched' /\ WillEnd /\ WillFind
      BY <1>0, <2>1, <2>2 DEF MirrorInv, Matched, TransInv, WillEnd, WillFind, GroupThere
    <2>4. CASE Disconnect \/ crash
      BY <2>4 DEF Disconnect, crash
    <2>5. CASE Menu
      BY <2>3, <2>5, TransMenu
    <2>6. CASE Edit /\ ~crash
      BY <1>0, <2>1, <2>2, <2>3, <2>6, TransEdit
    <2>7. CASE Reader
      BY <2>2, <2>3, <2>7, TransReader
    <2>8. CASE Others \/ UNCHANGED vars
      <3>1. UNCHANGED <<trans, plan, gen, waiting, ContactListGroups>>
        BY <2>8 DEF vars, client, job, ack, Others, otherAdds, otherGrants, otherDeletes, otherAddsGroup,
           otherDeletesGroup, otherSetsPrivacy, Foreign
      <3>2. At("remove")' <=> At("remove")
        BY <3>1 DEF At
      <3> QED
        BY <2>3, <3>1, <3>2, TransSame
    <2> QED
      BY <1>2, <2>4, <2>5, <2>6, <2>7, <2>8 DEF Next
  <1> QED
    BY <1>1, <1>2

\* No edit returns with its transaction open unless its ack did not come, a refusal was masked,
\* a change overtook it or another client has deleted a group: after a failure addContact, removeContact and
\* removeContacts go on to endSSITransact, and updateSSIGroupContent, which would return without
\* it, finds its group.
THEOREM TransactionsAlwaysEnd == Spec => []TransactionsEnd
  <1>1. Init => TransInv
    BY DEF Init, TransInv
  <1>2. Early /\ MirrorInv /\ TransInv /\ [Next]_vars => TransInv'
    BY TransNext
  <1>3. Early /\ TransInv => TransactionsEnd
    BY ToSetEmpty DEF TransInv, WillEnd, TransactionsEnd, Clean
  <1> QED
    BY <1>1, <1>2, <1>3, MirrorInvAlways, PTL DEF Spec

-----------------------------------------------------------------------------
(* The 0xc8 lists *)

\* What is under way to the client is all there is between its groups and the server's.
Unowned == AckG = NoWord /\ \A g \in Groups : HasG(g) <=> g \in ToSet(ContactListGroups)

\* The plans of an edit that has a list to send.
Lagging(p) ==
  /\ p # <<>> /\ Head(p) \notin {"addgroup", "delgroup"}
  /\ ToSet(p) \cap {"push", "erase"} = {} \/ "delgroup" \in ToSet(p)

LEMMA LaggingIs ==
  ASSUME NEW p \in Seq(Steps), Planned(p), p # <<>>, "content" \in ToSet(p) \/ Head(p) \in {"add", "remove"}
  PROVE  Lagging(p) /\ ("content" \in ToSet(p) => Head(p) \in {"start", "each", "content"})
  <1>1. Fit(ToSet(p)) /\ Head(p) \in ToSet(p)
    <2>1. PICK h, q : h = Head(p) /\ q = Tail(p)
      OBVIOUS
    <2> QED
      BY <2>1, PlannedFits, PlanTail
  <1>2. CASE Head(p) \in {"add", "remove"}
    BY <1>1, <1>2 DEF Fit, Lagging
  <1>3. CASE "content" \in ToSet(p) /\ p \in Plans
    BY <1>1, <1>3, PlansAre DEF Fit, Lagging
  <1>4. CASE "content" \in ToSet(p) /\ p \notin Plans
    <2>1. PICK s \in {0, 1}, n \in 0 .. Len(p) : Emptying(p, s, n)
      BY <1>4 DEF Planned
    <2>2. n \in Nat
      BY LenProperties
    <2>3. Head(p) \in {"start", "each", "content"} /\ "delgroup" \in ToSet(p)
      BY <2>1, <2>2, EmptyingIs
    <2> QED
      BY <2>3 DEF Lagging
  <1> QED
    BY <1>2, <1>3, <1>4

LEMMA BehindPlain == ASSUME TypeInv, PlanInv, NEW d, Behind(d) PROVE Unowned
  <1>1. plan # <<>> /\ ("content" \in ToSet(plan) \/ Head(plan) \in {"add", "remove"})
    BY ToSetEmpty DEF Behind, At
  <1>2. Lagging(plan)
    BY <1>1, PlanIs, LaggingIs
  <1>3. ~AtGroup /\ (~DoneG \/ ToSet(plan) \cap {"push", "erase"} = {})
    BY <1>2 DEF Lagging, AtGroup, At, DoneG
  <1> QED
    BY <1>3, PlainG DEF Unowned, AckG

LEMMA NextBehindPlain == ASSUME TypeInv', PlanInv', NEW d, Behind(d)' PROVE Unowned'
  <1>1. PICK p \in Seq(Steps) : p = plan' /\ Planned(p)
    BY DEF TypeInv, PlanT, PlanInv
  <1>2. p # <<>> /\ ("content" \in ToSet(p) \/ Head(p) \in {"add", "remove"})
    BY <1>1, ToSetEmpty DEF Behind, At
  <1>3. Lagging(p)
    BY <1>1, <1>2, LaggingIs
  <1>4. ~AtGroup'
    BY <1>1, <1>3 DEF Lagging, AtGroup, At
  <1>5. \A g \in Groups : HasG(g)' <=> g \in ToSet(ContactListGroups')
    <2>1. CASE ToSet(p) \cap {"push", "erase"} = {}
      BY <1>1, <2>1, NextPlainG
    <2>2. CASE "delgroup" \in ToSet(p)
      <3>1. ~DoneG'
        BY <1>1, <1>4, <2>2 DEF DoneG
      <3> QED
        BY <3>1 DEF HasG
    <2> QED
      BY <1>3, <2>1, <2>2 DEF Lagging
  <1> QED
    BY <1>4, <1>5 DEF Unowned, AckG

\* A step that touches neither the groups nor what is under way.
LEMMA KeptSame ==
  ASSUME Early, Early', NEW d, Behind(d), Behind(d)', UNCHANGED <<inbox, ContactListGroups>>, Kept(d)
  PROVE  Kept(d)'
  <1>1. Unowned /\ Unowned'
    BY BehindPlain, NextBehindPlain DEF Early
  <1>2. WG' = WG
    BY <1>1 DEF Unowned, WG, WordG
  <1>3. \A g \in Groups : HasG(g)' <=> HasG(g)
    BY <1>1 DEF Unowned
  <1>4. PICK l \in Nat : l = Len(inbox) /\ l = Len(inbox')
    BY InboxIs DEF Early
  <1>5. ASSUME NEW n \in 0 .. l, NEW g \in Groups PROVE AfterG(n, g)' <=> AfterG(n, g)
    BY <1>2, <1>3, StillG
  <1> QED
    BY <1>4, <1>5 DEF Kept

\* After a request its ack is the last there is under way, and it is behind all that the
\* server has done before.
LEMMA KeptAsked ==
  ASSUME Early, Matched', NEW m \in Messages, m.type = "ack", inbox' = Append(inbox, m),
         NEW d, There(d)', TypeInv'
  PROVE  Kept(d)'
  <1>0. PICK g \in Groups : g.id = d /\ g \in srv_groups'
    BY DEF There, TypeInv, SrvT
  <1>1. PICK l \in Nat : l = Len(inbox) /\ Len(inbox') = l + 1 /\ inbox'[l + 1] = m
    BY InboxMore DEF Early
  <1>2. PICK k \in Nat : k = l + 1
    OBVIOUS
  <1>3. AfterG(k, g)'
    BY <1>0, <1>1, <1>2 DEF Matched, Sync
  <1>4. ASSUME NEW n \in 0 .. k, \A i \in n + 1 .. k : inbox'[i].type # "ack"
        PROVE  n = k
    <2>1. k \notin n + 1 .. k
      BY <1>1, <1>2, <1>4
    <2> QED
      BY <1>2, <2>1
  <1> QED
    BY <1>0, <1>1, <1>2, <1>3, <1>4 DEF Kept

\* A change of the other client is behind all that is under way.
LEMMA KeptForeign ==
  ASSUME Early, Early', Matched', NEW m \in Messages, m.type # "ack", inbox' = Append(inbox, m),
         ContactListGroups' = ContactListGroups,
         NEW d, Behind(d), Behind(d)', Kept(d), There(d)'
  PROVE  Kept(d)'
  <1>0. PICK g \in Groups : g.id = d /\ g \in srv_groups'
    BY DEF Early, There, TypeInv, SrvT
  <1>1. PICK l \in Nat : /\ l = Len(inbox) /\ Len(inbox') = l + 1 /\ inbox'[l + 1] = m
                         /\ DOMAIN inbox = 1 .. l /\ DOMAIN inbox' = 1 .. l + 1
                         /\ \A i \in 1 .. l : inbox'[i] = inbox[i]
    BY InboxMore DEF Early
  <1>2. PICK k \in Nat : k = l + 1
    OBVIOUS
  <1>3. Unowned /\ Unowned'
    BY BehindPlain, NextBehindPlain DEF Early
  <1>4. \A j \in 1 .. l : WG'[j] = WG[j]
    BY <1>1, <1>3 DEF Unowned, WG, WordG
  <1>5. \A h \in Groups : HasG(h)' <=> HasG(h)
    BY <1>3 DEF Unowned
  <1>6. ASSUME NEW n \in 0 .. l, NEW h \in Groups PROVE AfterG(n, h)' <=> AfterG(n, h)
    BY <1>4, <1>5, StillG
  <1>7. AfterG(k, g)'
    BY <1>0, <1>1, <1>2 DEF Matched, Sync
  <1>8. ASSUME NEW n \in 0 .. k, \A i \in n + 1 .. k : inbox'[i].type # "ack"
        PROVE  \E h \in Groups : h.id = d /\ AfterG(n, h)'
    <2>1. CASE n = k
      BY <1>0, <1>7, <2>1
    <2>2. CASE n # k
      <3>1. n \in 0 .. l /\ \A i \in n + 1 .. l : i \in n + 1 .. k /\ i \in 1 .. l
        BY <1>2, <2>2
      <3>2. \A i \in n + 1 .. l : inbox[i].type # "ack"
        BY <1>1, <1>8, <3>1
      <3>3. PICK h \in Groups : h.id = d /\ AfterG(n, h)
        BY <1>1, <3>1, <3>2 DEF Kept
      <3> QED
        BY <1>6, <3>1, <3>3
    <2> QED
      BY <2>1, <2>2
  <1> QED
    BY <1>1, <1>2, <1>8 DEF Kept

\* What the reader applies is the first word of what is under way.
LEMMA KeptRead ==
  ASSUME Early, Early', NEW d, Behind(d), Behind(d)', Kept(d), inbox # <<>>, inbox' = Tail(inbox),
         NEW w, w = WordG(Head(inbox), NoWord),
         \A g \in Groups : g \in ToSet(ContactListGroups') <=>
           IF w.key = g.id THEN g \in w.puts ELSE g \in ToSet(ContactListGroups)
  PROVE  Kept(d)'
  <1>1. PICK l \in Nat \ {0} : l = Len(inbox)
    BY InboxRead DEF Early
  <1>2. /\ Len(inbox') = l - 1 /\ DOMAIN inbox = 1 .. l /\ DOMAIN inbox' = 1 .. l - 1
        /\ \A i \in 1 .. l - 1 : inbox'[i] = inbox[i + 1]
        /\ Head(inbox) = inbox[1]
    BY <1>1, InboxRead DEF Early
  <1>3. Unowned /\ Unowned'
    BY BehindPlain, NextBehindPlain DEF Early
  <1>4. WG[1] = w
    BY <1>1, <1>2, <1>3 DEF Unowned, WG
  <1>5. \A j \in 1 .. l - 1 : WG'[j] = WG[j + 1]
    <2>1. \A j \in 1 .. l - 1 : j + 1 \in 1 .. l
      BY <1>1
    <2> QED
      BY <1>2, <1>3, <2>1 DEF Unowned, WG, WordG
  <1>6. \A h \in Groups : HasG(h)' <=> IF WG[1].key = h.id THEN h \in WG[1].puts ELSE HasG(h)
    BY <1>3, <1>4 DEF Unowned
  <1>7. ASSUME NEW n \in 0 .. l - 1, NEW h \in Groups PROVE AfterG(n, h)' <=> AfterG(n + 1, h)
    <2>1. n \in Nat /\ \A j \in 1 .. n : j \in 1 .. l - 1
      BY <1>1
    <2> QED
      BY <1>5, <1>6, <2>1, ReadG
  <1>8. ASSUME NEW n \in 0 .. l - 1, \A i \in n + 1 .. l - 1 : inbox'[i].type # "ack"
        PROVE  \E h \in Groups : h.id = d /\ AfterG(n, h)'
    <2>1. PICK k : k = n + 1
      OBVIOUS
    <2>2. k \in 0 .. l
      BY <1>1, <2>1
    <2>3. ASSUME NEW i \in k + 1 .. l PROVE inbox[i].type # "ack"
      <3>1. i - 1 \in n + 1 .. l - 1 /\ i - 1 \in 1 .. l - 1 /\ (i - 1) + 1 = i
        BY <1>1, <2>1
      <3>2. inbox'[i - 1] = inbox[i]
        BY <1>2, <3>1
      <3> QED
        BY <1>8, <3>1, <3>2
    <2>4. PICK h \in Groups : h.id = d /\ AfterG(k, h)
      BY <1>1, <2>2, <2>3 DEF Kept
    <2> QED
      BY <1>7, <2>1, <2>4
  <1> QED
    BY <1>1, <1>2, <1>8 DEF Kept

LEMMA NotBehind ==
  ASSUME Early, NEW d,
         \/ plan = <<>>
         \/ \E step \in Steps \ {"start", "each", "content"} :
              At(step) /\ (step = "add" => ~waiting \/ ~Granted) /\ (step = "remove" => ~waiting)
         \/ At("content") /\ waiting
  PROVE  ~Behind(d)
  <1>1. CASE plan = <<>>
    BY <1>1, ToSetEmpty DEF Behind, At
  <1>2. ASSUME NEW step \in Steps \ {"start", "each", "content"}, At(step),
               step = "add" => ~waiting \/ ~Granted, step = "remove" => ~waiting
        PROVE  ~Behind(d)
    <2>1. plan # <<>> /\ Head(plan) = step
      BY <1>2 DEF At
    <2>2. "content" \notin ToSet(plan)
      BY <1>2, <2>1, PlanIs, LaggingIs DEF Early
    <2> QED
      BY <1>2, <2>1, <2>2 DEF Behind, At
  <1>3. CASE At("content") /\ waiting
    BY <1>3 DEF Behind, At
  <1> QED
    BY <1>1, <1>2, <1>3

\* Nothing is behind, and a step leaves the server alone.
LEMMA MembersStay ==
  ASSUME NEW d, There(d) => Right(d), There(d)', ~Behind(d), UNCHANGED <<srv_buddies, srv_groups, srv_members>>
  PROVE  Right(d)'
  BY DEF Right, MembersTrue, There

LEMMA MembersSame ==
  ASSUME Early, Early', NEW d, There(d) => Right(d), There(d)', Behind(d) => Behind(d)',
         UNCHANGED <<srv_buddies, srv_groups, srv_members, inbox, ContactListGroups>>
  PROVE  Right(d)'
  <1>1. MembersTrue(d) \/ (Behind(d) /\ Kept(d))
    BY DEF Right, There
  <1>2. MembersTrue(d) => MembersTrue(d)'
    BY DEF MembersTrue
  <1>3. Behind(d) /\ Kept(d) => Kept(d)'
    BY KeptSame
  <1> QED
    BY <1>1, <1>2, <1>3 DEF Right

LEMMA MembersAsked ==
  ASSUME Early, Early', Matched', NEW d, There(d)', NEW answer \in Answers \ {"none"}, Ask(answer),
         MembersTrue(d)' \/ Behind(d)'
  PROVE  Right(d)'
  <1>1. PICK m \in Messages : m = [type |-> "ack", answer |-> answer]
    BY MessagesAre
  <1>2. inbox' = Append(inbox, m) /\ m.type = "ack"
    BY <1>1 DEF Ask
  <1>3. Kept(d)'
    BY <1>2, KeptAsked DEF Early
  <1> QED
    BY <1>3 DEF Right

LEMMA AskAddRight ==
  ASSUME Early, Early', Matched', NEW d, There(d) => Right(d), There(d)', At("add"), ~Behind(d),
         NEW e, AskAdd(e)
  PROVE  Right(d)'
  <1>1. PICK answer \in {"ok", "needauth", "refused"} :
           /\ Ask(answer) /\ uen' = e
           /\ srv_buddies' = IF answer = "ok" THEN srv_buddies \cup {e} ELSE srv_buddies
           /\ UNCHANGED <<srv_groups, srv_members>>
    BY AskAddIs
  <1>2. MembersTrue(d)
    BY <1>1 DEF Right, There
  <1>3. CASE answer # "ok" \/ e.group # d
    <2>1. Members(srv_buddies', d) = Members(srv_buddies, d)
      BY <1>1, <1>3 DEF Members
    <2>2. MembersTrue(d)'
      BY <1>1, <1>2, <2>1 DEF MembersTrue
    <2> QED
      BY <1>1, <2>2, MembersAsked DEF Answers
  <1>4. CASE answer = "ok" /\ e.group = d
    <2>1. PICK m \in Messages : m = [type |-> "ack", answer |-> answer]
      BY MessagesAre DEF Answers
    <2>2. inbox' = Append(inbox, m) /\ waiting' = TRUE /\ plan' = plan
      BY <1>1, <2>1 DEF Ask
    <2>3. Len(inbox) + 1 \in DOMAIN inbox' /\ inbox'[Len(inbox) + 1] = m
      BY <2>2, InboxMore DEF Early
    <2>4. Granted'
      BY <1>4, <2>1, <2>3 DEF Granted
    <2>5. Behind(d)'
      BY <1>1, <1>4, <2>2, <2>4 DEF Behind, At
    <2> QED
      BY <1>1, <2>5, MembersAsked DEF Answers
  <1> QED
    BY <1>3, <1>4

LEMMA sub_ssi_addContactRight ==
  ASSUME Early, Early', Matched', NEW d, There(d) => Right(d), There(d)', sub_ssi_addContact
  PROVE  Right(d)'
  <1>1. At("add") /\ ~waiting
    BY DEF sub_ssi_addContact
  <1>2. ~Behind(d)
    BY <1>1, NotBehind DEF Steps
  <1>3. CASE FailToSend
    BY <1>2, <1>3, MembersStay DEF FailToSend, server
  <1>4. ASSUME NEW e, AskAdd(e) PROVE Right(d)'
    BY <1>1, <1>2, <1>4, AskAddRight
  <1> QED
    BY <1>3, <1>4 DEF sub_ssi_addContact

LEMMA ackAddRight ==
  ASSUME Early, Early', Matched', up, NEW d, There(d) => Right(d), There(d)', ackAdd
  PROVE  Right(d)'
  <1>1. At("add") /\ waiting /\ got # "none"
    BY DEF ackAdd, Acked
  <1>2. Behind(d) => got = "ok" /\ d = uen.group
    <2>1. NoAck
      BY <1>1, NoAckWhen DEF Early
    <2>2. Granted => got = "ok"
      BY <2>1 DEF Granted, NoAck
    <2>3. plan # <<>> /\ Head(plan) = "add"
      BY <1>1 DEF At
    <2>4. "content" \notin ToSet(plan)
      BY <2>3, PlanIs, LaggingIs DEF Early
    <2> QED
      BY <2>2, <2>3, <2>4 DEF Behind, At
  <1>3. CASE got = "needauth" /\ ~uen.wait
    <2>1. PICK e : AskAdd(e)
      BY <1>3 DEF ackAdd
    <2> QED
      BY <1>1, <1>2, <1>3, <2>1, AskAddRight
  <1>4. CASE ~(got = "needauth" /\ ~uen.wait)
    <2>1. /\ waiting' = FALSE /\ UNCHANGED <<server, inbox, ContactListGroups>>
          /\ ContactListUins' = IF got = "ok" THEN Append(ContactListUins, uen) ELSE ContactListUins
          /\ \E i \in {SelectInSeq(ContactListUins', LAMBDA e : e.uin = uen.uin)} :
               IF i = 0 THEN plan' = <<"end">>
               ELSE plan' = <<"content", "end">> /\ gen' = [gen EXCEPT !.id = ContactListUins'[i].group]
      BY <1>4 DEF ackAdd
    <2>2. ASSUME Behind(d) PROVE Behind(d)'
      <3>1. PICK L \in Seq(Buddies), M \in Seq(Buddies), u \in Buddies :
               L = ContactListUins /\ M = ContactListUins' /\ u = uen
        BY DEF Early, TypeInv, ListT, JobT
      <3>2. M = Append(L, u)
        BY <1>2, <2>1, <2>2, <3>1
      <3>3. Len(M) \in 1 .. Len(M) /\ M[Len(M)] = u /\ u \in ToSet(M)
        <4>1. Len(L) \in Nat /\ Len(M) = Len(L) + 1 /\ M[Len(L) + 1] = u
          BY <3>1, <3>2, AppendProperties, LenProperties
        <4>2. Len(M) \in 1 .. Len(M) /\ M[Len(M)] = u
          BY <4>1
        <4> QED
          BY <4>2, ToSetMember
      <3>4. PICK i : /\ i = SelectInSeq(ContactListUins', LAMBDA e : e.uin = uen.uin)
                     /\ IF i = 0 THEN plan' = <<"end">>
                        ELSE plan' = <<"content", "end">> /\ gen' = [gen EXCEPT !.id = ContactListUins'[i].group]
        BY <2>1
      <3>5. i \in 1 .. Len(M) /\ M[i].uin = u.uin
        <4> DEFINE S == {j \in 1 .. Len(M) : M[j].uin = u.uin}
        <4>1. i = IF S # {} THEN Min(S) ELSE 0
          BY <3>1, <3>4 DEF SelectInSeq
        <4>2. S \subseteq Nat /\ Len(M) \in S /\ \A j \in S : j \in 1 .. Len(M) /\ M[j].uin = u.uin
          BY <3>3
        <4> HIDE DEF S
        <4>3. First(S, i)
          BY <4>1, <4>2, FirstIs
        <4>4. i \in S
          BY <4>2, <4>3 DEF First
        <4> QED
          BY <4>2, <4>4
      <3>6. PICK f \in Buddies : f = M[i] /\ f \in ToSet(M) /\ f.uin = u.uin
        BY <3>5, ElementOfSeq, ToSetMember
      <3>7. f = u
        <4>1. HasB(f)' /\ HasB(u)'
          BY <2>1, <3>1, <3>3, <3>6, NextPlainB
        <4>2. PICK z : z = 0
          OBVIOUS
        <4>3. \A j \in 1 .. z : FALSE
          BY <4>2
        <4>4. AfterB(z, f)' /\ AfterB(z, u)'
          BY <4>1, <4>3 DEF AfterB, After
        <4>5. Len(inbox') \in Nat
          BY LenProperties DEF Early, TypeInv, LinkT
        <4>6. GoodAt(z)'
          BY <4>2, <4>5 DEF Matched, Good
        <4> QED
          BY <3>6, <4>4, <4>6 DEF GoodAt
      <3>8. i # 0
        BY <3>5
      <3>9. gen' = [gen EXCEPT !.id = u.group]
        BY <3>1, <3>4, <3>6, <3>7, <3>8
      <3>10. gen'.id = d
        BY <1>2, <2>2, <3>1, <3>9 DEF Early, TypeInv, JobT, Groups
      <3>11. PICK p : p = plan'
        OBVIOUS
      <3>12. p = <<"content", "end">>
        BY <3>4, <3>8, <3>11
      <3>13. "content" \in ToSet(p)
        BY <3>12 DEF ToSet
      <3> QED
        BY <2>1, <3>10, <3>11, <3>13 DEF Behind
    <2> QED
      BY <2>1, <2>2, MembersSame DEF server
  <1> QED
    BY <1>3, <1>4

\* The entry with an item id, and its group.
LEMMA RemovedIs ==
  ASSUME Early, NEW b \in srv_buddies, srv_buddies' = {x \in srv_buddies : x.item # b.item}, NEW d, d # b.group
  PROVE  Members(srv_buddies', d) = Members(srv_buddies, d)
  <1>1. \A x \in srv_buddies : x.item = b.item => x = b
    BY DEF Early, Keyed
  <1>2. {x \in srv_buddies' : x.group = d} = {x \in srv_buddies : x.group = d}
    BY <1>1
  <1> QED
    BY <1>2 DEF Members

LEMMA EachIs ==
  ASSUME Early, At("each")
  PROVE  "content" \in ToSet(plan) /\ \A other : At(other) <=> other = "each"
  <1>1. "each" \in ToSet(plan) /\ \A other : At(other) <=> other = "each"
    BY AtStep DEF Early
  <1> QED
    BY <1>1, PlanIs DEF Early, Fit

LEMMA sub_ssi_removeContactRight ==
  ASSUME Early, Early', Matched', NEW d, There(d) => Right(d), There(d)', sub_ssi_removeContact,
         "moved" \notin faults'
  PROVE  Right(d)'
  <1>1. waiting = FALSE
    BY DEF sub_ssi_removeContact, Early, TypeInv, AckT
  <1>2. CASE At("remove")
    <2>0. ~Behind(d)
      BY <1>1, <1>2, NotBehind DEF Steps
    <2>1. CASE FailToSend
      BY <2>0, <2>1, MembersStay DEF FailToSend, server
    <2>2. CASE ~FailToSend
      <3>1. PICK i \in 1 .. Len(ContactListUins), answer \in {"ok", "refused"} :
               /\ Ask(answer) /\ gen' = [gen EXCEPT !.id = ContactListUins[i].group]
               /\ answer = "ok" => \E b \in srv_buddies : /\ b.group = ContactListUins[i].group
                                                          /\ b.item = ContactListUins[i].item
               /\ srv_buddies' = IF answer = "ok" THEN {b \in srv_buddies : b.item # ContactListUins[i].item}
                                 ELSE srv_buddies
               /\ UNCHANGED <<srv_groups, srv_members>>
        BY <1>2, <2>2, RemovalIs DEF Early
      <3>2. MembersTrue(d)
        BY <2>0, <3>1 DEF Right, There
      <3>3. CASE answer = "refused"
        <4>1. MembersTrue(d)'
          BY <3>1, <3>2, <3>3 DEF MembersTrue
        <4> QED
          BY <3>1, <4>1, MembersAsked DEF Answers
      <3>4. CASE answer = "ok"
        <4>1. PICK b \in srv_buddies : b.group = ContactListUins[i].group /\ b.item = ContactListUins[i].item
          BY <3>1, <3>4
        <4>2. srv_buddies' = {x \in srv_buddies : x.item # b.item} /\ gen' = [gen EXCEPT !.id = b.group]
          BY <3>1, <3>4, <4>1
        <4>3. CASE b.group = d
          <5>1. gen'.id = d
            BY <4>2, <4>3 DEF Early, TypeInv, JobT, Groups
          <5>2. At("remove")' /\ waiting'
            BY <1>2, <3>1 DEF Ask, At
          <5>3. Behind(d)'
            BY <5>1, <5>2 DEF Behind
          <5> QED
            BY <3>1, <5>3, MembersAsked DEF Answers
        <4>4. CASE b.group # d
          <5>1. Members(srv_buddies', d) = Members(srv_buddies, d)
            BY <4>2, <4>4, RemovedIs
          <5>2. MembersTrue(d)'
            BY <3>1, <3>2, <5>1 DEF MembersTrue
          <5> QED
            BY <3>1, <5>2, MembersAsked DEF Answers
        <4> QED
          BY <4>3, <4>4
      <3> QED
        BY <3>3, <3>4
    <2> QED
      BY <2>1, <2>2
  <1>3. CASE At("each")
    <2>0. /\ "content" \in ToSet(plan) /\ ~At("remove") /\ ~At("add") /\ ~At("content")
          /\ Behind(d) <=> d = gen.id
      <3>1. "content" \in ToSet(plan) /\ ~At("remove") /\ ~At("add") /\ ~At("content")
        BY <1>3, EachIs
      <3> QED
        BY <3>1 DEF Behind
    <2>1. CASE FailToSend
      <3>1. plan' = Tail(plan) /\ waiting' = FALSE
            /\ UNCHANGED <<srv_buddies, srv_groups, srv_members, inbox, ContactListGroups, gen>>
        BY <1>3, <2>0, <2>1 DEF FailToSend, Fail, AfterFailure, server, client
      <3>2. ToSet(plan) = {"each"} \cup ToSet(plan')
        BY <1>3, <3>1, AtStep DEF Early
      <3>3. Behind(d) => Behind(d)'
        BY <2>0, <3>1, <3>2 DEF Behind
      <3> QED
        BY <3>1, <3>3, MembersSame
    <2>2. CASE ~FailToSend
      <3>1. PICK i \in 1 .. Len(ContactListUins), answer \in {"ok", "refused"} :
               /\ Ask(answer) /\ gen' = gen
               /\ answer = "ok" => \E b \in srv_buddies : /\ b.group = ContactListUins[i].group
                                                          /\ b.item = ContactListUins[i].item
               /\ srv_buddies' = IF answer = "ok" THEN {b \in srv_buddies : b.item # ContactListUins[i].item}
                                 ELSE srv_buddies
               /\ faults' = IF ContactListUins[i].group # gen.id THEN faults \cup {"moved"} ELSE faults
               /\ UNCHANGED <<srv_groups, srv_members>>
        BY <1>3, <2>0, <2>2, RemovalIs DEF Early
      <3>2. Behind(d) => Behind(d)'
        <4>1. plan' = plan
          BY <3>1 DEF Ask
        <4>2. ~At("content")'
          BY <2>0, <4>1 DEF At
        <4> QED
          BY <2>0, <3>1, <4>1, <4>2 DEF Behind
      <3>3. CASE answer = "refused"
        <4>1. MembersTrue(d) => MembersTrue(d)'
          BY <3>1, <3>3 DEF MembersTrue
        <4>2. MembersTrue(d)' \/ Behind(d)'
          BY <3>1, <3>2, <4>1 DEF Right, There
        <4> QED
          BY <3>1, <4>2, MembersAsked DEF Answers
      <3>4. CASE answer = "ok"
        <4>1. PICK b \in srv_buddies : b.group = ContactListUins[i].group /\ b.item = ContactListUins[i].item
          BY <3>1, <3>4
        <4>2. srv_buddies' = {x \in srv_buddies : x.item # b.item} /\ b.group = gen.id
          BY <3>1, <3>4, <4>1
        <4>3. CASE b.group = d
          <5>1. Behind(d)'
            BY <2>0, <3>2, <4>2, <4>3
          <5> QED
            BY <3>1, <5>1, MembersAsked DEF Answers
        <4>4. CASE b.group # d
          <5>1. Members(srv_buddies', d) = Members(srv_buddies, d)
            BY <4>2, <4>4, RemovedIs
          <5>2. MembersTrue(d)
            BY <2>0, <3>1, <4>2, <4>4 DEF Right, There
          <5>3. MembersTrue(d)'
            BY <3>1, <5>1, <5>2 DEF MembersTrue
          <5> QED
            BY <3>1, <5>3, MembersAsked DEF Answers
        <4> QED
          BY <4>3, <4>4
      <3> QED
        BY <3>3, <3>4
    <2> QED
      BY <2>1, <2>2
  <1> QED
    BY <1>2, <1>3 DEF sub_ssi_removeContact

\* The list of a group is sent as the client has it, and it has it as the server does when
\* nothing is under way.
LEMMA updateSSIGroupContentRight ==
  ASSUME Early, Early', Matched, Matched', up, NEW d \in GroupIds, There(d) => Right(d), There(d)',
         updateSSIGroupContent, "crossed" \notin faults'
  PROVE  Right(d)'
  <1>1. At("content") /\ waiting = FALSE
    BY DEF updateSSIGroupContent, Early, TypeInv, AckT
  <1>2. \A other : At(other) <=> other = "content"
    BY <1>1, AtStep DEF Early
  <1>3. Behind(d) => d = gen.id
    BY <1>2 DEF Behind
  <1>4. NoAck
    BY <1>1, NoAckWhen DEF Early
  <1>5. CASE FailToSend /\ ~HasGroupId(ContactListGroups, gen.id)
    <2>1. ~(Behind(d) /\ Kept(d))
      <3>1. SUFFICES ASSUME Behind(d), Kept(d) PROVE FALSE
        OBVIOUS
      <3>2. DOMAIN inbox = 1 .. Len(inbox) /\ Len(inbox) \in Nat
        BY InboxIs DEF Early
      <3>3. PICK z : z = 0
        OBVIOUS
      <3>4. z \in 0 .. Len(inbox) /\ \A i \in z + 1 .. Len(inbox) : i \in DOMAIN inbox
        BY <3>2, <3>3
      <3>5. PICK g \in Groups : g.id = d /\ AfterG(z, g)
        BY <1>4, <3>1, <3>4 DEF NoAck, Kept
      <3>6. HasG(g)
        BY <3>3, <3>5, NoneG
      <3>7. g \in ToSet(ContactListGroups)
        BY <3>1, <3>6, BehindPlain DEF Unowned, Early
      <3>8. DOMAIN ContactListGroups = 1 .. Len(ContactListGroups) /\ ContactListGroups \in Seq(Groups)
        BY ListsAre, LenProperties DEF Early
      <3>9. HasGroupId(ContactListGroups, gen.id)
        BY <1>3, <3>1, <3>5, <3>7, <3>8, ToSetMember DEF HasGroupId
      <3> QED
        BY <1>5, <3>9
    <2>2. UNCHANGED <<srv_buddies, srv_groups, srv_members>>
      BY <1>5 DEF FailToSend, server
    <2> QED
      BY <2>1, <2>2 DEF Right, MembersTrue, There
  <1>6. CASE ~(FailToSend /\ ~HasGroupId(ContactListGroups, gen.id))
    <2>1. PICK known \in BOOLEAN : known <=> \E g \in srv_groups : g.id = gen.id
      OBVIOUS
    <2>2. /\ srv_members' = IF known
               THEN [srv_members EXCEPT ![gen.id] = Members(ToSet(ContactListUins), gen.id)]
               ELSE srv_members
          /\ Ask(IF known THEN "ok" ELSE "refused")
          /\ faults' = IF \E i \in DOMAIN inbox : inbox[i].type # "ack"
                       THEN faults \cup {"crossed"} ELSE faults
          /\ UNCHANGED <<srv_buddies, srv_groups>>
      BY <1>6, <2>1 DEF updateSSIGroupContent
    <2>3. PICK answer \in {"ok", "refused"} : Ask(answer)
      BY <2>2
    <2>4. CASE d # gen.id
      <3>1. MembersTrue(d)
        BY <1>3, <2>2, <2>4 DEF Right, There
      <3>2. srv_members'[d] = srv_members[d]
        BY <2>2, <2>4 DEF Early, TypeInv, SrvT
      <3>3. MembersTrue(d)'
        BY <2>2, <3>1, <3>2 DEF MembersTrue
      <3> QED
        BY <2>3, <3>3, MembersAsked DEF Answers
    <2>5. CASE d = gen.id
      <3>1. known
        BY <2>1, <2>2, <2>5 DEF There
      <3>2. PICK l \in Nat : l = Len(inbox) /\ DOMAIN inbox = 1 .. l
        BY InboxIs DEF Early
      <3>3. \A i \in 1 .. l : FALSE
        BY <1>4, <2>2, <3>2 DEF NoAck
      <3>4. l = 0
        BY <3>2, <3>3
      <3>5. \A b \in Buddies : b \in srv_buddies <=> b \in ToSet(ContactListUins)
        <4>1. \A b \in Buddies : b \in srv_buddies <=> AfterB(l, b)
          BY <3>2 DEF Matched, Sync
        <4>2. \A b \in Buddies : AfterB(l, b) <=> HasB(b)
          BY <3>4, NoneB
        <4>3. \A b : HasB(b) <=> b \in ToSet(ContactListUins)
          BY <1>1, PlainB DEF DoneB
        <4> QED
          BY <4>1, <4>2, <4>3
      <3>6. srv_buddies = ToSet(ContactListUins)
        BY <3>5, ListsAre DEF Early, TypeInv, SrvT
      <3>7. srv_members'[d] = Members(ToSet(ContactListUins), d)
        BY <2>2, <2>5, <3>1 DEF Early, TypeInv, SrvT
      <3>8. MembersTrue(d)'
        BY <2>2, <3>6, <3>7 DEF MembersTrue
      <3> QED
        BY <2>3, <3>8, MembersAsked DEF Answers
    <2> QED
      BY <2>4, <2>5
  <1> QED
    BY <1>5, <1>6

LEMMA OtherRequestsRight ==
  ASSUME Early, Early', Matched', up, NEW d \in GroupIds, There(d) => Right(d), There(d)',
         updateMasterGroup \/ askAddGroup \/ askDeleteGroup \/ askPrivacy
  PROVE  Right(d)'
  <1>1. PICK step \in {"master", "addgroup", "delgroup", "privacy"} : At(step)
    BY DEF updateMasterGroup, askAddGroup, askDeleteGroup, askPrivacy
  <1>2. ~Behind(d)
    BY <1>1, NotBehind DEF Steps
  <1>3. There(d) => MembersTrue(d)
    BY <1>2 DEF Right
  <1>4. d # 0
    BY ContactListAssumption
  <1>5. PICK answer \in {"ok", "refused"} : Ask(answer)
    BY DEF updateMasterGroup, askAddGroup, askDeleteGroup, askPrivacy
  <1>6. CASE updateMasterGroup
    <2>1. srv_members'[d] = srv_members[d] /\ UNCHANGED <<srv_buddies, srv_groups>>
      BY <1>4, <1>6 DEF updateMasterGroup, Early, TypeInv, SrvT
    <2>2. MembersTrue(d)'
      BY <1>3, <2>1 DEF MembersTrue, There
    <2> QED
      BY <1>5, <2>2, MembersAsked DEF Answers
  <1>7. CASE askAddGroup
    <2>1. PICK a \in {"ok", "refused"} :
             /\ a = "ok" => \A g \in srv_groups : g.id # gen.id
             /\ srv_groups' = IF a = "ok" THEN srv_groups \cup {gen} ELSE srv_groups
             /\ srv_members' = IF a = "ok" THEN [srv_members EXCEPT ![gen.id] = {}] ELSE srv_members
             /\ srv_buddies' = srv_buddies
      BY <1>7 DEF askAddGroup
    <2>2. CASE a = "refused"
      <3>1. MembersTrue(d)'
        BY <1>3, <2>1, <2>2 DEF MembersTrue, There
      <3> QED
        BY <1>5, <3>1, MembersAsked DEF Answers
    <2>3. CASE a = "ok" /\ d # gen.id
      <3>1. There(d) /\ srv_members'[d] = srv_members[d]
        BY <2>1, <2>3 DEF There, Early, TypeInv, SrvT
      <3>2. MembersTrue(d)'
        BY <1>3, <2>1, <3>1 DEF MembersTrue
      <3> QED
        BY <1>5, <3>2, MembersAsked DEF Answers
    <2>4. CASE a = "ok" /\ d = gen.id
      <3>1. \A b \in srv_buddies : b.group # d
        BY <2>1, <2>4 DEF Early, Keyed
      <3>2. Members(srv_buddies, d) = {}
        BY <3>1 DEF Members
      <3>3. srv_members'[d] = {}
        BY <2>1, <2>4 DEF Early, TypeInv, SrvT
      <3>4. MembersTrue(d)'
        BY <2>1, <3>2, <3>3 DEF MembersTrue
      <3> QED
        BY <1>5, <3>4, MembersAsked DEF Answers
    <2> QED
      BY <2>2, <2>3, <2>4
  <1>8. CASE askDeleteGroup \/ askPrivacy
    <2>1. UNCHANGED <<srv_members, srv_buddies>> /\ srv_groups' \subseteq srv_groups
      BY <1>8 DEF askDeleteGroup, askPrivacy
    <2>2. MembersTrue(d)'
      BY <1>3, <2>1 DEF MembersTrue, There
    <2> QED
      BY <1>5, <2>2, MembersAsked DEF Answers
  <1> QED
    BY <1>6, <1>7, <1>8

\* The steps that ask the server nothing.
LEMMA QuietRight ==
  ASSUME Early, Early', up, NEW d, There(d) => Right(d), There(d)',
         Transact \/ ackRemove \/ ackGroup \/ ackPrivacy \/ endGroup
  PROVE  Right(d)'
  <1>1. UNCHANGED <<srv_buddies, srv_groups, srv_members, inbox, gen>>
    BY DEF Transact, ackRemove, ackGroup, ackPrivacy, endGroup, server, job
  <1>2. CASE Transact
    <2>1. PICK step \in {"start", "end"} : At(step)
      BY <1>2 DEF Transact
    <2>2. plan' = Tail(plan) /\ waiting' = waiting /\ waiting = FALSE /\ ContactListGroups' = ContactListGroups
      BY <1>2, NotWaiting DEF Transact, client, ack, Early
    <2>3. ToSet(plan) = {step} \cup ToSet(plan')
      BY <2>1, <2>2, AtStep DEF Early
    <2>4. Behind(d) => Behind(d)'
      BY <1>1, <2>1, <2>2, <2>3 DEF Behind
    <2> QED
      BY <1>1, <2>2, <2>4, MembersSame
  <1>3. CASE ackRemove
    <2>1. waiting /\ waiting' = FALSE /\ plan' = AfterRemove /\ ContactListGroups' = ContactListGroups
      BY <1>3 DEF ackRemove, Acked
    <2>2. ASSUME At("remove"), Behind(d) PROVE Behind(d)'
      <3>1. plan' = <<"content", "end">>
        BY <2>1, <2>2 DEF AfterRemove
      <3>2. PICK p : p = plan'
        OBVIOUS
      <3>3. p = <<"content", "end">>
        BY <3>1, <3>2
      <3>4. "content" \in ToSet(p)
        BY <3>3 DEF ToSet
      <3>5. d = gen.id
        <4>1. ~At("add") /\ plan # <<>> /\ Head(plan) = "remove"
          BY <2>2 DEF At
        <4> QED
          BY <2>2, <4>1, PlanIs, LaggingIs DEF Behind, Early
      <3> QED
        BY <1>1, <2>1, <3>2, <3>4, <3>5 DEF Behind
    <2>3. ASSUME At("each"), Behind(d) PROVE Behind(d)'
      <3>1. ~At("remove") /\ ~At("add")
        BY <2>3, EachIs
      <3>2. plan' = Tail(plan)
        BY <2>1, <3>1 DEF AfterRemove
      <3>3. ToSet(plan) = {"each"} \cup ToSet(plan')
        BY <2>3, <3>2, AtStep DEF Early
      <3> QED
        BY <1>1, <2>1, <2>3, <3>1, <3>3 DEF Behind
    <2>4. Behind(d) => Behind(d)'
      BY <1>3, <2>2, <2>3 DEF ackRemove
    <2> QED
      BY <1>1, <2>1, <2>4, MembersSame
  <1>4. CASE ackGroup
    <2>1. waiting /\ \E step \in {"content", "addgroup", "delgroup", "master"} : At(step)
      BY <1>4 DEF ackGroup, Acked
    <2>2. ~Behind(d)
      BY <2>1, NotBehind DEF Steps
    <2> QED
      BY <1>1, <2>2, MembersStay
  <1>5. CASE ackPrivacy \/ endGroup
    <2>1. \E step \in {"privacy", "push", "erase"} : At(step)
      BY <1>5 DEF ackPrivacy, endGroup
    <2>2. ~Behind(d)
      BY <2>1, NotBehind DEF Steps
    <2> QED
      BY <1>1, <2>2, MembersStay
  <1> QED
    BY <1>2, <1>3, <1>4, <1>5

\* Each change of the other client carries the list of its group along.
LEMMA OthersTrue ==
  ASSUME Early, Others, NEW d \in GroupIds, There(d) => MembersTrue(d), There(d)'
  PROVE  MembersTrue(d)'
  <1>0. d # 0 /\ srv_members \in [GroupIds \cup {0} -> SUBSET Nat] /\ srv_buddies \subseteq Buddies
        /\ \A b \in Buddies : b.group \in GroupIds
    BY ContactListAssumption DEF Early, TypeInv, SrvT, Buddies
  <1>1. ASSUME NEW b \in Buddies, otherAdds(b) PROVE MembersTrue(d)'
    <2>1. /\ srv_buddies' = srv_buddies \cup {b} /\ srv_groups' = srv_groups
          /\ srv_members' = [srv_members EXCEPT ![b.group] = @ \cup {b.item}]
      BY <1>1 DEF otherAdds
    <2>2. MembersTrue(d)
      BY <2>1 DEF There
    <2>3. CASE b.group = d
      <3>1. Members(srv_buddies', d) = Members(srv_buddies, d) \cup {b.item}
        BY <2>1, <2>3 DEF Members
      <3>2. srv_members'[d] = srv_members[d] \cup {b.item}
        BY <1>0, <2>1, <2>3
      <3> QED
        BY <2>2, <3>1, <3>2 DEF MembersTrue
    <2>4. CASE b.group # d
      <3>1. Members(srv_buddies', d) = Members(srv_buddies, d)
        BY <2>1, <2>4 DEF Members
      <3>2. srv_members'[d] = srv_members[d]
        BY <1>0, <2>1, <2>4
      <3> QED
        BY <2>2, <3>1, <3>2 DEF MembersTrue
    <2> QED
      BY <2>3, <2>4
  <1>2. ASSUME NEW b \in srv_buddies, otherGrants(b) PROVE MembersTrue(d)'
    <2>1. PICK c : c = [b EXCEPT !.wait = FALSE]
      OBVIOUS
    <2>2. c.item = b.item /\ c.group = b.group
      BY <1>0, <2>1 DEF Buddies
    <2>3. /\ srv_buddies' = (srv_buddies \ {b}) \cup {c}
          /\ UNCHANGED <<srv_groups, srv_members>>
      BY <1>2, <2>1 DEF otherGrants
    <2>4. Members(srv_buddies', d) = Members(srv_buddies, d)
      <3>1. ASSUME NEW x \in srv_buddies' PROVE \E y \in srv_buddies : y.item = x.item /\ y.group = x.group
        BY <2>2, <2>3, <3>1
      <3>2. ASSUME NEW y \in srv_buddies PROVE \E x \in srv_buddies' : y.item = x.item /\ y.group = x.group
        BY <2>2, <2>3, <3>2
      <3> QED
        BY <3>1, <3>2 DEF Members
    <2> QED
      BY <2>3, <2>4 DEF MembersTrue, There
  <1>3. ASSUME NEW b \in srv_buddies, otherDeletes(b) PROVE MembersTrue(d)'
    <2>1. /\ srv_buddies' = srv_buddies \ {b} /\ srv_groups' = srv_groups
          /\ srv_members' = [srv_members EXCEPT ![b.group] = @ \ {b.item}]
      BY <1>3 DEF otherDeletes
    <2>2. MembersTrue(d) /\ \A x \in srv_buddies : x.item = b.item => x = b
      BY <2>1 DEF There, Early, Keyed
    <2>3. CASE b.group = d
      <3>1. Members(srv_buddies', d) = Members(srv_buddies, d) \ {b.item}
        BY <2>1, <2>2, <2>3 DEF Members
      <3>2. srv_members'[d] = srv_members[d] \ {b.item}
        BY <1>0, <2>1, <2>3
      <3> QED
        BY <2>2, <3>1, <3>2 DEF MembersTrue
    <2>4. CASE b.group # d
      <3>1. Members(srv_buddies', d) = Members(srv_buddies, d)
        BY <2>1, <2>4 DEF Members
      <3>2. srv_members'[d] = srv_members[d]
        BY <1>0, <2>1, <2>4
      <3> QED
        BY <2>2, <3>1, <3>2 DEF MembersTrue
    <2> QED
      BY <2>3, <2>4
  <1>4. ASSUME NEW g \in Groups, otherAddsGroup(g) PROVE MembersTrue(d)'
    <2>1. /\ \A h \in srv_groups : h.id # g.id
          /\ srv_groups' = srv_groups \cup {g} /\ srv_buddies' = srv_buddies
          /\ srv_members' = [srv_members EXCEPT ![g.id] = {}, ![0] = @ \cup {g.id}]
      BY <1>4 DEF otherAddsGroup
    <2>2. g.id \in GroupIds
      BY DEF Groups
    <2>3. CASE g.id = d
      <3>1. \A b \in srv_buddies : b.group # d
        BY <2>1, <2>3 DEF Early, Keyed
      <3>2. Members(srv_buddies, d) = {}
        BY <3>1 DEF Members
      <3>3. srv_members'[d] = {}
        BY <1>0, <2>1, <2>2, <2>3
      <3> QED
        BY <2>1, <3>2, <3>3 DEF MembersTrue
    <2>4. CASE g.id # d
      <3>1. There(d)
        BY <2>1, <2>4 DEF There
      <3>2. srv_members'[d] = srv_members[d]
        BY <1>0, <2>1, <2>2, <2>4
      <3> QED
        BY <2>1, <3>1, <3>2 DEF MembersTrue
    <2> QED
      BY <2>3, <2>4
  <1>5. ASSUME NEW g \in srv_groups, otherDeletesGroup(g) PROVE MembersTrue(d)'
    <2>1. /\ srv_groups' = srv_groups \ {g} /\ srv_buddies' = srv_buddies
          /\ srv_members' = [srv_members EXCEPT ![0] = @ \ {g.id}]
      BY <1>5 DEF otherDeletesGroup
    <2>2. There(d) /\ srv_members'[d] = srv_members[d]
      BY <1>0, <2>1 DEF There
    <2> QED
      BY <2>1, <2>2 DEF MembersTrue
  <1>6. ASSUME NEW p \in Privacy, otherSetsPrivacy(p) PROVE MembersTrue(d)'
    BY <1>6 DEF otherSetsPrivacy, MembersTrue, There
  <1> QED
    BY <1>1, <1>2, <1>3, <1>4, <1>5, <1>6 DEF Others

LEMMA OthersRight ==
  ASSUME Early, Early', Matched', up, Others, NEW d \in GroupIds, There(d) => Right(d), There(d)'
  PROVE  Right(d)'
  <1>1. CASE There(d) => MembersTrue(d)
    BY <1>1, OthersTrue DEF Right
  <1>2. CASE ~(There(d) => MembersTrue(d))
    <2>1. Behind(d) /\ Kept(d)
      BY <1>2 DEF Right
    <2>2. PICK m \in Messages : m.type # "ack" /\ Notify(m)
      <3>1. srv_buddies \subseteq Buddies /\ srv_groups \subseteq Groups
        BY DEF Early, TypeInv, SrvT
      <3>2. ASSUME NEW b \in srv_buddies, otherGrants(b) PROVE \E m \in Messages : m.type # "ack" /\ Notify(m)
        <4>1. PICK c \in Buddies : c = [b EXCEPT !.wait = FALSE]
          BY <3>1 DEF Buddies
        <4>2. Notify([type |-> "buddy", buddy |-> c])
          BY <3>2, <4>1 DEF otherGrants
        <4> QED
          BY <4>2, MessagesAre
      <3> QED
        BY <3>1, <3>2, MessagesAre DEF Others, otherAdds, otherDeletes, otherAddsGroup, otherDeletesGroup,
           otherSetsPrivacy
    <2>3. /\ inbox' = Append(inbox, m) /\ m.type # "ack"
          /\ UNCHANGED <<plan, waiting, got, uen, gen, ContactListGroups>>
      BY <2>2 DEF Notify, Others, otherAdds, otherGrants, otherDeletes, otherAddsGroup, otherDeletesGroup,
         otherSetsPrivacy, Foreign, client, job, ack
    <2>4. Granted' <=> Granted
      BY <2>3, GrantedSame DEF Early
    <2>5. Behind(d)'
      BY <2>1, <2>3, <2>4 DEF Behind, At
    <2>6. Kept(d)'
      BY <2>1, <2>3, <2>5, KeptForeign
    <2> QED
      BY <2>5, <2>6 DEF Right
  <1> QED
    BY <1>1, <1>2

\* What a read does to the groups.
LEMMA GroupsRead ==
  ASSUME Early, Matched, Reader, NEW w, w = WordG(Head(inbox), NoWord)
  PROVE  \A g \in Groups : g \in ToSet(ContactListGroups') <=>
                           IF w.key = g.id THEN g \in w.puts ELSE g \in ToSet(ContactListGroups)
  <1>0. \A g \in Groups : g.id # 0
    BY NumbersAre DEF Groups
  <1>1. CASE readAck \/ (parseSSIAddNotify /\ ~Notified("group")) \/ (parseSSIDeleteNotify /\ ~Notified("nogroup"))
    <2>1. ContactListGroups' = ContactListGroups /\ Head(inbox).type \in {"ack", "buddy", "privacy", "nobuddy"}
      BY <1>1 DEF readAck, parseSSIAddNotify, parseSSIDeleteNotify, Notified, client
    <2>2. w = NoWord
      BY <2>1 DEF WordG
    <2> QED
      BY <1>0, <2>1, <2>2 DEF NoWord
  <1>2. CASE parseSSIAddNotify /\ Notified("group")
    <2>1. PICK c \in Groups : c = Head(inbox).group
      BY <1>2, NotifiedIs, OfMessages DEF Early
    <2>2. w.key = c.id /\ \A x : x \in w.puts <=> x = c
      BY <1>2, <2>1 DEF WordG, Notified
    <2> QED
      BY <1>2, <2>1, <2>2, GroupPut
  <1>3. CASE parseSSIDeleteNotify /\ Notified("nogroup")
    <2>1. PICK c \in Groups : c = Head(inbox).group
      BY <1>3, NotifiedIs, OfMessages DEF Early
    <2>2. w.key = c.id /\ \A x : x \notin w.puts
      BY <1>3, <2>1 DEF WordG, Notified
    <2> QED
      BY <1>3, <2>1, <2>2, GroupGone
  <1> QED
    BY <1>1, <1>2, <1>3 DEF Reader

LEMMA ReaderRight ==
  ASSUME Early, Early', Matched, Reader, NEW d, There(d) => Right(d), There(d)'
  PROVE  Right(d)'
  <1>1. /\ UNCHANGED <<srv_buddies, srv_groups, srv_members, plan, waiting, uen, gen>>
        /\ inbox # <<>> /\ inbox' = Tail(inbox)
    BY DEF Reader, readAck, parseSSIAddNotify, parseSSIDeleteNotify, Notified, server, job, ack
  <1>2. Granted' <=> Granted
    <2>1. CASE readAck
      BY <2>1, readAckGranted
    <2>2. CASE ~readAck
      <3>1. got' = got /\ Head(inbox).type # "ack"
        BY <2>2 DEF Reader, parseSSIAddNotify, parseSSIDeleteNotify, Notified, ack
      <3> QED
        BY <1>1, <3>1, GrantedSame DEF Early
    <2> QED
      BY <2>1, <2>2
  <1>3. Behind(d) => Behind(d)'
    BY <1>1, <1>2 DEF Behind, At
  <1>4. MembersTrue(d) => MembersTrue(d)'
    BY <1>1 DEF MembersTrue
  <1>5. MembersTrue(d) \/ (Behind(d) /\ Kept(d))
    BY <1>1 DEF Right, There
  <1>6. Behind(d) /\ Kept(d) => Kept(d)'
    <2>1. PICK w : w = WordG(Head(inbox), NoWord)
      OBVIOUS
    <2>2. \A g \in Groups : g \in ToSet(ContactListGroups') <=>
                            IF w.key = g.id THEN g \in w.puts ELSE g \in ToSet(ContactListGroups)
      BY <2>1, GroupsRead
    <2> QED
      BY <1>1, <1>3, <2>1, <2>2, KeptRead
  <1> QED
    BY <1>3, <1>4, <1>5, <1>6 DEF Right

LEMMA MembersNext == ASSUME Early, MirrorInv, MembersInv, [Next]_vars PROVE MembersInv'
  <1>0. Early' /\ MirrorInv'
    BY EarlyNext, MatchedNext
  <1> SUFFICES ASSUME Tidy' PROVE (~up' => plan' = <<>>) /\ \A d \in GroupIds : There(d)' => Right(d)'
    BY DEF MembersInv
  <1>1. Tidy /\ (~Login => faults \subseteq faults')
    <2>1. CASE Login
      BY <2>1 DEF Login, Tidy
    <2>2. CASE ~Login
      <3>1. faults \subseteq faults'
        BY <2>2, FaultsStay
      <3> QED
        BY <3>1 DEF Tidy
    <2> QED
      BY <2>1, <2>2
  <1>2. (~up => plan = <<>>) /\ \A d \in GroupIds : There(d) => Right(d)
    BY <1>1 DEF MembersInv
  <1>3. /\ "timeout" \notin faults' /\ "cut" \notin faults' /\ "moved" \notin faults'
        /\ "crossed" \notin faults' /\ Undisturbed' /\ Undisturbed
    BY <1>1 DEF Tidy, Undisturbed
  <1>4. plan = <<>> => \A d : ~Behind(d)
    BY NotBehind
  <1>5. CASE Login \/ Disconnect \/ Menu
    <2>1. CASE Login
      BY <1>2, <1>4, <2>1, MembersStay DEF Login, server
    <2>2. CASE Disconnect
      <3>1. plan = <<>> /\ plan' = plan /\ UNCHANGED <<srv_buddies, srv_groups, srv_members>>
        BY <1>3, <2>2 DEF Disconnect, server
      <3> QED
        BY <1>2, <1>4, <3>1, MembersStay
    <2>3. CASE Menu
      <3>a. ASSUME NEW p, Call(p)
            PROVE  plan = <<>> /\ up' /\ UNCHANGED <<srv_buddies, srv_groups, srv_members>>
        BY <3>a DEF Call, server
      <3>b. ASSUME NEW n \in Names, removeGroup(n) PROVE \E p : Call(p)
        BY <3>b, removeGroupIs DEF Early
      <3>1. plan = <<>> /\ up' /\ UNCHANGED <<srv_buddies, srv_groups, srv_members>>
        BY <2>3, <3>a, <3>b DEF Menu, addContact, removeContact, addGroup, setMyPrivacyStatus
      <3> QED
        BY <1>2, <1>4, <3>1, MembersStay
    <2> QED
      BY <1>5, <2>1, <2>2, <2>3
  <1>6. CASE ~up /\ Others
    <2>1. plan = <<>> /\ plan' = plan
      BY <1>2, <1>6 DEF Others, otherAdds, otherGrants, otherDeletes, otherAddsGroup, otherDeletesGroup,
         otherSetsPrivacy, Foreign
    <2>2. \A d \in GroupIds : There(d) => MembersTrue(d)
      BY <1>2, <1>4, <2>1 DEF Right
    <2>3. \A d \in GroupIds : There(d)' => MembersTrue(d)'
      BY <1>6, <2>2, OthersTrue
    <2> QED
      BY <2>1, <2>3 DEF Right
  <1>7. CASE UNCHANGED vars
    <2>1. UNCHANGED <<srv_buddies, srv_groups, srv_members, inbox, ContactListGroups, plan, waiting, got, uen, gen, up>>
      BY <1>7 DEF vars, server, client, job, ack
    <2>2. \A d : Behind(d) => Behind(d)'
      BY <2>1 DEF Behind, At, Granted
    <2> QED
      BY <1>0, <1>2, <2>1, <2>2, MembersSame
  <1>8. CASE (Edit \/ Reader \/ Others) /\ ~(~up /\ Others)
    <2>1. up
      <3>1. CASE Reader
        BY <3>1 DEF Reader, readAck, parseSSIAddNotify, parseSSIDeleteNotify, Notified, Early, AckInv, Down
      <3>2. CASE Edit
        <4>1. plan # <<>>
          BY <3>2, NotWaiting DEF Edit, Transact, sub_ssi_addContact, sub_ssi_removeContact, updateSSIGroupContent,
             updateMasterGroup, askAddGroup, askDeleteGroup, askPrivacy, ackAdd, ackRemove, ackGroup, ackPrivacy,
             endGroup, crash, giveUp, At, Early
        <4> QED
          BY <1>2, <4>1
      <3> QED
        BY <1>8, <3>1, <3>2
    <2>2. up'
      BY <1>3, <1>8, <2>1 DEF Edit, Reader, Others, Transact, sub_ssi_addContact, sub_ssi_removeContact,
         updateSSIGroupContent, updateMasterGroup, askAddGroup, askDeleteGroup, askPrivacy, ackAdd, ackRemove,
         ackGroup, ackPrivacy, endGroup, crash, giveUp, AskAdd, Ask, FailToSend, readAck, parseSSIAddNotify,
         parseSSIDeleteNotify, Notified, otherAdds, otherGrants, otherDeletes, otherAddsGroup, otherDeletesGroup,
         otherSetsPrivacy, Foreign
    <2>3. Matched /\ Matched'
      BY <1>0, <1>3, <2>1, <2>2 DEF MirrorInv, Matched
    <2>4. ASSUME NEW d \in GroupIds, There(d)' PROVE Right(d)'
      <3>1. There(d) => Right(d)
        BY <1>2
      <3>2. CASE sub_ssi_addContact \/ ackAdd
        BY <1>0, <2>1, <2>3, <2>4, <3>1, <3>2, sub_ssi_addContactRight, ackAddRight
      <3>3. CASE sub_ssi_removeContact
        BY <1>0, <1>3, <2>3, <2>4, <3>1, <3>3, sub_ssi_removeContactRight
      <3>4. CASE updateSSIGroupContent
        BY <1>0, <1>3, <2>1, <2>3, <2>4, <3>1, <3>4, updateSSIGroupContentRight
      <3>5. CASE updateMasterGroup \/ askAddGroup \/ askDeleteGroup \/ askPrivacy
        BY <1>0, <2>1, <2>3, <2>4, <3>1, <3>5, OtherRequestsRight
      <3>6. CASE Transact \/ ackRemove \/ ackGroup \/ ackPrivacy \/ endGroup
        BY <1>0, <2>1, <2>4, <3>1, <3>6, QuietRight
      <3>7. CASE crash \/ giveUp
        BY <1>3, <2>1, <3>7 DEF crash, giveUp
      <3>8. CASE Reader
        BY <1>0, <2>3, <2>4, <3>1, <3>8, ReaderRight
      <3>9. CASE Others
        BY <1>0, <2>1, <2>3, <2>4, <3>1, <3>9, OthersRight
      <3> QED
        BY <1>8, <3>2, <3>3, <3>4, <3>5, <3>6, <3>7, <3>8, <3>9 DEF Edit
    <2> QED
      BY <2>2, <2>4
  <1> QED
    BY <1>5, <1>6, <1>7, <1>8 DEF Next

\* Between edits the 0xc8 list of every group names its buddies: addContact and removeContact
\* send the list of the group that they have changed, with the lists of the client and the
\* server equal then, and removeContacts that of the group it empties; and a refusal or the
\* end of an edit in between leaves none behind, unless it was cut short.
THEOREM GroupsAlwaysListMembers == Spec => []GroupsListMembers
  <1>1. Init => MembersInv
    <2>1. SUFFICES ASSUME Init, NEW d \in GroupIds PROVE Right(d)
      BY DEF Init, MembersInv
    <2>2. d # 0
      BY ContactListAssumption
    <2> QED
      BY <2>1, <2>2 DEF Init, Right, MembersTrue
  <1>2. Early /\ MirrorInv /\ MembersInv /\ [Next]_vars => MembersInv'
    BY MembersNext
  <1>3. Early /\ MembersInv => GroupsListMembers
    <2>1. SUFFICES ASSUME Early, MembersInv, plan = <<>>, Tidy, NEW g \in srv_groups
                   PROVE  srv_members[g.id] = Members(srv_buddies, g.id)
      BY DEF GroupsListMembers, Tidy
    <2>2. g.id \in GroupIds /\ There(g.id)
      BY <2>1 DEF Early, TypeInv, SrvT, Groups, There
    <2>3. PICK d \in GroupIds : d = g.id /\ There(d)
      BY <2>2
    <2>4. ~Behind(d)
      BY <2>1, NotBehind
    <2> QED
      BY <2>1, <2>3, <2>4 DEF MembersInv, Right, MembersTrue
  <1> QED
    BY <1>1, <1>2, <1>3, MirrorInvAlways, PTL DEF Spec
=============================================================================
