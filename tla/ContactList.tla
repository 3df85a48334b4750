----------------------------- MODULE ContactList -----------------------------
(***************************************************************************)
(* The contact list of an ICQ account (SSI): the copy the server keeps,    *)
(* the one in ICQKid2, the edits the GUI thread makes to both, and what    *)
(* another client of the same account does to the server's meanwhile.      *)
(*                                                                         *)
(* An edit is a transaction of several requests, each followed by a wait   *)
(* for its ack; the list may change under it during a wait, because the    *)
(* reader thread applies the notifications of other clients' changes.      *)
(* plan holds the steps an edit has still to take; a step is the code from *)
(* one wait to the next.  That the ack a wait gets is its own is what      *)
(* SnacExchange shows.                                                     *)
(***************************************************************************)
EXTENDS Naturals, Sequences, FiniteSets, SequencesExt

CONSTANTS
  Uins,        \* contacts
  Names,       \* names of groups
  GroupIds,    \* ids of groups, 1..0xfffd in the code
  ItemIds,     \* ids of items, 1..0xfffd in the code
  IconItems,   \* items of type 0x14 on the server
  OtherItems,  \* other items on the server, of types whose ids the client keeps
  Roster,      \* the buddies on the server at the start
  Directory,   \* and its groups
  Privacies,   \* who can see the user
  PRIV_ALL_CAN_SEE,
  MaxCalls,    \* bound: edits the user makes
  MaxForeign,  \* bound: changes the other client makes
  MaxLogins    \* bound: logins

Buddies == [uin : Uins, group : GroupIds, item : ItemIds, wait : BOOLEAN]
Groups  == [id : GroupIds, name : Names]
Privacy == [item : ItemIds \cup {0}, stat : Privacies]   \* item 0: there is none

\* The list the server has at first is one it accepts: an id is that of one entry, and
\* a contact or a name is in it once.
ASSUME ContactListAssumption ==
  /\ GroupIds \subseteq Nat \ {0} /\ ItemIds \subseteq Nat \ {0}
  /\ IconItems \subseteq ItemIds /\ OtherItems \subseteq ItemIds
  /\ Buddies # {} /\ Roster \subseteq Buddies /\ IsFiniteSet(Roster)
  /\ Groups # {} /\ Directory \subseteq Groups /\ IsFiniteSet(Directory)
  /\ {b.group : b \in Roster} \subseteq {g.id : g \in Directory}
  /\ \A b, c \in Roster : b.item = c.item \/ b.uin = c.uin => b = c
  /\ \A g, h \in Directory : g.id = h.id \/ g.name = h.name => g = h
  /\ PRIV_ALL_CAN_SEE \in Privacies
  /\ MaxCalls \in Nat /\ MaxForeign \in Nat /\ MaxLogins \in Nat

VARIABLES
  srv_buddies,        \* the server's buddy records
  srv_groups,         \* its group records
  srv_members,        \* the 0xc8 list of each group, and of the master group 0
  srv_privacy,        \* its privacy item
  trans,              \* a transaction is open on this connection
  inbox,              \* what the server has sent and the reader has not read
  up,                 \* logged in
  ContactListUins,
  ContactListGroups,
  privacy,            \* myPrivSrvStatus_item_id and myPrivSrvStatus
  unknown_item_ids,   \* with the ids in the lists beside the buddies
  plan,               \* steps the edit in progress has still to take
  uins,               \* the contacts it removes
  uen,                \* the entry it adds
  gen,                \* the group it is about
  uen_ind, gr_ind,    \* the positions it has looked up
  wish,               \* the privacy item it sends
  waiting,            \* it waits for an ack
  got,                \* the ack in the cache
  retflag,            \* my_retflag
  calls, foreign, logins,
  faults              \* history: what has come between the edits, see below

server == <<srv_buddies, srv_groups, srv_members, srv_privacy>>
client == <<ContactListUins, ContactListGroups, unknown_item_ids, privacy>>
found  == <<uen_ind, gr_ind, wish>>
job    == <<uins, uen, gen>>
ack    == <<waiting, got, retflag>>
bounds == <<calls, foreign, logins>>
vars   == <<server, trans, inbox, up, client, plan, job, found, ack, bounds, faults>>

Steps == {"start", "add", "remove", "each", "content", "delgroup", "addgroup",
          "master", "end", "push", "erase", "privacy"}

Answers == {"none", "ok", "needauth", "refused"}

\* "timeout"    an ack did not come in time
\* "overtaken"  the reader applied a change of the other client to what an edit was
\*              about, before the edit had applied its own
\* "vanished"   the other client deleted a group
\* "masked"     the server refused to add or delete a group, and the answer to the
\*              master list that follows took the place of that refusal
\* "crossed"    a 0xc8 list was sent while notifications were under way
\* "cut"        the connection went down during an edit, or something of the above
\*              happened before the last login
\* "unread"     the other client set the privacy, which the reader passes over
\* "moved"      a contact of a group that is being removed was in another group when
\*              its turn came; the list of that group is not sent
Faults == {"timeout", "overtaken", "vanished", "masked", "crossed", "cut", "unread", "moved"}

-----------------------------------------------------------------------------
(* Looking things up; 0 is "not found", positions start at 1 *)

findCLUIN(u)        == SelectInSeq(ContactListUins, LAMBDA e : e.uin = u)
findCLGroup(n)      == SelectInSeq(ContactListGroups, LAMBDA g : g.name = n)
HasGroupId(gs, i)   == \E k \in DOMAIN gs : gs[k].id = i

\* The least number of S, 0 if it is empty.
Lowest(S) == IF S = {} THEN 0 ELSE CHOOSE i \in S : \A j \in S : i <= j

\* Mutant: only the ids of buddies are taken.
Taken_BuddiesOnly == {e.item : e \in ToSet(ContactListUins)}

Taken == {e.item : e \in ToSet(ContactListUins)} \cup unknown_item_ids \cup {privacy.item}

getUnusedItemID  == Lowest(ItemIds \ Taken)
getUnusedGroupID == Lowest(GroupIds \ {g.id : g \in ToSet(ContactListGroups)})

\* s without what is at the positions of gone.
Without(s, gone) ==
  LET upto[i \in 0 .. Len(s)] ==
        IF i = 0 THEN <<>> ELSE IF i \in gone THEN upto[i - 1] ELSE Append(upto[i - 1], s[i])
  IN  upto[Len(s)]

Members(es, g) == {e.item : e \in {x \in es : x.group = g}}

-----------------------------------------------------------------------------
Init ==
  /\ srv_buddies = Roster
  /\ srv_groups = Directory
  /\ srv_members = [g \in GroupIds \cup {0} |->
       IF g = 0 THEN {h.id : h \in srv_groups} ELSE Members(Roster, g)]
  /\ srv_privacy = [item |-> 0, stat |-> PRIV_ALL_CAN_SEE]
  /\ privacy = srv_privacy /\ wish = srv_privacy
  /\ trans = FALSE /\ inbox = <<>> /\ up = FALSE
  /\ ContactListUins = <<>> /\ ContactListGroups = <<>> /\ unknown_item_ids = {}
  /\ plan = <<>> /\ uins = <<>>
  /\ uen = CHOOSE b \in Buddies : TRUE
  /\ gen = CHOOSE g \in Groups : TRUE
  /\ uen_ind = 0 /\ gr_ind = 0
  /\ waiting = FALSE /\ got = "none" /\ retflag = "none"
  /\ calls = 0 /\ foreign = 0 /\ logins = 0
  /\ faults = {}

-----------------------------------------------------------------------------
(* The connection *)

\* getSSICopy at a login: the server's list in the server's order.  Icons are
\* passed over, unknown items keep their ids; the other sets of ids are kept, and
\* so is the privacy if the server has no item for it.
Login ==
  /\ ~up /\ plan = <<>> /\ logins < MaxLogins
  /\ up' = TRUE /\ logins' = logins + 1
  /\ ContactListUins' \in SetToSeqs(srv_buddies)
  /\ ContactListGroups' \in SetToSeqs(srv_groups)
  /\ unknown_item_ids' = unknown_item_ids \cup OtherItems
  /\ privacy' = IF srv_privacy.item = 0 THEN privacy ELSE srv_privacy
  /\ faults' = IF faults = {} THEN {} ELSE {"cut"}
  /\ UNCHANGED <<server, trans, inbox, plan, job, found, ack, calls, foreign>>

\* The connection is lost or closed, with what is under way in it.
Disconnect ==
  /\ up
  /\ up' = FALSE /\ inbox' = <<>> /\ trans' = FALSE
  /\ faults' = IF plan = <<>> THEN faults ELSE faults \cup {"cut"}
  /\ UNCHANGED <<server, client, plan, job, found, ack, bounds>>

-----------------------------------------------------------------------------
(* The calls of the menu *)

Call(steps) ==
  /\ plan = <<>> /\ up /\ calls < MaxCalls
  /\ calls' = calls + 1
  /\ plan' = steps
  /\ UNCHANGED <<server, trans, inbox, up, client, ack, foreign, logins, uen_ind, faults>>

addContact(u, n) ==
  /\ Call(<<"start", "add">>)
  /\ uen' = [uen EXCEPT !.uin = u]
  /\ gen' = [gen EXCEPT !.name = n]
  /\ UNCHANGED <<uins, gr_ind, wish>>

removeContact(u) ==
  /\ Call(<<"start", "remove">>)
  /\ uins' = <<u>>
  /\ UNCHANGED <<uen, gen, gr_ind, wish>>

\* An unused id, the name of the dialog.
addGroup(n) ==
  /\ getUnusedGroupID # 0
  /\ Call(<<"start", "addgroup", "master", "end", "push">>)
  /\ gen' = [id |-> getUnusedGroupID, name |-> n]
  /\ UNCHANGED <<uins, uen, gr_ind, wish>>

\* removeContacts for the contacts of the group, a transaction, and then the
\* group itself in another one.
removeGroup(n) ==
  /\ findCLGroup(n) # 0
  /\ gr_ind' = findCLGroup(n)
  /\ gen' = ContactListGroups[gr_ind']
  /\ LET in == Without(ContactListUins,
                       {i \in DOMAIN ContactListUins : ContactListUins[i].group # gen'.id})
     IN /\ uins' = [i \in DOMAIN in |-> in[i].uin]
        /\ Call(<<"start">> \o [i \in DOMAIN in |-> "each"]
                \o (IF in = <<>> THEN <<>> ELSE <<"content">>)
                \o <<"end", "start", "delgroup", "master", "end", "erase">>)
  /\ UNCHANGED <<uen, wish>>

setMyPrivacyStatus(stat) ==
  /\ Call(<<"privacy">>)
  /\ wish' = [wish EXCEPT !.stat = stat]
  /\ UNCHANGED <<job, gr_ind>>

-----------------------------------------------------------------------------
(* One step of an edit; each begins with nothing awaited *)

At(step) == plan # <<>> /\ Head(plan) = step

\* Mutant: addContact and removeContact leave their transaction open.
AfterFailure_LeavesOpen == IF At("each") THEN Tail(plan) ELSE <<>>

\* What an edit does when a step fails: addContact and removeContact close
\* their transaction, removeContacts goes on with the next contact, and the
\* other calls return at once.
AfterFailure ==
  IF At("add") \/ At("remove") THEN <<"end">>
  ELSE IF At("each") THEN Tail(plan)
  ELSE <<>>

Fail ==
  /\ plan' = AfterFailure
  /\ uins' = IF At("each") THEN Tail(uins) ELSE uins
  /\ waiting' = FALSE

FailToSend ==
  /\ Fail
  /\ UNCHANGED <<server, trans, inbox, up, client, uen, gen, found, got, retflag, bounds, faults>>

\* The request is sent and the server answers; what it does with it is up to
\* the caller of Ask.
Ask(answer) ==
  /\ waiting' = TRUE /\ got' = "none"
  /\ inbox' = Append(inbox, [type |-> "ack", answer |-> answer])
  /\ UNCHANGED <<trans, up, client, plan, retflag, bounds>>

\* startSSITransact and endSSITransact: no answer is awaited.
Transact ==
  /\ At("start") \/ At("end")
  /\ plan' = IF up THEN Tail(plan) ELSE <<>>
  /\ trans' = IF up THEN At("start") ELSE trans
  /\ UNCHANGED <<server, inbox, up, client, job, found, ack, bounds, faults>>

\* No item on the server has the id.
Free(item) ==
  item \in ItemIds \ ({b.item : b \in srv_buddies} \cup IconItems \cup OtherItems \cup {srv_privacy.item})

\* The server takes an entry if its contact and its item id are free.
Acceptable(e) ==
  /\ \A b \in srv_buddies : b.uin # e.uin
  /\ Free(e.item)
  /\ \E g \in srv_groups : g.id = e.group

AskAdd(e) ==
  \E answer \in {"ok", "needauth", "refused"} :
    /\ answer = "ok" => Acceptable(e)
    /\ answer = "needauth" => Acceptable(e) /\ ~e.wait
    /\ Ask(answer)
    /\ uen' = e
    /\ srv_buddies' = IF answer = "ok" THEN srv_buddies \cup {e} ELSE srv_buddies
    /\ UNCHANGED <<srv_groups, srv_members, srv_privacy, uins, gen, found, faults>>

\* Mutant: the result of getUnusedItemID is not tested.
sub_ssi_addContact_NoLimit ==
  LET g == findCLGroup(gen.name) IN
  /\ At("add") /\ ~waiting
  /\ IF up /\ g # 0
     THEN AskAdd([uin |-> uen.uin, group |-> ContactListGroups[g].id,
                  item |-> getUnusedItemID, wait |-> FALSE])
     ELSE FailToSend

sub_ssi_addContact ==
  LET g == findCLGroup(gen.name) IN
  /\ At("add") /\ ~waiting
  /\ IF up /\ g # 0 /\ getUnusedItemID # 0
     THEN AskAdd([uin |-> uen.uin, group |-> ContactListGroups[g].id,
                  item |-> getUnusedItemID, wait |-> FALSE])
     ELSE FailToSend

\* sub_ssi_removeContact, from removeContact, which keeps the group for the
\* update of its list, and from removeContacts.
sub_ssi_removeContact ==
  LET i == findCLUIN(Head(uins))
      e == ContactListUins[i]
      known == \E b \in srv_buddies : b.uin = e.uin /\ b.group = e.group /\ b.item = e.item
  IN
  /\ At("remove") \/ At("each")
  /\ ~waiting
  /\ IF up /\ i # 0
     THEN /\ uen_ind' = i
          /\ gen' = IF At("remove") THEN [gen EXCEPT !.id = e.group] ELSE gen
          /\ srv_buddies' = IF known THEN {b \in srv_buddies : b.item # e.item} ELSE srv_buddies
          /\ Ask(IF known THEN "ok" ELSE "refused")
          /\ faults' = IF At("each") /\ e.group # gen.id THEN faults \cup {"moved"} ELSE faults
          /\ UNCHANGED <<srv_groups, srv_members, srv_privacy, uins, uen, gr_ind, wish>>
     ELSE FailToSend

\* updateSSIGroupContent sends the members of a group as the local list has
\* them.
updateSSIGroupContent ==
  LET known == \E g \in srv_groups : g.id = gen.id IN
  /\ At("content") /\ ~waiting
  /\ IF up /\ HasGroupId(ContactListGroups, gen.id)
     THEN /\ srv_members' = IF known
               THEN [srv_members EXCEPT ![gen.id] = Members(ToSet(ContactListUins), gen.id)]
               ELSE srv_members
          /\ Ask(IF known THEN "ok" ELSE "refused")
          /\ faults' = IF \E i \in DOMAIN inbox : inbox[i].type # "ack"
                       THEN faults \cup {"crossed"} ELSE faults
          /\ UNCHANGED <<srv_buddies, srv_groups, srv_privacy, job, found>>
     ELSE FailToSend

\* updateSSIGroupContent(0): the master group lists the groups.
updateMasterGroup ==
  /\ At("master") /\ ~waiting
  /\ IF up
     THEN /\ srv_members' = [srv_members EXCEPT ![0] = {g.id : g \in ToSet(ContactListGroups)}]
          /\ Ask("ok")
          /\ UNCHANGED <<srv_buddies, srv_groups, srv_privacy, job, found, faults>>
     ELSE FailToSend

\* addDeleSSIGroup with SSI_ITEM_ADD ...
askAddGroup ==
  LET free == \A g \in srv_groups : g.id # gen.id /\ g.name # gen.name IN
  /\ At("addgroup") /\ ~waiting
  /\ IF up
     THEN \E answer \in {"ok", "refused"} :
            /\ answer = "ok" => free
            /\ Ask(answer)
            /\ srv_groups' = IF answer = "ok" THEN srv_groups \cup {gen} ELSE srv_groups
            /\ srv_members' = IF answer = "ok" THEN [srv_members EXCEPT ![gen.id] = {}]
                              ELSE srv_members
            /\ UNCHANGED <<srv_buddies, srv_privacy, job, found, faults>>
     ELSE FailToSend

\* ... and with SSI_ITEM_DELETE; the server keeps a group that has buddies.
askDeleteGroup ==
  LET empty == gen \in srv_groups /\ \A b \in srv_buddies : b.group # gen.id IN
  /\ At("delgroup") /\ ~waiting
  /\ IF up
     THEN /\ Ask(IF empty THEN "ok" ELSE "refused")
          /\ srv_groups' = IF empty THEN srv_groups \ {gen} ELSE srv_groups
          /\ UNCHANGED <<srv_buddies, srv_members, srv_privacy, job, found, faults>>
     ELSE FailToSend

\* An item is changed, or added under an unused id, whether or not there is one; the
\* server has not more than one.
askPrivacy ==
  LET item == IF privacy.item = 0 THEN getUnusedItemID ELSE privacy.item
      fits == IF privacy.item = 0 THEN srv_privacy.item = 0 /\ Free(item) ELSE srv_privacy.item = item
  IN
  /\ At("privacy") /\ ~waiting
  /\ IF up
     THEN /\ Ask(IF fits THEN "ok" ELSE "refused")
          /\ wish' = [wish EXCEPT !.item = item]
          /\ srv_privacy' = IF fits THEN wish' ELSE srv_privacy
          /\ UNCHANGED <<srv_buddies, srv_groups, srv_members, job, uen_ind, gr_ind, faults>>
     ELSE FailToSend

-----------------------------------------------------------------------------
(* getSSIEditAck and what follows it, up to the next request *)

Acked == waiting /\ got # "none"

\* A contact that needs to be asked is added once more as awaiting its
\* authorisation.  What was taken is appended to the list, and the list of the
\* group the contact is found in is sent next.
ackAdd ==
  /\ At("add") /\ Acked
  /\ IF got = "needauth" /\ ~uen.wait
     THEN IF up THEN AskAdd([uen EXCEPT !.wait = TRUE]) ELSE FailToSend
     ELSE /\ retflag' = got /\ waiting' = FALSE
          /\ ContactListUins' = IF got = "ok" THEN Append(ContactListUins, uen) ELSE ContactListUins
          /\ \E i \in {SelectInSeq(ContactListUins', LAMBDA e : e.uin = uen.uin)} :
               IF i = 0 THEN plan' = <<"end">> /\ UNCHANGED gen
               ELSE /\ plan' = <<"content", "end">>
                    /\ gen' = [gen EXCEPT !.id = ContactListUins'[i].group]
          /\ UNCHANGED <<server, trans, inbox, up, ContactListGroups, unknown_item_ids, privacy,
                         uins, uen, found, got, bounds, faults>>

\* Mutant: the entry after the position.
Erased_OffByOne(s, i) == IF i < Len(s) THEN RemoveAt(s, i + 1) ELSE Front(s)

\* vector::erase at a position past the end drops the last element.
Erased(s, i) == IF i <= Len(s) THEN RemoveAt(s, i) ELSE Front(s)

\* Mutant: the list of the group is not sent.
AfterRemove_NoContent == IF At("remove") THEN <<"end">> ELSE Tail(plan)

\* removeContact goes on whatever the answer was.
AfterRemove == IF At("remove") THEN <<"content", "end">> ELSE Tail(plan)

ackRemove ==
  /\ At("remove") \/ At("each")
  /\ Acked
  /\ got = "ok" => ContactListUins # <<>>
  /\ retflag' = got /\ waiting' = FALSE
  /\ ContactListUins' = IF got = "ok" THEN Erased(ContactListUins, uen_ind) ELSE ContactListUins
  /\ plan' = AfterRemove
  /\ uins' = Tail(uins)
  /\ UNCHANGED <<server, trans, inbox, up, ContactListGroups, unknown_item_ids, privacy, uen, gen,
                 found, got, bounds, faults>>

\* The answer is kept in retflag; only the last one of addGroup and
\* removeGroup is looked at.
ackGroup ==
  /\ At("content") \/ At("addgroup") \/ At("delgroup") \/ At("master")
  /\ Acked
  /\ retflag' = got /\ waiting' = FALSE
  /\ plan' = Tail(plan)
  /\ faults' = IF got # "ok" /\ ~At("content") THEN faults \cup {"masked"} ELSE faults
  /\ UNCHANGED <<server, trans, inbox, up, client, job, found, got, bounds>>

\* The end of addGroup and of removeGroup.
endGroup ==
  /\ At("push") \/ At("erase")
  /\ At("erase") /\ retflag = "ok" => ContactListGroups # <<>>
  /\ plan' = <<>>
  /\ ContactListGroups' =
       IF retflag # "ok" THEN ContactListGroups
       ELSE IF At("push") THEN Append(ContactListGroups, gen)
       ELSE Erased(ContactListGroups, gr_ind)
  /\ UNCHANGED <<server, trans, inbox, up, ContactListUins, unknown_item_ids, privacy, job, found,
                 ack, bounds, faults>>

\* Mutant: a refusal is passed over.
Confirmed_Always == wish

Confirmed == IF got = "ok" THEN wish ELSE privacy

ackPrivacy ==
  /\ At("privacy") /\ Acked
  /\ retflag' = got /\ waiting' = FALSE
  /\ plan' = <<>>
  /\ privacy' = Confirmed
  /\ UNCHANGED <<server, trans, inbox, up, ContactListUins, ContactListGroups, unknown_item_ids, job,
                 found, got, bounds, faults>>

\* A position past the end of an empty vector: the program goes down and
\* starts anew.
crash ==
  /\ \/ /\ At("remove") \/ At("each")
        /\ Acked /\ got = "ok" /\ ContactListUins = <<>>
     \/ At("erase") /\ retflag = "ok" /\ ContactListGroups = <<>>
  /\ plan' = <<>> /\ waiting' = FALSE
  /\ up' = FALSE /\ inbox' = <<>> /\ trans' = FALSE
  /\ unknown_item_ids' = {} /\ privacy' = [item |-> 0, stat |-> PRIV_ALL_CAN_SEE]
  /\ faults' = faults \cup {"cut"}
  /\ UNCHANGED <<server, ContactListUins, ContactListGroups, job, found, got, retflag, bounds>>

\* Mutant: only the end of the connection ends the wait.
giveUp_OfflineOnly ==
  /\ waiting /\ got = "none" /\ ~up
  /\ Fail
  /\ inbox' = Without(inbox, {i \in DOMAIN inbox : inbox[i].type = "ack"})
  /\ UNCHANGED <<server, trans, up, client, uen, gen, found, got, retflag, bounds, faults>>

\* No ack in 50 seconds, or the break flag: waitSNAC gives up.  An ack that
\* comes later stays in the cache, where nobody asks for it.
giveUp ==
  /\ waiting /\ got = "none"
  /\ Fail
  /\ inbox' = Without(inbox, {i \in DOMAIN inbox : inbox[i].type = "ack"})
  /\ faults' = IF up THEN faults \cup {"timeout"} ELSE faults
  /\ UNCHANGED <<server, trans, up, client, uen, gen, found, got, retflag, bounds>>

-----------------------------------------------------------------------------
(* The reader thread *)

readAck ==
  /\ inbox # <<>> /\ Head(inbox).type = "ack"
  /\ inbox' = Tail(inbox)
  /\ got' = IF waiting THEN Head(inbox).answer ELSE got
  /\ UNCHANGED <<server, trans, up, client, plan, job, found, waiting, retflag, bounds, faults>>

Notified(type) ==
  /\ inbox # <<>> /\ Head(inbox).type = type
  /\ inbox' = Tail(inbox)
  /\ UNCHANGED <<server, trans, up, unknown_item_ids, privacy, plan, job, found, ack, bounds>>

\* A change comes between an edit and what it will do when its ack is there:
\* it is about the entry that is being added, or it moves or replaces the one
\* at the position looked up.
OvertakesContact(item, places) ==
  /\ waiting
  /\ \/ At("add") /\ item = uen.item
     \/ (At("remove") \/ At("each")) /\ \E i \in places : i <= uen_ind

OvertakesGroup(id, places) ==
  \/ "push" \in ToSet(plan) /\ id = gen.id
  \/ "erase" \in ToSet(plan) /\ \E i \in places : i <= gr_ind

Overtaken(is) == faults' = IF is THEN faults \cup {"overtaken"} ELSE faults

\* Mutant: nothing is overwritten.
Put_Appends(s, i, e) == Append(s, e)

Put(s, i, e) == IF i = 0 THEN Append(s, e) ELSE ReplaceAt(s, i, e)

\* parseSSIAddNotify and parseSSIUpdateNotify: an entry with the item id is
\* overwritten, another one appended; what is neither a contact nor a group is
\* passed over.
parseSSIAddNotify ==
  \/ /\ Notified("buddy")
     /\ LET b == Head(inbox).buddy
            i == SelectInSeq(ContactListUins, LAMBDA e : e.item = b.item)
        IN /\ ContactListUins' = Put(ContactListUins, i, b)
           /\ Overtaken(OvertakesContact(b.item, IF i = uen_ind THEN {i} ELSE {}))
     /\ UNCHANGED ContactListGroups
  \/ /\ Notified("group")
     /\ LET g == Head(inbox).group
            i == SelectInSeq(ContactListGroups, LAMBDA h : h.id = g.id)
        IN /\ ContactListGroups' = Put(ContactListGroups, i, g)
           /\ Overtaken(OvertakesGroup(g.id, IF i = gr_ind THEN {i} ELSE {}))
     /\ UNCHANGED ContactListUins
  \/ /\ Notified("privacy")
     /\ faults' = faults \cup {"unread"}
     /\ UNCHANGED <<ContactListUins, ContactListGroups>>

\* parseSSIDeleteNotify; a group takes its contacts along.
parseSSIDeleteNotify ==
  \/ /\ Notified("nobuddy")
     /\ LET b == Head(inbox).buddy
            gone == {i \in DOMAIN ContactListUins : ContactListUins[i].item = b.item}
        IN /\ ContactListUins' = Without(ContactListUins, gone)
           /\ Overtaken(OvertakesContact(b.item, gone))
     /\ UNCHANGED ContactListGroups
  \/ /\ Notified("nogroup")
     /\ LET g == Head(inbox).group
            gone == {i \in DOMAIN ContactListUins : ContactListUins[i].group = g.id}
            places == {i \in DOMAIN ContactListGroups : ContactListGroups[i].id = g.id}
        IN /\ ContactListUins' = Without(ContactListUins, gone)
           /\ ContactListGroups' = Without(ContactListGroups, places)
           /\ faults' = faults \cup {"vanished"} \cup
                IF OvertakesContact(0, gone) \/ OvertakesGroup(g.id, places)
                THEN {"overtaken"} ELSE {}

-----------------------------------------------------------------------------
(* The other client of the account *)

Notify(m) == inbox' = IF up THEN Append(inbox, m) ELSE inbox

Foreign ==
  /\ foreign < MaxForeign
  /\ foreign' = foreign + 1
  /\ UNCHANGED <<trans, up, client, plan, job, found, ack, calls, logins, faults>>

otherAdds(b) ==
  /\ Acceptable(b) /\ Foreign
  /\ srv_buddies' = srv_buddies \cup {b}
  /\ srv_members' = [srv_members EXCEPT ![b.group] = @ \cup {b.item}]
  /\ Notify([type |-> "buddy", buddy |-> b])
  /\ UNCHANGED <<srv_groups, srv_privacy>>

\* The contact has granted its authorisation.
otherGrants(b) ==
  /\ b.wait /\ Foreign
  /\ srv_buddies' = (srv_buddies \ {b}) \cup {[b EXCEPT !.wait = FALSE]}
  /\ Notify([type |-> "buddy", buddy |-> [b EXCEPT !.wait = FALSE]])
  /\ UNCHANGED <<srv_groups, srv_members, srv_privacy>>

otherDeletes(b) ==
  /\ Foreign
  /\ srv_buddies' = srv_buddies \ {b}
  /\ srv_members' = [srv_members EXCEPT ![b.group] = @ \ {b.item}]
  /\ Notify([type |-> "nobuddy", buddy |-> b])
  /\ UNCHANGED <<srv_groups, srv_privacy>>

otherAddsGroup(g) ==
  /\ \A h \in srv_groups : h.id # g.id /\ h.name # g.name
  /\ Foreign
  /\ srv_groups' = srv_groups \cup {g}
  /\ srv_members' = [srv_members EXCEPT ![g.id] = {}, ![0] = @ \cup {g.id}]
  /\ Notify([type |-> "group", group |-> g])
  /\ UNCHANGED <<srv_buddies, srv_privacy>>

otherDeletesGroup(g) ==
  /\ \A b \in srv_buddies : b.group # g.id
  /\ Foreign
  /\ srv_groups' = srv_groups \ {g}
  /\ srv_members' = [srv_members EXCEPT ![0] = @ \ {g.id}]
  /\ Notify([type |-> "nogroup", group |-> g])
  /\ UNCHANGED <<srv_buddies, srv_privacy>>

otherSetsPrivacy(p) ==
  /\ IF srv_privacy.item = 0 THEN Free(p.item) ELSE p.item = srv_privacy.item
  /\ Foreign
  /\ srv_privacy' = p
  /\ Notify([type |-> "privacy"])
  /\ UNCHANGED <<srv_buddies, srv_groups, srv_members>>

-----------------------------------------------------------------------------
Menu ==
  \/ \E u \in Uins : removeContact(u) \/ \E n \in Names : addContact(u, n)
  \/ \E n \in Names : addGroup(n) \/ removeGroup(n)
  \/ \E stat \in Privacies : setMyPrivacyStatus(stat)

Edit ==
  \/ Transact
  \/ sub_ssi_addContact \/ sub_ssi_removeContact
  \/ updateSSIGroupContent \/ updateMasterGroup
  \/ askAddGroup \/ askDeleteGroup \/ askPrivacy
  \/ ackAdd \/ ackRemove \/ ackGroup \/ ackPrivacy \/ endGroup \/ crash
  \/ giveUp

Reader == readAck \/ parseSSIAddNotify \/ parseSSIDeleteNotify

Others ==
  \/ \E b \in Buddies : otherAdds(b)
  \/ \E b \in srv_buddies : otherGrants(b) \/ otherDeletes(b)
  \/ \E g \in Groups : otherAddsGroup(g)
  \/ \E g \in srv_groups : otherDeletesGroup(g)
  \/ \E p \in Privacy : otherSetsPrivacy(p)

Next == Login \/ Disconnect \/ Menu \/ Edit \/ Reader \/ Others

Spec == Init /\ [][Next]_vars

\* The GUI thread goes on with the edit it is in: its steps never wait for
\* anything but an ack, and that wait has a limit.
FairSpec == Spec /\ WF_vars(Edit)

-----------------------------------------------------------------------------
(* Properties *)

Messages ==
  [type : {"ack"}, answer : Answers \ {"none"}]
    \cup [type : {"buddy", "nobuddy"}, buddy : Buddies]
    \cup [type : {"group", "nogroup"}, group : Groups]
    \cup [type : {"privacy"}]

\* The values the variables may have.
TypeOK ==
  /\ srv_buddies \subseteq Buddies /\ srv_groups \subseteq Groups
  /\ srv_members \in [GroupIds \cup {0} -> SUBSET Nat]
  /\ trans \in BOOLEAN /\ inbox \in Seq(Messages) /\ up \in BOOLEAN
  /\ ContactListUins \in Seq(Buddies) /\ ContactListGroups \in Seq(Groups)
  /\ unknown_item_ids \subseteq ItemIds
  /\ {srv_privacy, privacy, wish} \subseteq Privacy
  /\ plan \in Seq(Steps) /\ uins \in Seq(Uins)
  /\ uen \in Buddies /\ gen \in Groups
  /\ uen_ind \in Nat /\ gr_ind \in Nat
  /\ waiting \in BOOLEAN /\ got \in Answers /\ retflag \in Answers
  /\ calls \in 0..MaxCalls /\ foreign \in 0..MaxForeign /\ logins \in 0..MaxLogins
  /\ faults \subseteq Faults

\* Since the login no ack was lost, no edit overtaken, no refusal masked.
Undisturbed == faults \cap {"timeout", "overtaken", "masked"} = {}

\* No edit and no notification is under way.
Quiet == up /\ plan = <<>> /\ inbox = <<>>

SameEntries ==
  /\ ToSet(ContactListUins) = srv_buddies
  /\ ToSet(ContactListGroups) = srv_groups
  /\ \A i, j \in DOMAIN ContactListUins :
       ContactListUins[i].item = ContactListUins[j].item => i = j

FreshItemId == getUnusedItemID \notin {b.item : b \in srv_buddies} \cup OtherItems

PrivacyTrue == "unread" \notin faults => privacy = srv_privacy

\* When nothing is under way the local list is the server's, entry by entry
\* and without duplicates, whatever the order in which edits, their acks and
\* the notifications of the other client came, and the id the next entry will be
\* given is none of an item on the server but an icon, and who can see the user is
\* what the client shows, if the other client has not set it; only a lost ack, an
\* overtaken position or a masked refusal may break this, until the next login.
Mirror == Quiet /\ Undisturbed => SameEntries /\ FreshItemId /\ PrivacyTrue

\* An entry leaves the local list only if it has left the server's, or the
\* server has it again and its notification is under way: the position
\* sub_ssi_removeContact keeps across its wait is still that of the contact it
\* deleted, unless a deletion by the other client overtook it.
DropsOnlyDeleted ==
  [][up /\ Undisturbed =>
       \A e \in ToSet(ContactListUins) :
         \/ \E f \in ToSet(ContactListUins') : f.item = e.item
         \/ \A b \in srv_buddies : b.item # e.item
         \/ \E i \in DOMAIN inbox : inbox[i].type = "buddy" /\ inbox[i].buddy.item = e.item]_vars

\* Between edits the 0xc8 list of every group names its buddies, unless an
\* edit was cut short, the list was sent while changes of the other client
\* were still to be read, or the contact of a group that went was in another one.
GroupsListMembers ==
  up /\ plan = <<>> /\ faults \cap {"timeout", "overtaken", "crossed", "cut", "masked", "moved"} = {} =>
    \A g \in srv_groups : srv_members[g.id] = Members(srv_buddies, g.id)

\* No edit returns with its transaction open, except after an ack that did not
\* come or when the local list has lost a group.
TransactionsEnd ==
  up /\ plan = <<>> /\ trans => faults \cap {"timeout", "vanished", "masked", "overtaken"} # {}

\* Every edit ends, whatever the server, the connection and the other client
\* do: each wait in it has a limit, and no failure leads back.
EditEnds == plan # <<>> ~> plan = <<>>
=============================================================================
