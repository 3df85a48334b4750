----------------------------- MODULE ContactView -----------------------------
(***************************************************************************)
(* The contact list on the screen: the rows of ZMyListBox and the items    *)
(* they show, beside the two lists of contacts zICQ has: those of the      *)
(* account and those who are not on it.                                    *)
(*                                                                         *)
(* Three threads work on it: the GUI thread, the reader with what comes    *)
(* from the server, and the connect thread, which prints the list at the   *)
(* end of a login and hands over the messages kept for the user.  Each     *)
(* takes in steps what it does; between two of them another thread may     *)
(* take one.  The locks of ZMyListBox cover one change of the rows each    *)
(* (mutexOnRepaint) or nothing but the way into an operation (mutexAction):*)
(* adding, removing, folding, unfolding and sorting go from look to change *)
(* to look, and what was looked up may have changed.  An item is known by  *)
(* its contact and its number among the items made for that contact since  *)
(* the list was last cleared.                                              *)
(***************************************************************************)
EXTENDS Integers, Sequences, FiniteSets, SequencesExt

CONSTANTS
  Buddies,    \* contacts of the account at the start, in the order of the list
  GroupOf,    \* the group of each contact that is, or may come to be, in the list
  GroupIds,   \* the groups, in the order of the list
  Strangers,  \* contacts that are not in the list at the start
  Online,     \* who the reader has been told is online before the list is printed
  Kept,       \* who has left an offline message
  Heard,      \* bound: whom the reader hears of
  MaxEvents,  \* bound: what the reader receives
  MaxClicks,  \* bound: what the user does
  MaxActs     \* bound: these and the offline messages together

Uins == ToSet(Buddies) \cup Strangers
ICQ_NOT_IN_LIST_GROUP == 401
AllGroups == ToSet(GroupIds) \cup {ICQ_NOT_IN_LIST_GROUP}

\* Contacts are numbered in the order of their names.
ASSUME ContactViewAssumption ==
  /\ Uins \subseteq Nat \ {0} /\ ToSet(Buddies) \cap Strangers = {} /\ IsInjective(Buddies)
  /\ ToSet(GroupIds) \subseteq 1 .. 400 /\ IsInjective(GroupIds)
  /\ \A u \in Uins : GroupOf[u] \in ToSet(GroupIds)
  /\ Online \subseteq ToSet(Buddies) /\ Kept \subseteq Uins /\ Heard \subseteq Uins
  /\ MaxEvents \in Nat /\ MaxClicks \in Nat /\ MaxActs \in Nat

VARIABLES
  cl,               \* ContactListUins
  noCL,             \* NoContactListUins
  unread,           \* who has sent a message that has not been shown in a chat
  view,             \* the list on the screen, see TypeOK
  isShown,
  slotActiv,        \* the slots of presence, typing and list changes are connected
  cfg_dontShowOffLine,
  chats,            \* openChat messages the GUI has not handled
  showedChat,
  dlgChat,          \* whose chat is open, 0 for none
  doing,            \* what each thread is doing, see Idle
  disturbed,        \* history: who sorts and has had the list changed by another thread
  store,            \* offline messages that have not been handed over
  events, clicks,
  down,             \* "no", or why the program went down
  faults            \* history: see below

client == <<cl, noCL>>
screen == <<isShown, slotActiv, cfg_dontShowOffLine>>
chat   == <<chats, showedChat, dlgChat>>
bounds == <<events, clicks, store>>
vars   == <<client, unread, view, screen, chat, doing, disturbed, bounds, down, faults>>

Threads == {"gui", "reader", "connect"}

Statuses == {"online", "offline"}

\* "gap"      a status came while the list was being printed anew for a window that
\*            is raised, and its slots were not connected yet
\* "dropped"  a status came for a contact who was typing or had a message
\* "removed"  a contact went out of the list while another thread had its item
\* "stale"    an item was used whose id was no longer the one of its contact
\* "crossed"  a message came between the reading of the messages for a chat and the chat
\* "twice"    the list was cleared or printed in the middle of a print or an addition, or
\*            printed with an earlier print still there, or a contact was added that
\*            another thread had added meanwhile; what comes then is not followed
\* "shifted"  a contact went out of the list of the account while a thread printed that
\*            list, or was about to add a contact by its position in it
\* "misplaced" a row was inserted, taken or moved, or a group closed, after a look at the
\*            rows that was no longer true
\* "met"      a thread took up a contact whose row another thread was about to insert,
\*            show, take out or hide
\* "skipped"  a sort was left out because another thread held mutexAction
\* "freed"    an item was used after the list had been cleared, and nothing came of it
Faults == {"gap", "dropped", "removed", "stale", "crossed", "twice", "shifted", "misplaced",
           "met", "skipped", "freed"}

\* "null"     an item the window has not got was used
\* "nogroup"  a contact was added to a group that is not in the list
\* "freed"    an item was used after the list had been cleared
\* "closed"   a message was added to a chat that had just been closed
Reasons == {"no", "null", "nogroup", "freed", "closed"}

-----------------------------------------------------------------------------
(* Contacts by their ids: positions in cl from 0 on, in noCL from 1000 on *)

Position(s, u) == SelectInSeq(s, LAMBDA e : e.uin = u)

Entry(u, g) == [uin |-> u, group |-> g, status |-> "offline", mesIcon |-> FALSE]

\* What the getters return for an id that is no contact's.
Nobody == [uin |-> 0, group |-> 0, status |-> "online", mesIcon |-> FALSE]

Contact(id) ==
  IF id < 1000
  THEN IF id < Len(cl) THEN cl[id + 1] ELSE Nobody
  ELSE IF id - 1000 < Len(noCL) THEN noCL[id - 999] ELSE Nobody

\* findContact; findNoCLUIN has added 1000 already.
findContact(u) ==
  IF Position(cl, u) # 0 THEN Position(cl, u) - 1
  ELSE IF Position(noCL, u) # 0 THEN 2000 + Position(noCL, u) - 1
  ELSE -1

\* setMesIcon on the lists ls: [cl, noCL]
setMesIcon(ls, id, b) ==
  IF id < 1000
  THEN IF id < Len(ls.cl) THEN [ls EXCEPT !.cl[id + 1].mesIcon = b] ELSE ls
  ELSE IF id - 1000 < Len(ls.noCL) THEN [ls EXCEPT !.noCL[id - 999].mesIcon = b] ELSE ls

Lists == [cl |-> cl, noCL |-> noCL]
SetLists(ls) == cl' = ls.cl /\ noCL' = ls.noCL

\* addContactToNoCLList
Noted(u) == Append(noCL, Entry(u, ICQ_NOT_IN_LIST_GROUP))

-----------------------------------------------------------------------------
(* ZContactItem *)

\* Mutant: what is not in the rows is not brought up to date.
setStatus_IfShown(it, s) ==
  IF it.status = s \/ it.typeIn \/ it.newMes \/ it.hide THEN it
  ELSE [it EXCEPT !.status = s, !.icon = "status"]

\* An item with a mark keeps the status it has, on the screen and in itself.
setStatus(it, s) ==
  IF it.status = s \/ it.typeIn \/ it.newMes THEN it
  ELSE [it EXCEPT !.status = s, !.icon = "status"]

Redrawn(it) == IF it.typeIn \/ it.newMes THEN it ELSE [it EXCEPT !.icon = "status"]

setType(it, b) ==
  IF it.typeIn = b THEN it
  ELSE IF b THEN [it EXCEPT !.typeIn = TRUE, !.icon = "typing"]
  ELSE Redrawn([it EXCEPT !.typeIn = FALSE])

setNewMes(it, b) ==
  IF it.newMes = b THEN it
  ELSE IF b THEN setType([it EXCEPT !.newMes = TRUE, !.icon = "message"], FALSE)
  ELSE Redrawn([it EXCEPT !.newMes = FALSE])

\* Mutant: contacts are counted from one.
Item_FromOne(id, e) ==
  setNewMes([group |-> e.group, data |-> id - 1, status |-> e.status, newMes |-> FALSE,
             typeIn |-> FALSE, icon |-> "status", hide |-> TRUE], e.mesIcon)

\* icqAddUser
Item(id, e) ==
  setNewMes([group |-> e.group, data |-> id, status |-> e.status, newMes |-> FALSE,
             typeIn |-> FALSE, icon |-> "status", hide |-> TRUE], e.mesIcon)

-----------------------------------------------------------------------------
(* ZMyListBox *)

Null(u)  == [uin |-> u, n |-> 0]
Freed(r) == [r EXCEPT !.n = IF @ = 0 THEN 0 ELSE -1]

\* The steps a thread has still to take, the contact it is busy with, what is
\* reported of it, the item the thread has got for it, and the operations on the list
\* that the first of the steps has begun and not ended.
Idle == [steps |-> <<>>, about |-> 0, news |-> "none", item |-> Null(0), ops |-> <<>>]

EmptyView ==
  [rows        |-> <<>>,
   items       |-> [u \in Uins |-> <<>>],
   heads       |-> [g \in AllGroups |-> <<>>],
   listContact |-> [u \in Uins |-> 0],
   listGroup   |-> [g \in AllGroups |-> 0]]

HeadRow(g, n)    == <<"group", g, n>>
ContactRow(u, n) == <<"contact", u, n>>
IsHead(row)      == row[1] = "group"

Header(v, g)   == v.heads[g][v.listGroup[g]]
RowItem(v, row) == v.items[row[2]][row[3]]
RowGroup(v, row) == IF IsHead(row) THEN row[2] ELSE RowItem(v, row).group

HasGroup(v, g)  == g \in AllGroups /\ v.listGroup[g] # 0
HeadAt(v, g)    == SelectInSeq(v.rows, LAMBDA r : r = HeadRow(g, v.listGroup[g]))

groupAdd(v, g) ==
  LET n == Len(v.heads[g]) + 1 IN
  [v EXCEPT !.heads[g] = Append(@, [hide |-> FALSE, newMes |-> FALSE]), !.listGroup[g] = n,
            !.rows = Append(@, HeadRow(g, n))]

intStat(it) == IF it.newMes THEN 0 ELSE IF it.status = "online" THEN 2 ELSE 13

RowStat(v, row) ==
  IF ~IsHead(row) THEN intStat(RowItem(v, row))
  ELSE IF v.heads[row[2]][row[3]].newMes THEN 0 ELSE 13

cmpContact(v, row1, row2) ==
  LET By(a, b) == IF a > b THEN 1 ELSE IF a < b THEN -1 ELSE 0
  IN IF RowStat(v, row1) # RowStat(v, row2) THEN By(RowStat(v, row1), RowStat(v, row2))
     ELSE By(row1[2], row2[2])

\* Mutant: the walk goes one way only.
Pairs_OneWalk(s, e) == [k \in 1 .. e - s |-> s + k - 1]

\* The pairs of neighbours a sort of the rows s to e compares, by the first of each: a
\* walk forth and one back, then the same without the outermost rows.
Pairs(s, e) ==
  FlattenSeq([w \in 1 .. (e - s + 1) \div 2 |->
    LET forth == [k \in 1 .. e - s - 2 * (w - 1) |-> s + w + k - 2] IN forth \o Reverse(forth)])

\* The last row before the header that follows the one of g, 0 if none does.
LastRow(v, g) ==
  LET heads == {i \in HeadAt(v, g) + 1 .. Len(v.rows) : IsHead(v.rows[i])}
  IN IF heads = {} THEN 0 ELSE (CHOOSE i \in heads : \A j \in heads : i <= j) - 1

\* setHide takes the mark off a group.
RowHidden(v, row, b) ==
  IF IsHead(row) THEN [v EXCEPT !.heads[row[2]][row[3]] = [hide |-> b, newMes |-> FALSE]]
  ELSE [v EXCEPT !.items[row[2]][row[3]].hide = b]

HeaderHidden(v, g, b) == RowHidden(v, HeadRow(g, v.listGroup[g]), b)

-----------------------------------------------------------------------------
\* The connect thread is about to print the list; the window is there, or the user
\* has put it away while the login went on.
Init ==
  /\ isShown \in BOOLEAN /\ slotActiv = isShown
  /\ cl = [i \in DOMAIN Buddies |->
             [Entry(Buddies[i], GroupOf[Buddies[i]]) EXCEPT
                !.status = IF Buddies[i] \in Online THEN "online" ELSE @]]
  /\ noCL = <<>> /\ unread = {}
  /\ view = EmptyView
  /\ cfg_dontShowOffLine \in BOOLEAN
  /\ chats = <<>> /\ showedChat = FALSE /\ dlgChat = 0
  /\ doing = [t \in Threads |-> IF t = "connect" THEN [Idle EXCEPT !.steps = <<"print">>] ELSE Idle]
  /\ disturbed = {}
  /\ store = Kept
  /\ events = 0 /\ clicks = 0
  /\ down = "no" /\ faults = {}

-----------------------------------------------------------------------------
(* Steps of a thread *)

\* What thread t does next, where it has steps left.
At(t, step) == Head(doing[t].steps) = step

\* A thread that has no step left has forgotten what it did.
With(d, steps) == IF steps = <<>> THEN Idle ELSE [d EXCEPT !.steps = steps]

Do(t, steps) == doing' = [doing EXCEPT ![t] = With(@, steps)]
Advance(t)   == Do(t, Tail(doing[t].steps))

\* A step ends with the last of its operations on the list.
Run(t, ops) ==
  doing' = [doing EXCEPT ![t] =
    IF ops = <<>> THEN With([@ EXCEPT !.ops = <<>>], Tail(@.steps)) ELSE [@ EXCEPT !.ops = ops]]

\* Threads in the middle of an operation on the list, and which it is.
Listing == {t \in Threads : doing[t].ops # <<>>}
Op(t)   == Head(doing[t].ops)

\* The operation makes way for the steps ops of it.
Go(t, ops) == Run(t, ops \o Tail(doing[t].ops))

Blame(fs) == faults' = faults \cup fs
Named(f, when) == IF when THEN {f} ELSE {}

\* What no operation on the list changes.
ListOnly == UNCHANGED <<client, unread, screen, chat, bounds, down>>

Crash(reason) ==
  /\ down' = reason
  /\ UNCHANGED <<client, unread, view, screen, chat, doing, bounds, faults>>

\* The thread has no item, or one that is gone; what a use of that does to the freed
\* memory may go unnoticed.
UseNull(t)  == doing[t].item.n = 0 /\ Crash("null")
UseFreed(t) ==
  /\ doing[t].item.n = -1
  /\ \/ Crash("freed")
     \/ /\ Advance(t) /\ faults' = faults \cup {"freed"}
        /\ UNCHANGED <<client, unread, view, screen, chat, bounds, down>>

HeldItem(t) == view.items[doing[t].item.uin][doing[t].item.n]

Stale(t) == Contact(HeldItem(t).data).uin # doing[t].item.uin
Staled(t) == faults' = IF Stale(t) THEN faults \cup {"stale"} ELSE faults

\* The rows threads have in hand: they will do something to them next.
InHand(ts) ==
  {Op(t).row : t \in {x \in ts \cap Listing : Op(x).op \in {"insert", "appear", "take", "hide"}}}

Met(t, row) == Named("met", row \in InHand(Threads \ {t}))

\* Operations that hold an item of the list, and those that count in the lists of zICQ.
Holding  == {"appear", "take", "hide", "fold", "shut", "unfold"}
Counting == \E x \in Threads : \E o \in ToSet(doing[x].ops) : o.op \in {"print", "add"}

\* Another thread prints, or is about to put a new item, which is in no list yet, into the rows.
Overlap(t) == \E x \in Threads \ {t} : \E o \in ToSet(doing[x].ops) : o.op \in {"print", "insert"}

\* What is left of the operations when the items are deleted.
Cleared(ops) ==
  IF \E o \in ToSet(ops) : o.op \in Holding
  THEN <<[op |-> "freed"]>> \o SelectSeq(ops, LAMBDA o : o.op \notin Holding) ELSE ops

\* clearList: the items are deleted.
clear(t) ==
  /\ At(t, "clear")
  /\ doing' = [x \in Threads |->
       [doing[x] EXCEPT !.steps = IF x = t THEN Tail(@) ELSE @, !.item = Freed(@), !.ops = Cleared(@)]]
  /\ view' = EmptyView
  /\ chats' = [i \in DOMAIN chats |-> Freed(chats[i])]
  /\ Blame(Named("twice", Overlap(t)))
  /\ UNCHANGED <<client, unread, screen, showedChat, dlgChat, bounds, down>>

useFreed(t, o) ==
  /\ o.op = "freed"
  /\ Crash("freed") \/ (Go(t, <<>>) /\ Blame({"freed"}) /\ UNCHANGED view /\ ListOnly)

-----------------------------------------------------------------------------
(* Operations of ZMyListBox: between two of their steps another thread may change the rows *)

\* contactAdd: the item is listed, and its place looked up unless its group is folded.
ShowBelow(v, row, g) ==
  <<[op |-> "insert", row |-> row, g |-> g, at |-> HeadAt(v, g) + 1, folded |-> Header(v, g).hide],
    [op |-> "appear", row |-> row]>>

\* Mutant: the group is not asked whether it is folded.
Placing_IgnoresFold(v, row, g) == ShowBelow(v, row, g)

Placing(v, row, g) == IF Header(v, g).hide THEN <<>> ELSE ShowBelow(v, row, g)

\* Contact u becomes a row by what the position id tells of it; then comes what is left.
contactAdd(t, u, id, left) ==
  LET e == Contact(id)
      n == Len(view.items[u]) + 1
  IN
  IF ~HasGroup(view, e.group) THEN Crash("nogroup")
  ELSE /\ view' = [view EXCEPT !.items[u] = Append(@, Item(id, e)), !.listContact[u] = n]
       /\ Go(t, Placing(view, ContactRow(u, n), e.group) \o left)
       /\ Blame(Named("twice", view.listContact[u] # 0))
       /\ ListOnly

icqAddUser(t, o) == o.op = "add" /\ contactAdd(t, o.uin, o.id, <<>>)

\* A place beyond the end is the end.
insertItem(t, o) ==
  LET at == IF o.at > Len(view.rows) THEN Len(view.rows) + 1 ELSE o.at
  IN
  /\ o.op = "insert" /\ Go(t, <<>>)
  /\ view' = [view EXCEPT !.rows = InsertAt(@, at, o.row)]
  /\ Blame(Named("misplaced", o.at # HeadAt(view, o.g) + 1 \/ o.folded # Header(view, o.g).hide))
  /\ ListOnly

takeItem(t, o) ==
  /\ o.op = "take" /\ Go(t, <<>>)
  /\ view' = [view EXCEPT !.rows = SelectSeq(@, LAMBDA r : r # o.row)]
  /\ UNCHANGED faults /\ ListOnly

setHide(t, o) ==
  /\ o.op \in {"appear", "hide"}
  /\ Go(t, <<>>)
  /\ view' = RowHidden(view, o.row, o.op = "hide")
  /\ UNCHANGED faults /\ ListOnly

\* The item is taken out and not deleted.
contactRemove(t) ==
  LET u   == doing[t].about
      row == ContactRow(u, view.listContact[u])
  IN
  /\ view' = [view EXCEPT !.listContact[u] = 0]
  /\ Run(t, IF view.listContact[u] = 0 \/ RowItem(view, row).hide THEN <<>>
            ELSE <<[op |-> "take", row |-> row]>>)
  /\ Blame(Named("removed", \E x \in Threads \ {t} : doing[x].item = doing[t].item) \cup Met(t, row))

\* Another thread has mutexAction, which is held only while its lock is tried.
Locked(t) ==
  \E x \in Listing \ {t} : Op(x).op = "showHide" \/ (Op(x).op = "sort" /\ Op(x).lock)

showHideGroup(t, o) ==
  LET g == o.g IN
  /\ o.op = "showHide"
  /\ \/ /\ Locked(t) \/ ~HasGroup(view, g)
        /\ Go(t, <<>>) /\ UNCHANGED view
     \/ /\ HasGroup(view, g) /\ ~Header(view, g).hide
        /\ Go(t, <<[op |-> "fold", g |-> g, at |-> HeadAt(view, g) + 1]>>) /\ UNCHANGED view
     \/ /\ HasGroup(view, g) /\ Header(view, g).hide
        /\ Go(t, <<[op |-> "unfold", g |-> g, after |-> 0]>>)
        /\ view' = HeaderHidden(view, g, FALSE)
  /\ UNCHANGED faults /\ ListOnly

\* Whether row i is one of group g.
OfGroup(v, i, g) == i <= Len(v.rows) /\ RowGroup(v, v.rows[i]) = g

\* And whether it is a contact of it.
ContactOf(v, i, g) == OfGroup(v, i, g) /\ ~IsHead(v.rows[i])

\* The row below the header goes, until it is of another group.
fold(t, o) ==
  LET row == view.rows[o.at] IN
  /\ o.op = "fold"
  /\ IF OfGroup(view, o.at, o.g)
     THEN /\ Go(t, <<[op |-> "take", row |-> row], [op |-> "hide", row |-> row], o>>)
          /\ Blame(Named("misplaced", o.at # HeadAt(view, o.g) + 1) \cup Met(t, row))
     ELSE /\ Go(t, <<[op |-> "shut", g |-> o.g]>>)
          /\ Blame(Named("misplaced", o.at # HeadAt(view, o.g) + 1))
  /\ UNCHANGED view /\ ListOnly

shut(t, o) ==
  LET g == o.g IN
  /\ o.op = "shut" /\ Go(t, <<>>)
  /\ view' = HeaderHidden(view, g, TRUE)
  /\ Blame(Named("misplaced", OfGroup(view, HeadAt(view, g) + 1, g)))
  /\ ListOnly

\* The hidden contacts of the group, in the order of the map listContact.
unfold(t, o) ==
  LET hidden == {u \in Uins : /\ u > o.after /\ view.listContact[u] # 0
                              /\ LET it == view.items[u][view.listContact[u]]
                                 IN it.group = o.g /\ it.hide}
      u   == CHOOSE x \in hidden : \A y \in hidden : x <= y
      row == ContactRow(u, view.listContact[u])
  IN
  /\ o.op = "unfold"
  /\ IF hidden = {}
     THEN Go(t, <<[op |-> "sort", g |-> o.g, lock |-> FALSE]>>) /\ UNCHANGED faults
     ELSE Go(t, ShowBelow(view, row, o.g) \o <<[o EXCEPT !.after = u]>>) /\ Blame(Met(t, row))
  /\ UNCHANGED view /\ ListOnly

\* Groups of one or two rows and the last group stay as they are.
sortContact(t, o) ==
  LET g == o.g
      s == HeadAt(view, g) + 1
      e == LastRow(view, g)
  IN
  /\ o.op = "sort"
  /\ \/ o.lock /\ Locked(t) /\ Go(t, <<>>) /\ Blame({"skipped"})
     \/ /\ Go(t, IF ~HasGroup(view, g) \/ Header(view, g).hide \/ e - s < 2 THEN <<>>
                 ELSE <<[op |-> "compare", g |-> g, pairs |-> Pairs(s, e)]>>)
        /\ UNCHANGED faults
  /\ UNCHANGED view /\ ListOnly

compare(t, o) ==
  LET i == Head(o.pairs)
      rest == IF Len(o.pairs) = 1 THEN <<>> ELSE <<[o EXCEPT !.pairs = Tail(@)]>>
  IN
  /\ o.op = "compare"
  /\ Go(t, IF i < Len(view.rows) /\ cmpContact(view, view.rows[i], view.rows[i + 1]) = 1
           THEN <<[op |-> "move", g |-> o.g, at |-> i]>> \o rest ELSE rest)
  /\ UNCHANGED <<view, faults>> /\ ListOnly

moveItem(t, o) ==
  LET i == o.at IN
  /\ o.op = "move" /\ Go(t, <<>>)
  /\ view' = IF i < Len(view.rows)
             THEN [view EXCEPT !.rows[i] = view.rows[i + 1], !.rows[i + 1] = view.rows[i]] ELSE view
  /\ Blame(Named("misplaced", \E j \in {i, i + 1} : ~ContactOf(view, j, o.g)))
  /\ ListOnly

SortGroup(g) == <<[op |-> "sort", g |-> g, lock |-> TRUE]>>

\* ZMyListBox::setNewMes: for a hidden contact its group is marked.
MarkNewMes(t) ==
  LET r  == doing[t].item
      w  == [view EXCEPT !.items[r.uin][r.n] = setNewMes(@, TRUE)]
      it == w.items[r.uin][r.n]
  IN
  /\ view' = IF it.hide /\ HasGroup(w, it.group)
             THEN [w EXCEPT !.heads[it.group][w.listGroup[it.group]].newMes = TRUE] ELSE w
  /\ Run(t, IF it.hide THEN <<>> ELSE SortGroup(it.group))

changeStatus(t) ==
  LET r == doing[t].item IN
  /\ view' = [view EXCEPT !.items[r.uin][r.n] = setStatus(@, doing[t].news)]
  /\ Run(t, SortGroup(HeldItem(t).group))
  /\ Blame(Named("dropped", HeldItem(t).newMes \/ HeldItem(t).typeIn))

-----------------------------------------------------------------------------
(* printContact *)

SortAll == FlattenSeq([i \in 1 .. Len(GroupIds) + 1 |->
             SortGroup(Append(GroupIds, ICQ_NOT_IN_LIST_GROUP)[i])])

\* The groups; then, one by one, the contacts of the account, a group for those who are
\* not in the list, these, and the sorting of all groups.
printContact(t) ==
  /\ At(t, "print")
  /\ Run(t, <<[op |-> "print", list |-> "cl", at |-> 0], [op |-> "split"],
              [op |-> "print", list |-> "noCL", at |-> 0]>> \o SortAll)
  /\ view' = FoldLeft(groupAdd, view, GroupIds)
  /\ Blame(Named("twice", Overlap(t) \/ \E g \in AllGroups : view.listGroup[g] # 0))
  /\ ListOnly

Shows(id) == ~cfg_dontShowOffLine \/ Contact(id).status # "offline" \/ Contact(id).mesIcon

printNext(t, o) ==
  LET id == IF o.list = "cl" THEN o.at ELSE 1000 + o.at
      next == <<[o EXCEPT !.at = @ + 1]>>
  IN
  /\ o.op = "print"
  /\ IF o.at < Len(Lists[o.list]) /\ (o.list = "cl" => Shows(id))
     THEN contactAdd(t, Contact(id).uin, id, next)
     ELSE /\ Go(t, IF o.at < Len(Lists[o.list]) THEN next ELSE <<>>)
          /\ UNCHANGED <<view, faults>> /\ ListOnly

printSplit(t, o) ==
  /\ o.op = "split" /\ Go(t, <<>>)
  /\ view' = groupAdd(view, ICQ_NOT_IN_LIST_GROUP)
  /\ UNCHANGED faults /\ ListOnly

Got(t, n) ==
  doing' = [doing EXCEPT ![t].steps = Tail(@), ![t].item = [uin |-> doing[t].about, n |-> n]]

\* getICQContact: a contact that was not there is added, and not returned.
getICQContact(t) ==
  LET u  == doing[t].about
      new == findContact(u) = -1
      id == IF new THEN 1000 + Len(noCL) ELSE findContact(u)
  IN
  IF ~isShown \/ view.listContact[u] # 0
  THEN /\ Got(t, IF isShown THEN view.listContact[u] ELSE 0)
       /\ UNCHANGED <<client, unread, view, screen, chat, bounds, down, faults>>
  ELSE /\ doing' = [doing EXCEPT ![t].item = Null(u),
                                 ![t].ops = <<[op |-> "add", uin |-> u, id |-> id]>>]
       /\ noCL' = IF new THEN Noted(u) ELSE noCL
       /\ UNCHANGED <<cl, unread, view, screen, chat, bounds, down, faults>>

\* What is missed while slots are not connected: the list is printed and not shown yet.
Gap == "show" \in ToSet(doing["gui"].steps) /\ (At("gui", "show") \/ doing["gui"].ops # <<>>)

\* A slot of those activSlot connects: it and its use of the contact.
slot(t) ==
  /\ At(t, "slot")
  /\ IF slotActiv THEN getICQContact(t)
     ELSE /\ Do(t, Tail(Tail(doing[t].steps)))
          /\ faults' = IF Gap THEN faults \cup {"gap"} ELSE faults
          /\ UNCHANGED <<client, unread, view, screen, chat, bounds, down>>

-----------------------------------------------------------------------------
(* What the reader receives *)

MayAct == events + clicks + Cardinality(Kept \ store) < MaxActs

Receive(steps, u, x) ==
  /\ events' = events + 1
  /\ doing' = [doing EXCEPT !["reader"] =
       [steps |-> steps, about |-> u, news |-> x, item |-> Null(0), ops |-> <<>>]]
  /\ UNCHANGED <<view, screen, chat, clicks, store, down>>

\* The online and the offline notification; the first may tell of another client.
presence(u, s) ==
  /\ \/ s = "online" /\ Position(cl, u) # 0
        /\ Receive(<<"slot", "client", "set", "slot", "status">>, u, s)
     \/ Receive(<<"set", "slot", "status">>, u, s)
  /\ UNCHANGED <<client, unread, faults>>

slot_onClientChange(t) ==
  /\ At(t, "client")
  /\ \/ UseFreed(t)
     \/ /\ doing[t].item.n # -1 /\ Advance(t)
        /\ UNCHANGED <<client, unread, view, screen, chat, bounds, down, faults>>

\* pollIncomingEvents; nothing is told of a status that is known.
setOnlineStatus(t) ==
  LET i == Position(cl, doing[t].about) IN
  /\ At(t, "set")
  /\ IF i # 0 /\ cl[i].status = doing[t].news
     THEN Do(t, <<>>) /\ UNCHANGED cl
     ELSE /\ cl' = IF i = 0 THEN cl ELSE [cl EXCEPT ![i].status = doing[t].news]
          /\ Advance(t)
  /\ UNCHANGED <<noCL, unread, view, screen, chat, bounds, down, faults>>

\* A contact that goes offline leaves a list of those who are not.
Removes(t)  == doing[t].news = "offline" /\ cfg_dontShowOffLine
TakenOut(t) == Removes(t) /\ ~HeldItem(t).newMes

slot_onUserNotify(t) ==
  /\ At(t, "status")
  /\ \/ UseFreed(t)
     \/ Removes(t) /\ UseNull(t)
     \/ /\ doing[t].item.n > 0 \/ (doing[t].item.n = 0 /\ ~Removes(t))
        /\ IF doing[t].item.n = 0 THEN Advance(t) /\ UNCHANGED <<view, faults>>
           ELSE IF TakenOut(t) THEN contactRemove(t)
           ELSE changeStatus(t)
        /\ UNCHANGED <<client, unread, screen, chat, bounds, down>>

typing(u, b) == Receive(<<"slot", "type">>, u, b) /\ UNCHANGED <<client, unread, faults>>

slot_onIncomingMTN(t) ==
  /\ At(t, "type")
  /\ \/ UseFreed(t)
     \/ /\ doing[t].item.n # -1 /\ Advance(t)
        /\ view' = IF doing[t].item.n = 0 THEN view
                   ELSE [view EXCEPT !.items[doing[t].item.uin][doing[t].item.n] = setType(@, doing[t].news = "begin")]
        /\ UNCHANGED <<client, unread, screen, chat, bounds, down, faults>>

\* Another client takes a contact out of the list, or puts one in.
otherChanges(u) ==
  /\ Receive(<<"relist">>, u, "none")
  /\ IF Position(cl, u) # 0
     THEN cl' = RemoveAt(cl, Position(cl, u)) /\ unread' = unread \ {u} /\ Blame(Named("shifted", Counting))
     ELSE cl' = Append(cl, Entry(u, GroupOf[u])) /\ UNCHANGED <<unread, faults>>
  /\ UNCHANGED noCL

slot_onContactListChanged(t) ==
  /\ At(t, "relist")
  /\ Do(t, IF slotActiv THEN <<"clear", "print">> ELSE <<>>)
  /\ faults' = IF ~slotActiv /\ Gap THEN faults \cup {"gap"} ELSE faults
  /\ UNCHANGED <<client, unread, view, screen, chat, bounds, down>>

\* slot_onIncomingMsg, up to newMes.
MessageLists(u) ==
  IF findContact(u) # -1 THEN setMesIcon(Lists, findContact(u), TRUE)
  ELSE setMesIcon([Lists EXCEPT !.noCL = Noted(u)], 1000 + Len(noCL), TRUE)

message(u) ==
  /\ Receive(<<"append">>, u, "none")
  /\ SetLists(MessageLists(u)) /\ UNCHANGED <<unread, faults>>

\* The connect thread emits the offline messages one after the other.
offlineMessage(u) ==
  /\ doing["connect"] = Idle /\ u \in store /\ MayAct
  /\ store' = store \ {u}
  /\ doing' = [doing EXCEPT !["connect"] = [Idle EXCEPT !.steps = <<"append">>, !.about = u]]
  /\ SetLists(MessageLists(u))
  /\ UNCHANGED <<unread, view, screen, chat, events, clicks, down, faults>>

OpeningFor(u) ==
  Len(doing["gui"].steps) \in {1, 2} /\ Last(doing["gui"].steps) = "open" /\ doing["gui"].item.uin = u

\* newMes: a chat with the contact takes the message.
newMes(t) ==
  LET u == doing[t].about IN
  /\ At(t, "append")
  /\ IF dlgChat = u
     THEN Do(t, <<"addmes">>) /\ UNCHANGED <<unread, faults>>
     ELSE /\ Do(t, <<"get", "mark">>)
          /\ unread' = unread \cup {u}
          /\ faults' = IF OpeningFor(u) THEN faults \cup {"crossed"} ELSE faults
  /\ UNCHANGED <<client, view, screen, chat, bounds, down>>

addMes(t) ==
  /\ At(t, "addmes")
  /\ \/ dlgChat = 0 /\ Crash("closed")
     \/ /\ dlgChat # 0 /\ Advance(t)
        /\ UNCHANGED <<client, unread, view, screen, chat, bounds, down, faults>>

get(t) == At(t, "get") /\ getICQContact(t)

mark(t) ==
  /\ At(t, "mark")
  /\ \/ UseNull(t)
     \/ UseFreed(t)
     \/ /\ doing[t].item.n > 0
        /\ SetLists(setMesIcon(Lists, HeldItem(t).data, TRUE))
        /\ IF isShown THEN MarkNewMes(t) ELSE Advance(t) /\ UNCHANGED view
        /\ Staled(t)
        /\ UNCHANGED <<unread, screen, chat, bounds, down>>

-----------------------------------------------------------------------------
(* What the user does *)

Click(steps) ==
  /\ clicks' = clicks + 1
  /\ Do("gui", steps)
  /\ UNCHANGED <<slotActiv, showedChat, dlgChat, events, store, view, down>>

slot_ReturnToIdle ==
  /\ Click(<<"clear", "unplug">>)
  /\ isShown' = FALSE
  /\ UNCHANGED <<client, unread, cfg_dontShowOffLine, chats, faults>>

unplug(t) ==
  /\ At(t, "unplug") /\ Advance(t)
  /\ slotActiv' = FALSE
  /\ UNCHANGED <<client, unread, view, isShown, cfg_dontShowOffLine, chat, bounds, down, faults>>

slot_Raise ==
  /\ ~isShown
  /\ Click(<<"clear", "print", "show">>)
  /\ UNCHANGED <<client, unread, isShown, cfg_dontShowOffLine, chats, faults>>

show(t) ==
  /\ At(t, "show") /\ Advance(t)
  /\ isShown' = TRUE /\ slotActiv' = TRUE
  /\ UNCHANGED <<client, unread, view, cfg_dontShowOffLine, chat, bounds, down, faults>>

\* The main window has the keys.
InList == isShown /\ ~showedChat

\* The green key.
toggleOffLine ==
  /\ InList
  /\ Click(<<"clear", "print">>)
  /\ cfg_dontShowOffLine' = ~cfg_dontShowOffLine
  /\ UNCHANGED <<client, unread, isShown, chats, faults>>

\* lbContactSel
selectGroup(g) ==
  /\ InList
  /\ \E n \in DOMAIN view.heads[g] : HeadRow(g, n) \in ToSet(view.rows)
  /\ clicks' = clicks + 1
  /\ doing' = [doing EXCEPT !["gui"] = [Idle EXCEPT !.steps = <<"fold">>,
                                                   !.ops = <<[op |-> "showHide", g |-> g]>>]]
  /\ UNCHANGED <<client, unread, view, screen, chat, events, store, down, faults>>

selectContact(u, n) ==
  /\ InList
  /\ ContactRow(u, n) \in ToSet(view.rows)
  /\ Click(<<>>)
  /\ chats' = Append(chats, [uin |-> u, n |-> n])
  /\ UNCHANGED <<client, unread, isShown, cfg_dontShowOffLine, faults>>

\* The list is not printed again.
menu_removeContact(u, n) ==
  /\ InList
  /\ ContactRow(u, n) \in ToSet(view.rows) /\ view.items[u][n].data < 1000
  /\ Position(cl, u) # 0
  /\ Click(<<>>)
  /\ cl' = RemoveAt(cl, Position(cl, u)) /\ unread' = unread \ {u}
  /\ Blame(Named("shifted", Counting))
  /\ UNCHANGED <<noCL, isShown, cfg_dontShowOffLine, chats>>

\* openChat: one chat at a time.
openChat ==
  /\ chats # <<>>
  /\ chats' = Tail(chats)
  /\ IF showedChat
     THEN UNCHANGED <<showedChat, doing>>
     ELSE /\ showedChat' = TRUE
          /\ doing' = [doing EXCEPT !["gui"] =
               [Idle EXCEPT !.steps = <<"read", "unmark", "open">>, !.item = Head(chats)]]
  /\ UNCHANGED <<client, unread, view, screen, dlgChat, bounds, down, faults>>

readMessages(t) ==
  /\ At(t, "read")
  /\ \/ UseFreed(t)
     \/ /\ doing[t].item.n > 0 /\ Advance(t)
        /\ unread' = unread \ {doing[t].item.uin}
        /\ UNCHANGED <<client, view, screen, chat, bounds, down, faults>>

unmark(t) ==
  /\ At(t, "unmark")
  /\ \/ UseFreed(t)
     \/ /\ doing[t].item.n > 0 /\ Advance(t)
        /\ SetLists(setMesIcon(Lists, HeldItem(t).data, FALSE))
        /\ view' = [view EXCEPT !.items[doing[t].item.uin][doing[t].item.n] =
                      setType(setNewMes(@, FALSE), FALSE)]
        /\ Staled(t)
        /\ UNCHANGED <<unread, screen, chat, bounds, down>>

open(t) ==
  /\ At(t, "open")
  /\ \/ UseFreed(t)
     \/ /\ doing[t].item.n > 0 /\ Advance(t)
        /\ dlgChat' = doing[t].item.uin
        /\ UNCHANGED <<client, unread, view, screen, chats, showedChat, bounds, down, faults>>

closeChat ==
  /\ showedChat
  /\ dlgChat' = 0 /\ showedChat' = FALSE
  /\ UNCHANGED <<client, unread, view, screen, chats, doing, bounds, down, faults>>

-----------------------------------------------------------------------------
\* A step of the operation o on the list, and one of what the thread is doing.
ListStep(t) ==
  LET o == Op(t) IN
  /\ doing[t].ops # <<>>
  /\ \/ printNext(t, o) \/ printSplit(t, o)
     \/ icqAddUser(t, o) \/ insertItem(t, o) \/ takeItem(t, o) \/ setHide(t, o)
     \/ showHideGroup(t, o) \/ fold(t, o) \/ shut(t, o) \/ unfold(t, o)
     \/ sortContact(t, o) \/ compare(t, o) \/ moveItem(t, o) \/ useFreed(t, o)

Step(t) ==
  /\ doing[t].steps # <<>> /\ doing[t].ops = <<>>
  /\ \/ clear(t) \/ printContact(t)
     \/ slot(t) \/ slot_onClientChange(t) \/ setOnlineStatus(t) \/ slot_onUserNotify(t)
     \/ slot_onIncomingMTN(t) \/ slot_onContactListChanged(t)
     \/ newMes(t) \/ addMes(t) \/ get(t) \/ mark(t)
     \/ unplug(t) \/ show(t) \/ readMessages(t) \/ unmark(t) \/ open(t)

Reader ==
  /\ doing["reader"] = Idle /\ events < MaxEvents /\ MayAct
  /\ \E u \in Heard :
       \/ \E s \in Statuses : presence(u, s)
       \/ \E b \in {"begin", "finish"} : typing(u, b)
       \/ otherChanges(u)
       \/ message(u)

User ==
  /\ doing["gui"] = Idle
  /\ \/ /\ clicks < MaxClicks /\ MayAct
        /\ \/ slot_ReturnToIdle \/ slot_Raise \/ toggleOffLine
           \/ \E g \in AllGroups : selectGroup(g)
           \/ \E u \in Uins : \E n \in DOMAIN view.items[u] :
                selectContact(u, n) \/ menu_removeContact(u, n)
     \/ openChat \/ closeChat

\* Who sorts, and another thread changes the list.
Disturbed ==
  {t \in Listing :
     /\ Op(t).op \in {"compare", "move"}
     /\ doing'[t].ops # <<>>
     /\ t \in disturbed \/ (doing'[t] = doing[t] /\ view' # view)}

Next ==
  /\ down = "no" /\ "twice" \notin faults
  /\ \/ \E t \in Threads : ListStep(t) \/ Step(t)
     \/ Reader \/ User
     \/ \E u \in store : offlineMessage(u)
  /\ disturbed' = Disturbed

Spec == Init /\ [][Next]_vars

-----------------------------------------------------------------------------
(* Properties *)

Items ==
  [group : AllGroups, data : Nat, status : Statuses, newMes : BOOLEAN, typeIn : BOOLEAN,
   icon : {"status", "typing", "message"}, hide : BOOLEAN]

Entries ==
  [uin : Uins, group : AllGroups, status : Statuses, mesIcon : BOOLEAN]

\* The values the variables may have.
TypeOK ==
  /\ cl \in Seq(Entries) /\ noCL \in Seq(Entries)
  /\ unread \subseteq Uins
  /\ \A u \in Uins : view.items[u] \in Seq(Items) /\ view.listContact[u] \in 0 .. Len(view.items[u])
  /\ \A g \in AllGroups :
       /\ view.heads[g] \in Seq([hide : BOOLEAN, newMes : BOOLEAN])
       /\ view.listGroup[g] \in 0 .. Len(view.heads[g])
  /\ isShown \in BOOLEAN /\ slotActiv \in BOOLEAN /\ cfg_dontShowOffLine \in BOOLEAN
  /\ showedChat \in BOOLEAN /\ dlgChat \in Uins \cup {0}
  /\ \A t \in Threads : doing[t].item.n \in -1 .. IF doing[t].item.uin = 0 THEN 0 ELSE Len(view.items[doing[t].item.uin])
  /\ events \in 0 .. MaxEvents /\ clicks \in 0 .. MaxClicks
  /\ store \subseteq Kept /\ disturbed \subseteq Threads /\ down \in Reasons /\ faults \subseteq Faults

HeaderAbove(v, i) ==
  LET above == {j \in 1 .. i - 1 : IsHead(v.rows[j])}
  IN v.rows[CHOOSE j \in above : \A k \in above : k <= j]

\* Whatever is added, removed, folded, unfolded and sorted, by three threads at
\* once, each of which goes from look to change without a lock that covers both: no
\* contact and no group has two rows, a row of a contact stands below a header of its
\* group that is not folded, and a contact is either hidden or in the rows; a row that a
\* thread is about to take out, and one it has just put in, do not count as a second one,
\* nor does such a contact as in its place.
Layout ==
  faults \cap {"twice", "misplaced", "met"} = {} =>
  LET held == InHand(Threads)
      still == {i \in DOMAIN view.rows : view.rows[i] \notin held}
  IN
  /\ \A i \in still : \A j \in still \ {i} :
       view.rows[i][1] # view.rows[j][1] \/ view.rows[i][2] # view.rows[j][2]
  /\ \A i \in DOMAIN view.rows : ~IsHead(view.rows[i]) =>
       /\ \E j \in 1 .. i - 1 : IsHead(view.rows[j])
       /\ LET head == HeaderAbove(view, i)
          IN head[2] = RowGroup(view, view.rows[i]) /\ ~view.heads[head[2]][head[3]].hide
  /\ \A u \in Uins :
       LET row == ContactRow(u, view.listContact[u]) IN
       view.listContact[u] # 0 /\ row \notin held =>
         (RowItem(view, row).hide <=> row \notin ToSet(view.rows))

Quiet == down = "no" /\ \A t \in Threads : doing[t] = Idle

StatusShown ==
  Quiet /\ isShown /\ faults \cap {"gap", "dropped", "twice", "shifted"} = {} =>
    \A i \in DOMAIN cl :
      LET e == cl[i]
          n == view.listContact[e.uin]
      IN Position(noCL, e.uin) = 0 =>
           IF n = 0 THEN e.status = "offline" /\ cfg_dontShowOffLine
           ELSE LET it == view.items[e.uin][n] IN
                /\ it.status = e.status
                /\ it.hide => Header(view, it.group).hide

UnreadMarked ==
  Quiet /\ faults \cap {"stale", "crossed", "freed", "removed", "twice"} = {} =>
    \A u \in unread :
      /\ \E e \in ToSet(cl) \cup ToSet(noCL) : e.uin = u /\ e.mesIcon
      /\ isShown => view.listContact[u] # 0 /\ view.items[u][view.listContact[u]].newMes

\* Between events every contact of the account that is not offline is in a list
\* that is shown, hidden by a folded group at most, and it is shown with its
\* status, unless it has a mark in its place; and a message that no chat has shown
\* has marked its contact, in the lists of zICQ, from which the next print takes the
\* mark, and, if the list is shown, in its item.
ContactsTrue == StatusShown /\ UnreadMarked

\* The rows of a group that sortContact sorts.
Sorted(v, g) ==
  \A i \in HeadAt(v, g) + 1 .. LastRow(v, g) - 1 : cmpContact(v, v.rows[i], v.rows[i + 1]) <= 0

\* A status or a message for a contact in the rows has put the contacts of its group,
\* three or more and not the last group, into the order of their statuses and names when
\* its step ends, unless another thread has changed the list since the sort looked up its
\* rows, or kept it from sorting at all.
ChangeSorts ==
  [][\A t \in Threads :
       /\ doing[t].steps # <<>> /\ (At(t, "status") \/ At(t, "mark"))
       /\ doing[t].item.n > 0 /\ Len(doing'[t].steps) < Len(doing[t].steps)
       /\ isShown /\ view'.listContact[doing[t].item.uin] # 0 /\ ~HeldItem(t).hide
       /\ t \notin disturbed /\ "skipped" \notin faults'
       => LET g == HeldItem(t).group IN
          LastRow(view', g) - HeadAt(view', g) > 2 /\ ~Header(view', g).hide => Sorted(view', g)]_vars

\* While the window is away the list is not touched: what comes from the server
\* then does not bring the program down.
AwayIsSafe == ~isShown => down # "null"
=============================================================================
