# zMessanger: specifications, model checking and proofs

zMessanger (zIM) is an instant messenger for MOTOMAGX phones: an ICQ client
written on top of an own OSCAR library (`src/icqlib`), an XMPP client on top of
the gloox library, and a Qt user interface. The repository has no documents and
no tests; the code and its comments are the only reference. This directory
holds TLA+ models of the parts where things happen at the same time or fail half
way, the TLC runs that check them on small instances, and proofs of the main
results for every instance.

## 1. Inventory

### Threads

| thread | started at | what it does |
|---|---|---|
| GUI | `main.cpp` | menus, chats, contact list edits, handles signals |
| connect | `zICQ::startConnect` (`zICQ.cpp:171`) | login, offline messages, then ends in `mainLoop` |
| reader | `doConnect` (`icqkid2.cpp:176`) | loop over `readSNAC`, puts replies in the cache, turns events into signals |
| keep-alive | `mainLoop` (`icqkid2.cpp:1753`) | `pollKeepAlive`, until the break flag is set |
| status click | `slot_onClickMenu` (`zgui.cpp:722`) | one thread per click, `setStatus` / `setXStatus` |
| user info | `ZUserInfo` (`ZUserInfo.cpp:58`) | one thread per dialog, asks the server and fills the dialog |

They share one `ICQKid2` object. Only `snac_cache` and the table of client
names have a mutex: the sequence numbers, the break flag and the contact list
vectors are plain members.

### Components

**SNAC exchange** (`icqkid2.cpp` `sendSNAC`, `waitSNAC`, `readSNAC`;
`snaccache.cpp`). State: `snac_seq_number`, `network_break_flag`, `snac_cache`,
`stepConnect`. Every operation on the server is a request numbered by
`sendSNAC`; the reader appends every reply to the cache; the caller looks there
for its reply by family and `req_id`, with a 50 second limit. Hard: several
threads over one cache; callers that collect with `req_id` 0; old entries;
reconnects that reset nothing. Correct if a caller is given its own reply, each
reply once, none is missed, and every wait ends.

**Login and session** (`doConnect`, `doConnect_phase2`, `zICQ::Connect`,
`Disconnect`, `breakNetworkOperation`). State: `sock`, `stepConnect`, the reader
thread, `connected`, `network_break_flag`, and what each step has learnt:
families and their versions, rate groups, the contact list. Hard: the user's
cancel races every step; the flag that says "cancelled by the user" is taken
down by whichever `sendSNAC` sees it first; failures leave the reader running;
replies of an earlier attempt are in the cache. Correct if at most one reader
reads a socket, what is told to the server fits what this server said, the list
is replaced whole or not at all, and the user is told the reason of this attempt.

**Contact list on the server (SSI)** (`addContact` ... `setMyPrivacyStatus`,
`getSSICopy`, `parseSSI*Notify`, `getUnusedItemID`). State: `ContactListUins`,
`ContactListGroups`, the privacy item, `unknown_item_ids` and the server's copy.
An edit is a transaction of several requests; other clients of the account edit
the same list and the reader applies their changes while an edit waits. Hard:
indices kept across a wait, one request of several refused, timeouts inside the
transaction, id allocation from incomplete knowledge. Correct if the local list
mirrors the server's whenever nothing is under way, and the group lists name
their members.

**ICQ messages and presence** (`pollIncomingEvents`, `getOfflineMessages`,
`parse*`, `sendMessage`, `zChatForm`, `ZGui::saveHistory`). State: the fields of
a contact, the message list of each, its history file, the store of the server,
the open chat with its typing timer. Three threads append to one list; a program
that ends loses what is in memory; the encoding is chosen from what is known of
the other client. Correct if a message is shown, once and in order, and deleted
from the server only then; a text is read as it was written; and a contact is
shown as it is.

**User information** (`getFullInfo`, `getShortInfo`, `ZUserInfo`, `addContactToList`,
`publicMyInfo`, `getSearchAnswer`). State: the two maps of what has been learnt, the
open dialog and its thread. Hard: a dialog may be closed while its thread asks, waits or
shows. Correct if what is kept is whole and of one time, a dialog shows its own contact,
and a search finds those who fit.

**Wire format and socket I/O** (`flap.cpp`, `tnetwork.cpp`). Frames over TCP
with partial sends and receives and a timeout on each; SNACs, TLVs, messages and
list items inside them. Correct if the peer sees whole frames in order, and what
is read is what was written.

**ICQ front end** (`zICQ.cpp`). Two lists of contacts; those that are not in the
account's list have ids from 1000 on. **Main window and list widgets**
(`zgui.cpp`, `ZMyListBox.cpp`, `ZContactItem.cpp`). State: the rows and items,
the marks for typing and new messages, `isShown`, `slotActiv`, the open chat.
The GUI, the reader and the connect thread all change it, without a lock. Hard:
prints of the list that overlap, items used after they were deleted, a window
that is put away while events come in. Correct if every row stands below its
group, once, and shows the state of its contact.

**Encodings** (`ZGui::strtoqstr`, `unicodeToUtf8`, tables, Base64, MD5): the
encoding of an 8-bit text is guessed from its bytes.

**XMPP** (`zXMPP.cpp`, `zXMPPConferenc.cpp`, `src/xmpp`): `_XMPP` is commented
out in `config.h`, so that none of it is compiled; of the library only headers
are here. **Other dialogs, other widgets, NAPI, start-up**: presentation, files
of settings and a thin wrapper over the platform.

Interaction: the GUI calls `zICQ`/`ICQKid2` methods synchronously; the reader
thread calls back through Qt signals; both meet in the shared object above.

The hazards this code is exposed to, each at its line and with the properties
that cover it, are the list `hazards` of `PROJECT.json`.

## 2. Plan

Done: `SnacExchange` with the abstract `RequestReply`; `ContactList`; `Session`;
`FlapWire`; `ContactView`; `Messages`; `Texts` with `Encodings` and `Payloads`;
`Login`; `UserInfo` with `Profiles` and `Searches`. Proofs: `SnacExchangeProofs`,
`SessionProofs`, `FlapWireProofs`, `MessagesProofs`, `UserInfoProofs` for the
dialogs, `ContactListProofs` and `MirrorProofs`.

Next, most important first:

1. `Messages`: that an open chat's timer and note (`Told`) go together with what
   the contact shows.
2. An abstract session (offline, connecting, online) that `Session` implements
   when no fault has happened, and that `Login` implements for one attempt.
3. `ContactView`: that sorting permutes the rows of a group, for which the folds
   of the model would have to be written as recursive functions.

The properties were checked first so that only formulas that hold are tried.

## 3. Modules

An instance of a step is atomic when the code takes it without giving another
thread a chance to interfere that matters: a wait, a send, a receive and an
unlocked read-modify-write end a step.

Some models keep a history variable `faults`. It records that one of the named
orders of events, each commented where `Faults` is defined, has happened. The
code lets these happen and its promises do not survive them; a property then says
that nothing *else* breaks the promise. Each fault is also described in
section 6, so that none is hidden by the property that excuses it.

**`RequestReply`** says what the exchange promises: a request is posted, sent,
waited for, and is then done, having been given parts of a reply, or failed;
what has been given is not given again.

**`SnacExchange`** is `sendSNAC`, `waitSNAC`, `readSNAC` and `snac_cache`. `LoadSeq` and
`SendSNAC` are the two halves of `snac_seq_number++`, and `raced` says that a thread has
stored a number over one that another stored after it had loaded; `Found`, `FoundFrom`,
`First` and `Take` are the lookups of `SNACCache`, `Cleared` is `clearOlderThan`, `Aged`
and `Tick` the clock the entries are stamped with. A thread starts a wait, looks in the
whole cache, and then in the loop only at entries not older than `startWait`. The reader
appends; the server answers in any order. `Disconnect` and `Connect` keep the cache and
the numbers, as the code does. A kind is what a caller filters on (family and subtype):
wild kinds are collected with `req_id` 0, multi kinds have replies in several parts.

**`Session`** is one script of steps per attempt to go online (`doConnect`,
`doConnect_phase2`, `zICQ::Connect`), with the reader, the keep-alive thread,
the break flag and the messages by which the GUI hears of it. The user may
cancel, disconnect and connect again between any two steps; the server may be
silent, close, or end the session. An end by the server ends the reader and nothing
else: `slot_onSingOff` (`zgui.cpp:1111`) is connected to no signal, so `connected` and
the menu stay as they are (`singOff`). A cancel is recorded from the click on, the part
of an attempt before `Connect` takes the flag down (`zICQ.cpp:83`) included
(`cancellICQ`). It is about threads, and has no data.

**`Login`** is the data: every call of `doConnect` in its order, what it sends
to the authorizer and then to the server, byte by byte, and what it makes of the
answer. `waitSNAC` takes the first entry of the cache that fits; the cache is
kept from one attempt to the next, or has been emptied by its clock. `icq` is
the fields of `ICQKid2` that the answers set; what a failed step has set stays.
`Failed` tells the user what `zICQ::Connect` makes of the error: `Reason` has names for
three codes of the server and "UNKNOWN" for all others.
Threads of two attempts at the same time are left to `Session`.

**`ContactList`** is the edits of `icqkid2.cpp`. `plan` holds the requests an edit has
still to make, one step per request; `AfterFailure`, `AfterRemove` and the like are the
early returns after a refusal. The server answers from its own copy, which it keeps in
order: it refuses an item whose id is that of any other, icons included, and a contact
or a name it has already. Another client changes that copy, and both reach the reader in
order through `inbox`. Positions (`uen_ind`, `gr_ind`) are looked up before a wait and
used after it, as in the code. `removeContacts` looks each contact up again when its
turn comes, and may find it in another group (`moved`).

**`FlapWire`** is `send_to`, `recv_from`, `t_send` and `t_recv` with the loops that
call them: a frame is a sequence of units, written in parts of any size, and a try that
times out is made again from the first unit. `sendSNAC` tries without end, as
`network_timeout` stays -1 (`icqkid2.cpp:113`), until the connection or the break flag
ends it; a keep-alive, a sign-on and a sign-off give up after `MaxTries`, which stands
for 14, 500 and 300. A frame has a number in the model by which it is recognised; that
is not its `seq_number`, which is counted without a lock and which neither end reads.
The receiver reads a header and then as many units as the header says, and on a time-out
drops what it has. `received` is kept until the first fault.

**`Payloads`** holds the `encode_to` and `decode_from` functions of `flap.cpp`
as operators on sequences of bytes: SNACs, TLVs, sign-ons, list items and the
three kinds of messages with the scripts in them. A decoder returns a set, empty
when the code refuses the bytes. **`Encodings`** is the conversions of texts.

**`Messages`** is one contact and the user: `wire`, `stored` and `requests` are the
server, `reading` is the reader in the middle of an online notice, `fetch` the connect
thread in `getOfflineMessages`, `gui` the GUI thread in the middle of sending, saving or
leaving. A message is a number. What `sendMessage` has handed to the connection is in
`outgoing`, a buffer of the socket or on its way, until the server reads it (`Gets`) or
the connection is lost with it; the code returns success at the first of these. The
program may crash and be started again; what is in `history` survives.

**`Texts`** is what a text goes through, with two programs of this kind, one at
each end: it is encoded, put in a packet by `Payloads`, read by
`parseIncomingMsg`, decoded by the guess of `strtoqstr`, and shown; likewise the
requests for authorization, and the x-status, which the contact sets in three
assignments while its reader answers a request with them, and which the list and
the dialog `dlgStat` show.

**`Profiles`** holds the layouts of the parts of a contact's information, their
unpacking, the requests, and the rows the dialog makes of them. **`UserInfo`**
is the threads: `threads[n]` is `getInfo` of the n-th dialog, which finds its
dialog by the global `dlgUserInfo`; `gui` is the GUI thread, which is in a dialog,
waits for the short answer, or is in a call of the library. `Cancel` is what
closing does, with whatever `pthreadExit` holds. A send fails here only if the
connection has ended. **`Searches`** is those calls: the rows that `publicMyInfo`
and the searches pack, how the server understands them, and how the answers are
read.

**`ContactView`** is the list on the screen. An item is a record; a reference to
one is its contact and a number, 0 for `NULL` and -1 once the item was deleted.
Each of the three threads has the steps it has still to take (`doing[t].steps`), such as
`clear`, `printContact`, a slot's lookup of the item and what the slot then does with it,
and, within the first of them, the operations on the list it is in the middle of
(`doing[t].ops`, innermost first): adding a contact, inserting, taking or moving a row,
hiding an item, folding, unfolding and sorting a group. The code has two mutexes there.
`mutexOnRepaint` is held while the vector of rows is changed, so that one change of a row
is one step. `mutexAction` is taken by a locker whose block ends at once
(`ZMyListBox.cpp:163`-168, 347-353): it decides whether a sort is made at all, and
protects nothing. So these operations take a look at the rows and make each change in
steps of their own, and the other threads come between. In one step are a look at all of
the rows; the reading of an item's data with its listing; and, in `contactAdd`, the
listing with the look for the header and the place. `disturbed` names the threads that
are sorting and have had the list changed by another, so that `ChangeSorts` is stated of
the others.

Dereferencing `NULL` ends the program (`down`); using a deleted item does, or goes
unnoticed. What comes after a list was shown twice (`twice`) is not followed. Statuses
are reduced to online and offline, the typing notes to begin and finish. The XMPP
rows, the split rows (but for their place in a print) and the pixmaps are left out, as
are extended status and client icons except for the lookup they make. The removal of a
contact by the user asks nothing of the server here: that is in `ContactList`.

The MC modules give constants values that a `.cfg` cannot write down.

How they fit together: `SnacExchange` shows what a wait gets, and the modules
above it take that for granted (`ContactList`, `Messages`) or model the cache
again where the numbers matter (`Login`, `UserInfo`). `FlapWire` shows when
frames arrive whole, and the others have whole packets in order. `Texts`,
`Login` and `UserInfo` extend `Payloads`, so that both ends of each of them run
over the same bytes.

## 4. Runs

| run | question | bounds |
|---|---|---|
| `snac_login` | one thread that pipelines and reconnects gets its own replies | 3 requests of 2 kinds, 2 connections, waits of one second and cached entries that live two |
| `snac_online` | two threads over one cache: own reply unless they have raced for a number, once, not missed, not cleared; the promise of `RequestReply` | 2 requests of 2 kinds, replies of up to 2 parts, 1 connection; the threads are symmetric |
| `snac_status` | *fails*: `setStatus` takes the reply left by the login | 2 requests, 1 thread |
| `session_safe` | cancels, disconnects, ends by the server: threads and socket of attempts do not mix, a cancel works, the menu tells the state | 2 attempts |
| `login` | what is told the server fits what it said, the list is whole, the reason told is the right one, an attempt ends | 2 attempts; 2 states of the account, which differ in families, versions, rate groups, contacts, parts of the list and kinds of items; 2 refusals, one with a code that has a name and one without; a connection that ends, a time-out or a cancel at any step; the cache kept or emptied between |
| `ssi` | two edits, one change by another client, one reconnect: mirror, member lists, transactions, ids, positions kept across waits; edits end | 2 contacts, 2 groups, 3 item ids, 2 privacies |
| `wire` | frames arrive whole; sends that are to give up end, and a break ends those that are not | 2 threads, 2 frames of 3 units, a connection that holds 2; 2 tries of a keep-alive, a sign-on or a sign-off, of data as many as time-outs |
| `messages` | nothing is lost, shown twice or out of order; presence and encodings; typing notes end | 2 messages of the contact, 2 of the user, 2 changes of looks among 2 and offline, 2 keys, 1 end of the connection or the program; of all but the user's messages 3 |
| `texts` | a text is read as written; the x-status and its texts belong together and arrive | 12 characters of the code page CP1251, 9 texts, 2 titles, 3 x-statuses; 3 acts of the users, a message counting for 2 |
| `info` | what is kept of a contact is whole, a dialog shows its own contact, a search finds those who fit, changes are made as asked for, nobody waits for ever | 2 contacts, one of which changes what it tells; dialogs, questions, calls and ends of the connection at most 2 together, a call alone with the latter; 4 searches by criteria, 3 by number; 1 request for information that is refused |
| `view` | rows, statuses, marks and order of the list under three threads | 3 contacts in a sorted group, 1 of them online before the list is printed, of which the reader hears, and 2 with a message kept; beside the print 2 things that happen: from the reader, by the user, or a kept message handed over |
| `view_away` | *fails*: a message for a window that is put away | 1 contact |

Why these bounds: confusion of replies needs two requests with filters that match one
entry, and a third for one that outlives a reconnect. A wait of one second and a life of
two are enough to have entries that are just within and just beyond each limit. An
overtaken position needs an entry before or behind the one removed. Two attempts are
enough for one to outlive its own cancel and meet the next, and for an answer to be
taken in the wrong one. A connection smaller than a frame forces every frame to be sent
in parts. Two messages are enough to be out of order, and three acts to have one message
before, one during and one after a login or a saving. The texts are those where bytes
above 7F are followed by a letter, a sign, an ASCII character or nothing, which is all
the guess looks at. Two dialogs are enough for a thread to meet another's. The answers
have every kind of part, every field once, fields that are cut off and values that have
no name in the tables. A group is sorted from three contacts on. In `view` the steps of
an operation are many, so that two things beside the print of the connect thread are
what can be checked: two of the user, two of the reader, or one of each. The two kept
messages are of a contact that is in the list and of one that may not be; the contact
the reader hears of goes offline and comes back. An unfolding comes after a folding, so
that it meets only the print; what needs the print, the reader and two clicks in turn is
out of this bound. What bigger bounds would add is more of the same kind: no property
counts beyond two actors of one kind.

`CHECK_DEADLOCK FALSE` is in every `.cfg` but that of `messages`, where a program
can always be started again: the other instances are bounded, so that they
stop when the bounds are used up, and a user who does nothing more is a
legal end.

Fairness, which is everywhere that a runnable thread is scheduled, and a time
limit passes. `ContactList`: the thread that edits goes on; a wait
in it may always end by its limit. `FlapWire`: a send under way writes or its try
times out; the receiver is under no obligation. `Login`: the connect thread goes on, but for
`waitHello`, which has no limit of its own; the reader reads what is there;
the server may stay silent. `Messages`: the timer of the chat, and what the GUI
thread is in the middle of. `Texts`: a thread that is setting the x-status, the
readers, the steps of the dialog but its closing, and, so that the x-status can
arrive at all, that a lost connection comes back. `UserInfo`: the threads of the
dialogs, and the GUI thread while it waits. `SnacExchange`, `Session` and
`ContactView` are checked for safety only.

## 5. Proofs

Every theorem holds for all values of the constants that meet the module's assumption:
any number of threads, requests, attempts, dialogs, messages, contacts and frames. Each
assumption is a matter of types, but for `WaitLimit < Lifetime` in `SnacExchange`, which
the code's 50 and 300 seconds meet, and, in `ContactList`, that the account's list is
one a server accepts at the start: finite, an id for one entry, a contact and a name in
it once. The argument is always of one form: the property is too weak to be kept by a
step, and what is added to it is what the code relies on without saying it.

| module | theorem | states |
|---|---|---|
| `SnacExchangeProofs` | `TypeCorrect` | the type invariant |
| | `GivenOnce` | a part of a reply is given once, and is then gone |
| | `NoReplyMissed` | a wait's loop never skips an entry its filter matches |
| | `ClearingIsSafe` | clearing old entries removes none a running wait would take |
| | `OwnReplyTheorem` | replies are the caller's own, for any number of threads, until two have raced for a number |
| | `OneSenderOwnReply` | with one sending thread they always are, across reconnects |
| | `ImplementsPromise` | `SnacExchange` implements `RequestReply` |
| `SessionProofs` | `TypeCorrect` | the type invariant, and no closed socket in use |
| | `HelloTheorem` | who waits for a hello is the only reader |
| | `CancelTheorem` | a cancel from `Connect` to the last look at the flag works; one before is the fault `early` |
| | `SessionTheorem` | socket, readers, keep-alive and menu fit together, until the server ends the session |
| `MessagesProofs` | `TypeCorrect` | the type invariant |
| | `NothingLostTheorem` | a message is stored, on the way, in the list or in the history |
| | `SentTheorem` | what is shown as sent is on its way or has come to the server, but for what a lost connection had on it |
| | `OrderTheorem` | none is shown twice, or before one that was sent earlier |
| | `PresenceTheorem` | the contact is shown as its last notice and answer say |
| | `UTF8Theorem` | no UTF-8 for a client that does not read it |
| | `TypingTheorem` | no typing note stays of a chat that is closed |
| `FlapWireProofs` | `TypeCorrect` | the type invariant |
| | `Invariant` | the units on the wire are those between the two ends, in order |
| | `FramesTheorem` | what is received is what was sent, in order, whole and once |
| `UserInfoProofs` | `DialogTheorem` | a dialog shows its own contact, once, and no thread touches another's |
| `ContactListProofs` | `TypeCorrect` | the type invariant |
| `MirrorProofs` | `MirrorAlways` | with nothing under way, the local list is the server's |
| | `GroupsAlwaysListMembers` | the server's list of members of a group names its contacts |
| | `TransactionsAlwaysEnd` | no edit leaves its transaction open |
| | `DropsAlways` | an edit drops from the local list only what it has asked to delete |

`SequenceLemmas` has what the sequence operators of the community modules
return; the proofs cite it instead of unfolding them.

**`SnacExchangeProofs`.** `TypeInv` adds to `TypeOK` that a thread has a request
to collect for exactly while it is in a wait (`Collecting`), and that each cached
entry is a part, sent by the server, of the reply to a request that was issued
(`Genuine`). `CacheInv` adds that entries stand in the order they were received,
with parts of one reply numbered along it, and that what was given is older than
what is still cached: from that a part cannot be given twice. `NoReplyMissed`
follows from ages and elapsed time growing together and the first lookup covering
the whole cache. `Apart` says that, until an increment is lost,
every id given is below the next number, so that no two requests have one: this must be
kept by a store that comes late as by one that comes at once, and by connections, which
reset nothing. With one sender `Alone` says that what it has loaded is still there when it
stores, so that nothing is ever lost. The refinement uses `Owners` (a request is held by one
thread, once) and `Ranges` (parts are within bounds) to map each step to a step of
`RequestReply` or to none.

**`SessionProofs`.** `SessionInv` says, until a fault has happened, that at most
one attempt runs (`Single`); what is gone when nobody is online (`Offline`); at
which steps of the script there is a reader, and that it is the one the id names
(`OneReader`); that a break flag that is up stays up until the attempt has looked
at it (`FlagStays`); that what is open is the connection in use (`OneSocket`); that
who is online has a reader, or the server has ended it and nobody was told
(`SessionLives`); and that the last message under way to the GUI is the true one
(`LastWord`). The attempt to prove `HelloIsOwn` showed that it was true only in the small
instance: with one attempt more, a keep-alive thread left over by a disconnect that came
late takes down the flag a user has set on a later attempt. That is the fault `taken`.

**`MessagesProofs`.** `DeliveryInv` follows the stored messages through
`getOfflineMessages`: the server keeps what it has sent until it is asked to
delete it, the answer a login reads is never that of another login (`Flow`), what
is about to be deleted is what is being shown (`DeletesShown`), and what is about to
be cleared has been saved (`Saved`). `SentKept` is `SentIsShown` with what has been saved
and is still to be cleared; a message of the user's leaves `outgoing` for `got`, or, with
the connection, for nothing (`undelivered`). `OrderInv` adds that the wire, the store and
what has been fetched are each in order (`Queued`), each holds only what is not
shown yet (`NotYet`), the store only what is older than the wire (`Older`), and the
list what is newer than the history (`Lists`). `PresenceInv` says which part of the
contact's look has been seen while the notice, the request for the x-status and its
answer are under way. `TypingTheorem` needs that a note that has not been taken
back belongs to an open chat on a connection (`Told`).

**`FlapWireProofs`.** `WireInv` says that one thread at most is amid a frame
(`OneAmid`), that there is a route `at` of places, one for each unit under way and
one at its end, that leads from the place of the receiver to that of the sender in
steps of one unit (`Pipe`), that the receiver's buffer is the beginning of the frame
it reads (`Partial`), and that what it has returned is what was written
(`Returned`). The route replaces the frames cut into pieces by the code's loops, so
that no recursion over the stream is needed.

**`UserInfoProofs`.** `Inv` binds `dlgUserInfo` and the threads: the one dialog that
is open is the last one made, its thread is the only one that is not at its end or
cancelled (`Bound`), and its rows are what is kept of its contact if its thread is
past showing (`Shows`). `OwnDialog` is the second conjunct of `InfoRight`.

**`ContactListProofs`.** To stay well typed, `TypeInv` has to know that a plan has
one contact left in `uins` for each step that removes one (`PlanFits`), and that the
server's list stays finite, for a login to put it in an order. `Without`, the
removal of what is at some positions, is shown to keep the rest in order (`WithoutIs`).

**`MirrorProofs`.** That two copies of a list are equal when nothing is under way says
nothing of the times between, where every step takes place. What holds at all times is
said in words: each message on its way to the client, an ack included, and each step that
the edit has still to make on the local list is a word, which says what there is under
one id from then on. `MirrorInv` says, until a fault has happened, that the local list
with all these words applied to it is the server's (`Sync`); that no state on the way
there has two entries for a contact, or one without its group (`Good`), since the code
drops a notification of a contact whose group it does not know; that no id is in either
list twice (`OnceB`, `OnceG`); and that what an edit has looked up is still so (`JobB`,
`JobG`). A server step adds a word at the end, the
reader takes the first one, and an edit takes its own; for each of the three it is shown
once what becomes of `Sync` and `Good`, and then for each action which of them it is.
`Early` has what the words rest on: the plan is what is left of one of the plans of the
menu (`PlanInv`), there is at most one ack under way, and only while it is waited for
(`AckInv`), and ids are unique on the server (`Keyed`). `KnownIds` and `PrivacyInv` are
the parts of `Mirror` about ids and privacy. `DropsOnlyDeleted` follows: what a step
drops is what a word deletes, and the words lead to the server's list.

`TransInv` says that while an edit's transaction is open, its plan still ends it
(`WillEnd`), which the early returns keep, and that the group the end is looked up by is
still there (`WillFind`). `MembersInv` says of each group that its list is right, or that
it is behind by what the edit in progress has done to it, with the step that sends it
still in the plan (`Behind`), and that the group has been known to the client since the
ack (`Kept`), so that this step will find it. The attempt to prove it showed
`GroupsListMembers` to be true only in the small instance: when the other client moves a
contact before its turn comes, `removeContacts` takes it out of a group whose list it does
not send. That is the fault `moved`.

What stays with TLC, and why:

- all liveness properties: fairness and `ENABLED` are beyond the prover;
- what readers and writers of bytes and texts compute (`LoginRight`, `ReasonTold`,
  `TextArrives`, the parts `KeptWhole`, `AddedRight` and `CallsDone` of `InfoRight`):
  induction over data, with folds, `SelectSeq` and recursive operators that the
  prover cannot unfold; and the type invariants of `Login` and `UserInfo`, which are
  about what those return;
- `ContactView`: its folds and `SelectSeq` likewise.

## 6. What the models show about the code

Recorded as findings, each with a failing run:

- `setStatus` collects its confirmation with `req_id` 0 and takes the one the
  login left in the cache (`icqkid2.cpp:391`; run `snac_status`).
- A message for a window that is put away makes `newMes` use a null item
  (`zgui.cpp:2058`; run `view_away`).

Not recorded as findings, for the repository does not say what should
happen, but visible in the models:

- Exchange: two threads can number two requests alike (`icqkid2.cpp:2968`).
- Session: a cancel followed at once by a new attempt revives the one cancelled
  (`overlap`); a cancel before `Connect` takes the flag down is lost (`early`,
  `zICQ.cpp:83`), and so is one after the last look at the flag (`late`); when the
  server ends a session only the reader ends: the socket stays open, the keep-alive
  thread goes on, and the user is shown online until he disconnects, since the slot for
  it is connected to nothing (`kicked`, `zgui.cpp:1111`); a keep-alive thread left over
  may take down the flag of a cancel that is meant for a later login (`taken`); a
  cancelled attempt is reported as an error when a send has taken the flag down
  (`zICQ.cpp:89`); the ids of threads that have ended are used to cancel them.
- Login: of the server's reasons for a refusal only codes 4, 5 and 24 are told, any
  other is "UNKNOWN" (`zICQ.cpp:94`); families and versions are waited for with `req_id`
  0 and may be those of an earlier attempt, from which the rest is then negotiated
  (`stale`, `icqkid2.cpp:1854`, 1930); the privacy and its item are kept when the new
  list has none (2365), and `unknown_item_ids` only grows.
- Contact list: the list of groups is sent one edit behind (1568, 1641); the
  acknowledgement of that list overwrites a refusal of the group (1573, 1646; `masked`);
  a position is stale when another client's deletion overtakes an edit (`overtaken`);
  `removeContacts` sends the list of the group it removes, also if it has found a
  contact of it in another one (`moved`); a failed group update leaves the transaction
  open until the next edit, and an acknowledgement that is late is never read
  (`timeout`); `getUnusedItemID` hands out ids of icons, which `getSSICopy` passes over
  (2366); a privacy another client sets is passed over until the next login (`unread`).
- Wire: a try repeated after a part was written leaves a torn frame, two threads mix
  their frames, a time-out in a receive loses what was read (`torn`, `mixed`, `lost`); a
  send that wrote one byte returns the value that means success (`icqkid2.cpp:3007`); a
  data frame on a connection that does not take it is tried until the user breaks it off
  (2983, `network_timeout` at 113); a keep-alive counts as sent after 14 tries that
  failed; the address in a rendez-vous is written as TLV 3 and read as TLV 4
  (`flap.cpp:573`, 536).
- Messages: what comes before step 39 of a login goes to the cache only (`cached`,
  `missed`; `icqkid2.cpp:2921`); stored messages are deleted before they are shown, and
  a deletion that is lost shows them again (`cut`, `crash`, `undeleted`; 4471); a list
  is cleared although its file could not be opened, and with it what has come since it
  was written (`unsaved`, `cleared`; `zgui.cpp:996`); at the exit the history is saved
  before the connection is closed (`late`; 229); the encoding is chosen by one
  capability and used by `sendMessage` under another, whose result nobody looks at
  (`refused`; 2382); a message counts as sent when it is in the socket's buffer, and one
  that is lost with the connection is shown as sent (`undelivered`; 559); a message that
  comes while older ones are stored is shown first (`overtaken`); the typing note of a
  chat that loses its connection is taken for sent (`zChatForm.cpp:484`).
- Texts: letters of the code page followed by signs pass for UTF-8
  (`zgui.cpp:2456`); an old-style request keeps a separator in front of its
  reason (`icqkid2.cpp:3166`); the last x-status is refused (3574); an answer
  made while the x-status is being set is torn (`torn`, 4778); the dialog's
  labels may not be there, or the dialog gone, when the answer comes (`wild`,
  `missed`; `zgui.cpp:1148`); the list remembers an x-status less one
  (`ZContactItem.cpp:220`).
- User information: `pthreadExit` is not initialised, so that closing a dialog
  at once may leave its thread running (`unset`), and one that is past its last
  wait cannot be cancelled (`late`); either then shows its contact in the next dialog, or
  writes to a deleted one (`stray`); a thread cancelled between the two sends of
  a frame leaves a torn one; a refused request leaves an empty profile, and
  every profile is kept for good (`icqkid2.cpp:617`); the occupation is looked up
  among the countries (`ZUserInfo.cpp:452`) although there is a table for it
  (`const_strings.cpp:51`), and the line for the street shows the position (424);
  what the user publishes is not kept locally, nor is a new password.
- List: `getICQContact` returns nothing for a contact it has just put into the list (a
  second variable of the same name, `zgui.cpp:1879`), so that a first message from
  someone not in the list goes the way of `view_away` with the window shown too; a list
  that is cleared or printed in the middle of another print or of an addition, or a
  contact that two threads add, is shown twice (`twice`); the locks of the list protect
  one change of a row each or nothing (`ZMyListBox.cpp:163`, 347), so that a row is put
  below the wrong header or left in a folded group when the rows change between look and
  change (`misplaced`), or hidden and shown by two threads at once (`met`); a removal
  during a print makes it pass over a contact or use another's position (`shifted`); a
  sort is left out when another thread is at the lock (`skipped`); a slot that is called
  between `clear` and the print of its group uses a header that is not there; a status
  for a contact that is typing or has a message is dropped (`dropped`), one that comes
  while the window is being raised may be (`gap`); a contact that goes offline is taken
  out under a message that has looked it up (`removed`); an item keeps its old position
  after a removal and marks someone else (`stale`); a message that comes while its chat
  opens is neither shown nor marked (`crossed`); a chat that was queued may use an item
  that is gone (`freed`).

## 7. Not modelled

XMPP, which is not compiled. Operations that nothing calls: `renameContact`,
`renameGroup`, `addContacts`, the temporary contacts, `updateContactList`, the edits of
the visible, invisible and ignore lists, and `menu_update` of the user information. The
texts of away statuses, of which only asking and logging is left (`sengMsgAutoRequest`,
`parseMsgAutoResponse`). The HTTP(S) proxy in `tnetwork.cpp`. Settings and profiles of
the user, the history view's paging, painting and layout; NAPI and start-up; Base64 and
MD5; the contents of the tables in `const_strings.cpp`. The components in `PROJECT.json`
give the reason for each.

More than half of the tree's lines are headers (15,788 of them gloox), and a
large part of the rest is layout, tables and code that is not compiled or not
called; what carries the program's logic is `icqkid2.cpp`, `flap.cpp`,
`snaccache.cpp`, `zICQ.cpp` and parts of `zgui.cpp`, of the list widgets and of
the dialogs named above.

Memory errors of the code are modelled where two threads can cause them in
`ContactView`, `Texts` and `UserInfo`; elsewhere the use of a shared container is
taken to be atomic.
