------------------------------ MODULE Messages ------------------------------
(***************************************************************************)
(* Messages, presence and typing notes between the user and one contact.   *)
(*                                                                         *)
(* The reader thread handles what the server sends (pollIncomingEvents),   *)
(* the connect thread fetches the messages the server has kept             *)
(* (getOfflineMessages), and the GUI thread writes, sends and saves        *)
(* (zChatForm, ZGui).  All three append to the same messageList.           *)
(*                                                                         *)
(* The contact and the server are the environment.  A message is a number: *)
(* those of the contact count from 1 in the order they were sent, those of *)
(* the user from MaxTheirs + 1.                                            *)
(***************************************************************************)
EXTENDS Naturals, Sequences, FiniteSets, SequencesExt

CONSTANTS
  Looks,                \* what the contact may look like to others
  X_STATUS_MAX_BOUND,   \* the number of x-statuses, which is also the last one
  MaxTheirs, MaxMine,   \* bounds: messages of the contact and of the user
  MaxLooks,             \* bound: how often the contact changes its look
  MaxKeys,              \* bound: how often the user changes the text
  MaxEnds,              \* bound: losses of the connection, crashes and exits, together
  MaxActs               \* bound: all of these but the user's messages, together

ASSUME MessagesAssumption ==
  /\ X_STATUS_MAX_BOUND \in Nat
  /\ {MaxTheirs, MaxMine, MaxLooks, MaxKeys, MaxEnds, MaxActs} \subseteq Nat
  /\ Looks \subseteq [online : {TRUE}, utf8 : BOOLEAN, relay : BOOLEAN,
                      x : 0 .. X_STATUS_MAX_BOUND]

VARIABLES
  phase,         \* how far the login is, by stepConnect
  wire,          \* what the server has sent on the connection
  requests,      \* what it has got of this client and not dealt with
  stored,        \* messages it keeps for the user
  peer,          \* the contact's look
  changes,       \* how often that has changed
  sent,          \* how many messages the contact has sent
  outgoing,      \* the user's messages on their way to the server
  got,           \* and those it has got
  mtn,           \* the last typing note sent to it on this connection
  contact,       \* ContactListUins[uen_ind] of the contact
  reading,       \* the online notice the reader is in the middle of, and its step
  noAutoXTrazRequest,
  fetch,         \* where getOfflineMessages is
  reply,         \* the reply to it, in the cache
  offl_vec,
  messageList, history,   \* of the contact: in memory, and in its file
  chat,          \* the chat is open
  text,          \* something is written in it
  startTyped, timer,
  gui,           \* what the GUI thread is in the middle of
  count,         \* ... and how many messages it had found when saving
  keys, written, ends,   \* counters of the bounds
  faults         \* history: what has come between, see below

ours    == <<outgoing, got>>
server  == <<wire, requests, stored, ours, mtn>>
others  == <<peer, changes, sent>>
reader  == <<contact, reading>>
offline == <<fetch, reply, offl_vec>>
kept    == <<messageList, history>>
form    == <<chat, text, startTyped, timer>>
busy    == <<gui, count>>
bounds  == <<keys, written, ends>>
vars    == <<phase, server, others, reader, noAutoXTrazRequest, offline, kept, form, busy,
             bounds, faults>>

\* "cached"    a message came before step 39 of the login: it goes to the cache only
\* "missed"    and so did a notice of the contact's look
\* "cut"       the connection was lost with messages on their way to the user
\* "crash"     the program ended with messages in memory
\* "late"      or ended by the user, messages having come after the history was saved
\* "cleared"   messages came between the saving of a list and its clearing
\* "unsaved"   the history could not be opened, and the list was cleared
\* "undeleted" the connection was lost with the deletion of stored messages on its way
\* "refused"   sendMessage did not send, or not all of it, and the message was shown
\* "undelivered" the connection was lost with messages of the user on their way
\* "overtaken" a message came while older ones were kept by the server
Faults == {"cached", "missed", "cut", "crash", "late", "cleared", "unsaved", "undeleted",
           "refused", "undelivered", "overtaken"}

Phases == {"off", "login", "ready", "half", "on"}   \* steps 0, 1 to 36, 37 and 38, 39, 40

Offline == [online |-> FALSE, utf8 |-> FALSE, relay |-> FALSE, x |-> 0]

Theirs == 1 .. MaxTheirs
MayAct == sent + changes + keys + ends < MaxActs
Mine   == MaxTheirs + 1 .. MaxTheirs + MaxMine

Shown == history \o messageList      \* ZHistoryView

\* What sendMessage has handed to the connection whole.
Handed == got \cup ToSet(outgoing)

connected == phase = "on"
Listens   == phase \in {"ready", "half", "on"}   \* the server has seen 01,02

NotReading == [step |-> "no", look |-> Offline]

UnderWay(m) == \E i \in DOMAIN wire : wire[i].kind = "message" /\ wire[i].m = m

-----------------------------------------------------------------------------
(* The contact and the server *)

Send(p) == wire' = Append(wire, p)

Changes ==
  /\ changes < MaxLooks /\ MayAct
  /\ \E look \in Looks \cup {Offline} :
       /\ look # peer
       /\ peer' = look
       /\ IF Listens THEN Send([kind |-> "look", look |-> look]) ELSE UNCHANGED wire
  /\ changes' = changes + 1
  /\ UNCHANGED <<phase, requests, stored, ours, mtn, sent, reader, noAutoXTrazRequest, offline,
                 kept, form, busy, bounds, faults>>

Writes ==
  /\ sent < MaxTheirs /\ MayAct
  /\ sent' = sent + 1
  /\ IF Listens THEN /\ Send([kind |-> "message", m |-> sent'])
                     /\ UNCHANGED stored
                ELSE /\ stored' = Append(stored, sent')
                     /\ UNCHANGED wire
  /\ faults' = IF Listens /\ stored \o offl_vec # <<>> THEN faults \cup {"overtaken"} ELSE faults
  /\ UNCHANGED <<phase, requests, ours, mtn, peer, changes, reader, noAutoXTrazRequest, offline,
                 kept, form, busy, bounds>>

\* The request for an x-status is passed on to a contact that has one and answered.
Serves ==
  /\ requests # <<>>
  /\ requests' = Tail(requests)
  /\ CASE Head(requests) = "OFFLINE_RECIEVE" ->
            Send([kind |-> "stored", ms |-> stored]) /\ UNCHANGED stored
       [] Head(requests) = "OFFLINE_DELETE" -> stored' = <<>> /\ UNCHANGED wire
       [] OTHER -> /\ IF peer.x # 0 THEN Send([kind |-> "x", x |-> peer.x]) ELSE UNCHANGED wire
                   /\ UNCHANGED stored
  /\ UNCHANGED <<phase, ours, mtn, others, reader, noAutoXTrazRequest, offline, kept, form, busy,
                 bounds, faults>>

\* The server gets the user's messages in the order they were sent.
Gets ==
  /\ outgoing # <<>>
  /\ got' = got \cup {Head(outgoing)}
  /\ outgoing' = Tail(outgoing)
  /\ UNCHANGED <<phase, wire, requests, stored, mtn, others, reader, noAutoXTrazRequest, offline,
                 kept, form, busy, bounds, faults>>

-----------------------------------------------------------------------------
(* The login, as far as events go *)

\* The list comes from the server, and everybody in it is offline.
Login ==
  /\ phase = "off" /\ fetch = "no" /\ gui \notin {"exit", "quit"}
  /\ phase' = "login"
  /\ contact' = Offline
  /\ UNCHANGED <<server, others, reading, noAutoXTrazRequest, offline, kept, form, busy, bounds,
                 faults>>

\* 01,02: from here on the server sends what happens, and first who is online.
sendReady ==
  /\ phase = "login"
  /\ phase' = "ready"
  /\ IF peer.online THEN Send([kind |-> "look", look |-> peer]) ELSE UNCHANGED wire
  /\ UNCHANGED <<requests, stored, ours, mtn, others, reader, noAutoXTrazRequest, offline, kept,
                 form, busy, bounds, faults>>

activateSSI ==
  /\ phase = "ready"
  /\ phase' = "half"
  /\ UNCHANGED <<server, others, reader, noAutoXTrazRequest, offline, kept, form, busy, bounds,
                 faults>>

\* The last sendStatus; the connect thread goes on to getOfflineMessages.
sendStatus ==
  /\ phase = "half"
  /\ phase' = "on"
  /\ fetch' = "ask"
  /\ UNCHANGED <<server, others, reader, noAutoXTrazRequest, reply, offl_vec, kept, form, busy,
                 bounds, faults>>

\* mutant: the reader goes on with the notice it has begun.
Dropped_KeepsReading ==
  /\ phase' = "off"
  /\ wire' = <<>> /\ requests' = <<>> /\ outgoing' = <<>> /\ mtn' = "FINISH"
  /\ UNCHANGED <<stored, got, reading>>

\* What is on its way in either direction is lost; the chat stays open.
Dropped ==
  /\ phase' = "off"
  /\ wire' = <<>> /\ requests' = <<>> /\ outgoing' = <<>> /\ mtn' = "FINISH"
  /\ reading' = NotReading
  /\ UNCHANGED <<stored, got>>

Lost(alsoLost) ==
  faults' = faults \cup alsoLost
              \cup (IF \E m \in Theirs : UnderWay(m) THEN {"cut"} ELSE {})
              \cup (IF "OFFLINE_DELETE" \in ToSet(requests) THEN {"undeleted"} ELSE {})
              \cup (IF outgoing # <<>> THEN {"undelivered"} ELSE {})

Drop ==
  /\ phase # "off" /\ ends < MaxEnds /\ MayAct
  /\ Dropped
  /\ Lost({})
  /\ ends' = ends + 1
  /\ UNCHANGED <<others, contact, noAutoXTrazRequest, offline, kept, form, busy, keys, written>>

-----------------------------------------------------------------------------
(* The reader *)

Packet == Head(wire)

Received == wire # <<>> /\ reading.step = "no" /\ wire' = Tail(wire)

\* readSNAC before step 39
Cache ==
  /\ phase = "ready" /\ Received
  /\ faults' = faults \cup (CASE Packet.kind = "message" -> {"cached"}
                               [] Packet.kind = "look" -> {"missed"}
                               [] OTHER -> {})
  /\ UNCHANGED <<phase, requests, stored, ours, mtn, others, reader, noAutoXTrazRequest, offline,
                 kept, form, busy, bounds>>

Polls == phase \in {"half", "on"}

\* parseIncomingMsg, slot_onIncomingMsg and newMes
slot_onIncomingMsg ==
  /\ Polls /\ Received /\ Packet.kind = "message"
  /\ messageList' = Append(messageList, Packet.m)
  /\ UNCHANGED <<phase, requests, stored, ours, mtn, others, reader, noAutoXTrazRequest, offline,
                 history, form, busy, bounds, faults>>

\* The reply to getOfflineMessages is no event: it is left in the cache.
AddEntry ==
  /\ Polls /\ Received /\ Packet.kind = "stored"
  /\ reply' = <<Packet.ms>>
  /\ UNCHANGED <<phase, requests, stored, ours, mtn, others, reader, noAutoXTrazRequest, fetch,
                 offl_vec, kept, form, busy, bounds, faults>>

\* 04,0b: parseXtrazResponse
parseXtrazResponse ==
  /\ Polls /\ Received /\ Packet.kind = "x"
  /\ contact' = IF Packet.x < X_STATUS_MAX_BOUND THEN [contact EXCEPT !.x = Packet.x] ELSE contact
  /\ UNCHANGED <<phase, requests, stored, ours, mtn, others, reading, noAutoXTrazRequest, offline,
                 kept, form, busy, bounds, faults>>

\* mutant: what the client can do is not forgotten when it leaves.
OfflineNotify_KeepsCapabilities ==
  /\ Polls /\ Received /\ Packet.kind = "look" /\ ~Packet.look.online
  /\ contact' = [contact EXCEPT !.online = FALSE]
  /\ UNCHANGED <<phase, requests, stored, ours, mtn, others, reading, noAutoXTrazRequest, offline,
                 kept, form, busy, bounds, faults>>

\* 03,0c
OfflineNotify ==
  /\ Polls /\ Received /\ Packet.kind = "look" /\ ~Packet.look.online
  /\ contact' = [Offline EXCEPT !.x = contact.x]
  /\ UNCHANGED <<phase, requests, stored, ours, mtn, others, reading, noAutoXTrazRequest, offline,
                 kept, form, busy, bounds, faults>>

\* 03,0b: what the contact's client can do is forgotten ...
parseOnlineNotify ==
  /\ Polls /\ Received /\ Packet.kind = "look" /\ Packet.look.online
  /\ contact' = [contact EXCEPT !.utf8 = FALSE, !.relay = FALSE]
  /\ reading' = [step |-> "capabilities", look |-> Packet.look]
  /\ UNCHANGED <<phase, requests, stored, ours, mtn, others, noAutoXTrazRequest, offline, kept,
                 form, busy, bounds, faults>>

sendXtrazRequest == requests' = Append(requests, "x")

\* ... and read again ...
ReadCapabilities ==
  LET look == reading.look IN
  /\ reading.step = "capabilities"
  /\ reading' = [reading EXCEPT !.step = "status"]
  /\ contact' = [contact EXCEPT
       !.utf8 = look.utf8, !.relay = look.relay,
       !.x = IF look.x = 0 \/ (noAutoXTrazRequest /\ look.x < X_STATUS_MAX_BOUND)
             THEN look.x ELSE @]
  /\ IF look.x # 0 /\ ~noAutoXTrazRequest THEN sendXtrazRequest ELSE UNCHANGED requests
  /\ UNCHANGED <<phase, wire, stored, ours, mtn, others, noAutoXTrazRequest, offline, kept, form,
                 busy, bounds, faults>>

\* ... and then the status is taken over.
OnlineNotify ==
  /\ reading.step = "status"
  /\ reading' = NotReading
  /\ contact' = [contact EXCEPT !.online = TRUE]
  /\ UNCHANGED <<phase, server, others, noAutoXTrazRequest, offline, kept, form, busy, bounds,
                 faults>>

Reader ==
  \/ Cache \/ slot_onIncomingMsg \/ AddEntry \/ parseXtrazResponse
  \/ OfflineNotify \/ parseOnlineNotify \/ ReadCapabilities \/ OnlineNotify

-----------------------------------------------------------------------------
(* getOfflineMessages *)

askOfflMsgAction(flag, next) ==
  IF phase # "off" THEN /\ requests' = Append(requests, flag)
                        /\ fetch' = next
                   ELSE /\ fetch' = "no"
                        /\ UNCHANGED requests

AskStored ==
  /\ fetch = "ask"
  /\ askOfflMsgAction("OFFLINE_RECIEVE", "wait")
  /\ reply' = <<>>
  /\ UNCHANGED <<phase, wire, stored, ours, mtn, others, reader, noAutoXTrazRequest, offl_vec, kept,
                 form, busy, bounds, faults>>

getOfflMsg ==
  /\ fetch = "wait" /\ reply # <<>>
  /\ offl_vec' = Head(reply)
  /\ reply' = <<>>
  /\ fetch' = "delete"
  /\ UNCHANGED <<phase, server, others, reader, noAutoXTrazRequest, kept, form, busy, bounds,
                 faults>>

\* waitSNAC has run out of time, or the connection is lost.
GiveUp ==
  /\ fetch = "wait" /\ reply = <<>>
  /\ fetch' = "no"
  /\ UNCHANGED <<phase, server, others, reader, noAutoXTrazRequest, reply, offl_vec, kept, form,
                 busy, bounds, faults>>

DeleteStored ==
  /\ fetch = "delete"
  /\ askOfflMsgAction("OFFLINE_DELETE", "show")
  /\ offl_vec' = IF fetch' = "show" THEN offl_vec ELSE <<>>
  /\ UNCHANGED <<phase, wire, stored, ours, mtn, others, reader, noAutoXTrazRequest, reply, kept,
                 form, busy, bounds, faults>>

\* mutant: the loop over offl_vec runs once.
ShowStored_FirstOnly ==
  /\ fetch = "show"
  /\ fetch' = "no" /\ offl_vec' = <<>>
  /\ messageList' = IF offl_vec = <<>> THEN messageList ELSE Append(messageList, Head(offl_vec))
  /\ UNCHANGED <<phase, server, others, reader, noAutoXTrazRequest, reply, history, form, busy,
                 bounds, faults>>

\* mutant: ... or from the back.
ShowStored_LastFirst ==
  /\ fetch = "show"
  /\ IF offl_vec = <<>>
     THEN fetch' = "no" /\ UNCHANGED <<offl_vec, messageList>>
     ELSE /\ messageList' = Append(messageList, Last(offl_vec))
          /\ offl_vec' = Front(offl_vec)
          /\ UNCHANGED fetch
  /\ UNCHANGED <<phase, server, others, reader, noAutoXTrazRequest, reply, history, form, busy,
                 bounds, faults>>

ShowStored ==
  /\ fetch = "show"
  /\ IF offl_vec = <<>>
     THEN fetch' = "no" /\ UNCHANGED <<offl_vec, messageList>>
     ELSE /\ messageList' = Append(messageList, Head(offl_vec))
          /\ offl_vec' = Tail(offl_vec)
          /\ UNCHANGED fetch
  /\ UNCHANGED <<phase, server, others, reader, noAutoXTrazRequest, reply, history, form, busy,
                 bounds, faults>>

getOfflineMessages == AskStored \/ getOfflMsg \/ DeleteStored \/ ShowStored

-----------------------------------------------------------------------------
(* The chat: typing notes *)

sendMTN(note) == mtn' = note

\* What the server is told, and startTyped.
mesTyped(typed, something) ==
  IF connected /\ (typed => something)
  THEN sendMTN(IF typed THEN "BEGIN" ELSE "FINISH") /\ startTyped' = typed
  ELSE UNCHANGED <<mtn, startTyped>>

\* mutant: the timer is not started anew while the user types on.
mesTextChanged_FirstKeyOnly(something) ==
  /\ text' = something
  /\ timer' = ~startTyped
  /\ IF startTyped THEN UNCHANGED <<mtn, startTyped>> ELSE mesTyped(TRUE, something)

\* mesTextChanged, the text being there or not
mesTextChanged(something) ==
  /\ text' = something
  /\ timer' = TRUE
  /\ IF startTyped THEN UNCHANGED <<mtn, startTyped>> ELSE mesTyped(TRUE, something)

\* stopTimerTyped
stopTimerTyped ==
  /\ IF startTyped THEN mesTyped(FALSE, FALSE) ELSE UNCHANGED <<mtn, startTyped>>
  /\ timer' = FALSE

InChat == chat /\ gui = "no"

openChat ==
  /\ connected /\ ~chat /\ gui = "no"
  /\ chat' = TRUE
  /\ UNCHANGED <<phase, server, others, reader, noAutoXTrazRequest, offline, kept, text, startTyped,
                 timer, busy, bounds, faults>>

\* A key, or slotClearMes.
Type ==
  /\ InChat /\ keys < MaxKeys /\ MayAct
  /\ \E something \in BOOLEAN : mesTextChanged(something)
  /\ keys' = keys + 1
  /\ UNCHANGED <<phase, wire, requests, stored, ours, others, reader, noAutoXTrazRequest, offline,
                 kept, chat, busy, written, ends, faults>>

timeDone ==
  /\ InChat /\ timer
  /\ timer' = FALSE
  /\ mesTyped(FALSE, FALSE)
  /\ UNCHANGED <<phase, wire, requests, stored, ours, others, reader, noAutoXTrazRequest, offline,
                 kept, chat, text, busy, bounds, faults>>

\* The destructor: stopTimerTyped; the text is kept for the next chat.
closeChat ==
  /\ InChat
  /\ mtn' = IF startTyped /\ connected THEN "FINISH" ELSE mtn
  /\ chat' = FALSE /\ startTyped' = FALSE /\ timer' = FALSE
  /\ UNCHANGED <<phase, wire, requests, stored, ours, others, reader, noAutoXTrazRequest, offline,
                 kept, text, busy, bounds, faults>>

-----------------------------------------------------------------------------
(* The chat: sending *)

\* Without a connection the text is shown in the chat only, and cleared.
sendClick ==
  /\ InChat /\ text /\ written < MaxMine
  /\ \/ /\ connected
        /\ stopTimerTyped
        /\ gui' = IF contact.utf8 /\ contact.online THEN "UTF8" ELSE "LOCAL8BIT"
        /\ UNCHANGED text
     \/ /\ ~connected
        /\ mesTextChanged(FALSE)
        /\ UNCHANGED gui
  /\ UNCHANGED <<phase, wire, requests, stored, ours, others, reader, noAutoXTrazRequest, offline,
                 kept, chat, count, bounds, faults>>

\* mutant: the relay capability is not asked for.
MaySend_NoRelay == gui = "UTF8" => contact.online /\ contact.utf8

\* The checks of ICQKid2::sendMessage, on the contact as it is by then.
MaySend == gui = "UTF8" => contact.online /\ contact.utf8 /\ contact.relay

\* The message is in the socket's buffer, whole, or sendMessage has failed.
sendMessage(m) ==
  \/ /\ MaySend /\ phase # "off"
     /\ outgoing' = Append(outgoing, m)
     /\ UNCHANGED <<got, faults>>
  \/ /\ faults' = faults \cup {"refused"}
     /\ UNCHANGED ours

\* mutant: a message is shown when the contact is there to get it.
sendMessange_ShownIfOnline ==
  LET m == MaxTheirs + 1 + written IN
  /\ gui \in {"UTF8", "LOCAL8BIT"}
  /\ gui' = "no"
  /\ written' = written + 1
  /\ messageList' = IF contact.online THEN Append(messageList, m) ELSE messageList
  /\ sendMessage(m)
  /\ mesTextChanged(FALSE)
  /\ UNCHANGED <<phase, wire, requests, stored, others, reader, noAutoXTrazRequest, offline,
                 history, chat, count, keys, ends>>

\* ZGui::sendMessange: the message is shown, whatever sendMessage has returned.
sendMessange ==
  LET m == MaxTheirs + 1 + written IN
  /\ gui \in {"UTF8", "LOCAL8BIT"}
  /\ gui' = "no"
  /\ written' = written + 1
  /\ messageList' = Append(messageList, m)
  /\ sendMessage(m)
  /\ mesTextChanged(FALSE)
  /\ UNCHANGED <<phase, wire, requests, stored, others, reader, noAutoXTrazRequest, offline,
                 history, chat, count, keys, ends>>

-----------------------------------------------------------------------------
(* The history *)

\* saveHistory: the list is copied and written, if the file opens, ...
Save(next) ==
  /\ gui = "no" /\ gui' = next
  /\ count' = Len(messageList)
  /\ \/ history' = history \o messageList /\ UNCHANGED faults
     \/ /\ faults' = IF messageList = <<>> THEN faults ELSE faults \cup {"unsaved"}
        /\ UNCHANGED history
  /\ UNCHANGED <<phase, server, others, reader, noAutoXTrazRequest, offline, messageList, form,
                 bounds>>

\* There is nothing to save in an empty list.
slotClearChat == chat /\ messageList # <<>> /\ Save("clear")
Exit == ~chat /\ ends < MaxEnds /\ MayAct /\ Save("exit")

\* mutant: the list stays as it is.
ClearList_KeepsList ==
  /\ gui \in {"clear", "exit"}
  /\ gui' = IF gui = "clear" THEN "no" ELSE "quit"
  /\ count' = 0
  /\ UNCHANGED <<phase, server, others, reader, noAutoXTrazRequest, offline, kept, form, bounds,
                 faults>>

\* ... and cleared.
ClearList ==
  /\ gui \in {"clear", "exit"}
  /\ gui' = IF gui = "clear" THEN "no" ELSE "quit"
  /\ messageList' = <<>>
  /\ count' = 0
  /\ faults' = IF Len(messageList) > count THEN faults \cup {"cleared"} ELSE faults
  /\ UNCHANGED <<phase, server, others, reader, noAutoXTrazRequest, offline, history, form, bounds>>

\* The program ends and is started again.
Restarted ==
  /\ Dropped
  /\ contact' = Offline
  /\ fetch' = "no" /\ reply' = <<>> /\ offl_vec' = <<>>
  /\ messageList' = <<>> /\ UNCHANGED history
  /\ chat' = FALSE /\ text' = FALSE /\ startTyped' = FALSE /\ timer' = FALSE
  /\ gui' = "no" /\ count' = 0
  /\ ends' = ends + 1
  /\ UNCHANGED <<others, noAutoXTrazRequest, keys, written>>

InMemory == messageList \o offl_vec # <<>>

Quit ==
  /\ gui = "quit"
  /\ Restarted
  /\ Lost(IF InMemory THEN {"late"} ELSE {})

Crash ==
  /\ ends < MaxEnds /\ MayAct
  /\ Restarted
  /\ Lost(IF InMemory THEN {"crash"} ELSE {})

-----------------------------------------------------------------------------
Init ==
  /\ phase = "off"
  /\ wire = <<>> /\ requests = <<>> /\ stored = <<>>
  /\ outgoing = <<>> /\ got = {} /\ mtn = "FINISH"
  /\ peer = Offline /\ changes = 0 /\ sent = 0
  /\ contact = Offline /\ reading = NotReading
  /\ noAutoXTrazRequest \in BOOLEAN
  /\ fetch = "no" /\ reply = <<>> /\ offl_vec = <<>>
  /\ messageList = <<>> /\ history = <<>>
  /\ chat = FALSE /\ text = FALSE /\ startTyped = FALSE /\ timer = FALSE
  /\ gui = "no" /\ count = 0
  /\ keys = 0 /\ written = 0 /\ ends = 0
  /\ faults = {}

User == openChat \/ Type \/ closeChat \/ sendClick \/ slotClearChat \/ Exit

Next ==
  \/ Changes \/ Writes \/ Serves \/ Gets
  \/ Login \/ sendReady \/ activateSSI \/ sendStatus \/ Drop
  \/ Reader
  \/ getOfflineMessages \/ GiveUp
  \/ User \/ timeDone \/ sendMessange \/ ClearList \/ Quit \/ Crash

Spec == Init /\ [][Next]_vars

FairSpec ==
  /\ Spec
  /\ WF_vars(timeDone)
  /\ WF_vars(sendMessange \/ ClearList \/ Quit)

-----------------------------------------------------------------------------
(* Properties *)

\* The values the variables may have; the notice being read is one that says "online".
TypeOK ==
  /\ phase \in Phases
  /\ requests \in Seq({"OFFLINE_RECIEVE", "OFFLINE_DELETE", "x"})
  /\ stored \in Seq(Theirs) /\ offl_vec \in Seq(Theirs) /\ reply \in Seq(Seq(Theirs))
  /\ outgoing \in Seq(Mine) /\ got \subseteq Mine /\ mtn \in {"BEGIN", "FINISH"}
  /\ sent \in 0 .. MaxTheirs /\ changes \in 0 .. MaxLooks
  /\ {peer, contact} \subseteq [online : BOOLEAN, utf8 : BOOLEAN, relay : BOOLEAN,
                               x : 0 .. X_STATUS_MAX_BOUND]
  /\ reading.step \in {"no", "capabilities", "status"}
  /\ reading.step # "no" => Polls /\ reading.look.online
  /\ fetch \in {"no", "ask", "wait", "delete", "show"}
  /\ messageList \in Seq(Theirs \cup Mine) /\ history \in Seq(Theirs \cup Mine)
  /\ {chat, text, startTyped, timer, noAutoXTrazRequest} \subseteq BOOLEAN
  /\ gui \in {"no", "UTF8", "LOCAL8BIT", "clear", "exit", "quit"}
  /\ count \in 0 .. Len(messageList)
  /\ faults \subseteq Faults

\* A message of the contact is still on its way, or it is shown: nothing but a
\* connection or a program that ends, a login that is not over and the three ways
\* to clear a list loses one.
NothingLost ==
  faults \cap {"cached", "cut", "crash", "late", "cleared", "unsaved"} = {} =>
    \A m \in 1 .. sent : m \in ToSet(stored) \cup ToSet(offl_vec) \cup ToSet(Shown) \/ UnderWay(m)

ShownOnce ==
  "undeleted" \notin faults /\ gui \notin {"clear", "exit"} => IsInjective(Shown)

InOrder ==
  faults \cap {"overtaken", "undeleted"} = {} /\ gui \notin {"clear", "exit"} =>
    \A i, j \in DOMAIN Shown : i < j /\ {Shown[i], Shown[j]} \subseteq Theirs => Shown[i] < Shown[j]

\* No message is shown twice, by the history or by the chat: stored messages are
\* deleted from the server when they are shown, and lists are cleared when saved.
\* Of two messages of the contact the one sent first is shown first, unless the
\* server kept it until one had come that was sent later.
OnceInOrder == ShownOnce /\ InOrder

\* A message of the user's that is shown is on its way to the server or has come to it,
\* but for those sendMessage failed on and those that were on their way when the
\* connection was lost; and what is sent is shown as long as lists are not lost.
SentIsShown ==
  /\ faults \cap {"refused", "undelivered"} = {} => ToSet(Shown) \cap Mine \subseteq Handed
  /\ faults \cap {"crash", "late", "cleared", "unsaved"} = {} => Handed \subseteq ToSet(Shown)

\* A message goes out in UTF-8 only to a client that reads it, as far as notices
\* have told.
UTF8Understood ==
  [][Len(outgoing') > Len(outgoing) /\ gui = "UTF8" /\ wire = <<>> /\ reading.step = "no"
        /\ "missed" \notin faults
       => peer.utf8 /\ peer.relay]_vars

\* When everything sent has been read the contact is shown as it is.  The last
\* x-status there is, is never taken over.
PresenceTrue ==
  connected /\ wire = <<>> /\ requests = <<>> /\ reading.step = "no" /\ "missed" \notin faults =>
    /\ [contact EXCEPT !.x = 0] = [peer EXCEPT !.x = 0]
    /\ peer.online /\ peer.x < X_STATUS_MAX_BOUND => contact.x = peer.x

\* A contact is left with a note that the user is typing neither when the chat is
\* closed nor for ever while it is open.
TypingEnds ==
  /\ [](~chat => mtn = "FINISH")
  /\ mtn = "BEGIN" ~> mtn = "FINISH"
=============================================================================
