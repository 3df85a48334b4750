------------------------------ MODULE UserInfo ------------------------------
(***************************************************************************)
(* What a contact tells about itself, in the dialog of the contact and in  *)
(* the question before a contact is added.                                 *)
(*                                                                         *)
(* The dialog (ZUserInfo) has a thread of its own, getInfo, which asks the *)
(* server (getFullUserInfo) and shows the answer.  It finds the dialog by  *)
(* a global, dlgUserInfo, which is the dialog that was made last; closing  *)
(* the dialog cancels the thread, if pthreadExit is false, and deletes the *)
(* dialog.  The question is asked by the GUI thread, which itself waits    *)
(* for the answer (getUserInfo).  Both keep what they have learnt.         *)
(*                                                                         *)
(* The searches, the publishing of the user's own information and the     *)
(* change of the password are calls of the library by the GUI thread.      *)
(*                                                                         *)
(* A cancelled thread ends where it next sends or sleeps.  A dialog that   *)
(* is deleted is not modelled any further: what a thread does to it is     *)
(* undefined, and only noted in faults.                                    *)
(***************************************************************************)
EXTENDS Searches

CONSTANTS
  Contacts,          \* their numbers
  Tells,             \* what each of them tells, one thing after the other
  my_uin,
  Mine,              \* what the user publishes
  Criteria,          \* what is searched for
  new_password,
  MaxDialogs,        \* bound: dialogs opened
  MaxActs            \* bound: these, contacts to be added and ends of the connection, together

ASSUME UserInfoAssumption ==
  /\ Contacts \subseteq Nat \ {0} /\ my_uin \in Nat
  /\ Online \subseteq Contacts /\ \A info \in Criteria \cup {Mine} : DOMAIN info = DOMAIN NoCriteria
  /\ DOMAIN Tells = Contacts /\ \A c \in Contacts : Tells[c] # <<>>
  /\ {MaxDialogs, MaxActs} \subseteq Nat

VARIABLES
  tells,               \* what each contact tells
  stream,              \* what is on its way from the server
  sock,                \* there is a connection
  network_break_flag,
  snac_cache,
  snac_seq_number,
  userfullinfo_map, userinfo_map,
  gui,                 \* what the GUI thread does
  question,            \* the request, or the contact, of the question
  dialog,              \* the open dialog
  dialogs,             \* dialogs made: the last one is dlgUserInfo
  threads,             \* getInfo of each dialog
  mine, password,      \* the user's own information and password at the server
  call, result,        \* a call of the library, with its request, and what has come of it
  told,                \* history: all that each contact has told
  added,               \* history: contacts that were added, with their nicks
  acts,                \* counter of the bound
  faults               \* history: what has come between, see below

network == <<stream, sock, network_break_flag>>
numbers == <<snac_cache, snac_seq_number>>
maps    == <<userfullinfo_map, userinfo_map>>
ui      == <<gui, question, dialog, dialogs, added>>
world   == <<tells, told, acts>>
server  == <<mine, password>>
calls   == <<call, result>>
vars    == <<network, numbers, maps, ui, threads, world, server, calls, faults>>

\* "refused"  the server has not served a request
\* "lost"     the connection has ended
\* "timeout"  an answer has not come in 50 seconds
\* "unset"    a dialog was closed whose pthreadExit was true and whose thread ran
\* "late"     a thread did more than end after it was cancelled, or was past where it could
\* "stray"    a thread has changed a dialog that is not its own
Faults == {"refused", "lost", "timeout", "unset", "late", "stray"}

Nobody   == 0
NoDialog == [uin |-> Nobody]
NoThread == [at |-> "none"]

ThreadsOf == 1 .. MaxDialogs
MayAct    == acts < MaxActs

-----------------------------------------------------------------------------
(* The contacts and the server *)

Changes ==
  /\ \E c \in Contacts :
       /\ told[c] # Tells[c]
       /\ told' = [told EXCEPT ![c] = SubSeq(Tells[c], 1, Len(@) + 1)]
       /\ tells' = [tells EXCEPT ![c] = Last(told'[c])]
  /\ UNCHANGED <<acts, network, numbers, maps, ui, threads, faults, server, calls>>

\* What the server does not serve is answered by one part with another result.
NothingTold == [values |-> <<>>, parts |-> <<[subtype |-> 200, fields |-> 0]>>]

\* Some packets that answer a request.
Answers(req_id, packets) ==
  [i \in DOMAIN packets |-> [req_id |-> req_id, more |-> i < Len(packets), packet |-> packets[i]]]

\* The parts of an answer, of which the short one has a single one.
Answer(req_id, short, t, result_code) ==
  Answers(req_id, [i \in DOMAIN IF short THEN <<1>> ELSE t.parts |->
                     [short |-> short, part |-> t.parts[i], t |-> t, result_code |-> result_code]])

PacketBytes(p) ==
  IF "data" \in DOMAIN p THEN p.data
  ELSE IF p.short THEN ShortBytes(p.result_code, my_uin, Known(p.t))
  ELSE PartBytes(p.part, p.result_code, my_uin, Known(p.t))

AnswerBytes(a) ==
  SNACBytes([service_id |-> 21, subtype_id |-> 3, flags |-> IF a.more THEN 1 ELSE 0,
             req_id |-> a.req_id, data |-> PacketBytes(a.packet)])

\* A request is for the full information or the short one.  At most one is not served,
\* which is a bound, and those that make no sense.
ServesInfo(req_id, v) ==
  \E uin \in {LEDWordAt(v, 16)}, short \in {Cut(v, 14, 2) = <<186, 4>>} :
    \/ /\ uin \in Contacts
       /\ stream' = stream \o Answer(req_id, short, tells[uin], 10)
       /\ UNCHANGED faults
    \/ /\ uin \notin Contacts \/ "refused" \notin faults
       /\ stream' = stream \o Answer(req_id, short, NothingTold, 20)
       /\ faults' = faults \cup {"refused"}

\* The user's own information and password are taken over or not.
ServesChange(req_id, kind, becomes) ==
  \/ /\ becomes
     /\ stream' = stream \o Answers(req_id, <<[data |-> AckBytes(my_uin, kind, 10)]>>)
     /\ UNCHANGED faults
  \/ /\ UNCHANGED server
     /\ stream' = stream \o Answers(req_id, <<[data |-> AckBytes(my_uin, kind, 20)]>>)
     /\ faults' = faults \cup {"refused"}

\* An answer for each that is found.
ServesSearch(req_id, found) ==
  LET n == Len(found)
  IN  /\ stream' = stream \o Answers(req_id,
           IF n = 0 THEN <<[data |-> SearchBytes(my_uin, TRUE, <<>>)]>>
           ELSE [i \in DOMAIN found |->
                   [data |-> SearchBytes(my_uin, i = n, FoundBytes(found[i], Known(tells[found[i]])))]])
      /\ UNCHANGED <<server, faults>>

Serves(req_id, v) ==
  \/ KindOf(v) \notin {CLI_SET_FULLINFO, META_SET_PASSWORD, META_SEARCH_BY_UIN_TLV,
                       CLI_WHITE_PAGES_SEARCH2}
     /\ ServesInfo(req_id, v) /\ UNCHANGED server
  \/ /\ KindOf(v) = CLI_SET_FULLINFO
     /\ ServesChange(req_id, SET_FULLINFO_ACK,
                     mine' = Received(Body(v)) @@ NoInfo /\ UNCHANGED password)
  \/ /\ KindOf(v) = META_SET_PASSWORD
     /\ ServesChange(req_id, SET_PASSWORD_ACK,
                     UNCHANGED mine /\ \E u \in UnpackAsciiz(Body(v), 0) : password' = u.value)
  \/ /\ KindOf(v) = META_SEARCH_BY_UIN_TLV
     /\ ServesSearch(req_id, SelectSeq(<<LEDWordAt(Body(v), 4)>>, LAMBDA c : c \in Contacts))
  \/ /\ KindOf(v) = CLI_WHITE_PAGES_SEARCH2
     /\ \E received \in {Received(Body(v))} : ServesSearch(req_id,
          SetToSeq({c \in Contacts : Fits(c, Known(tells[c]), received)}))

-----------------------------------------------------------------------------
(* The connection *)

\* What nobody waits for any more is left out: its number does not come again.
Awaited(req_id) ==
  \/ gui = "short" /\ question.req_id = req_id
  \/ gui = "call" /\ call.req_id = req_id
  \/ \E n \in ThreadsOf : threads[n].at = "wait" /\ threads[n].req_id = req_id

readSNAC ==
  /\ ~network_break_flag /\ stream # <<>>
  /\ stream' = Tail(stream)
  /\ \E snd \in SNACData(AnswerBytes(Head(stream))) :
       snac_cache' = IF Awaited(snd.req_id) THEN Append(snac_cache, snd) ELSE snac_cache
  /\ UNCHANGED <<sock, network_break_flag, snac_seq_number, maps, ui, threads, world, faults, server, calls>>

\* By the user (breakNetworkOperation), or on its own: then the flag stays down.
Breaks ==
  /\ sock /\ MayAct
  /\ sock' = FALSE
  /\ stream' = <<>>
  /\ network_break_flag' \in {network_break_flag, gui = "idle"}
  /\ acts' = acts + 1
  /\ faults' = faults \cup {"lost"}
  /\ UNCHANGED <<numbers, maps, ui, threads, tells, told, server, calls>>

\* The login is in Login.
Connect ==
  /\ ~sock /\ gui = "idle"
  /\ sock' = TRUE /\ network_break_flag' = FALSE
  /\ UNCHANGED <<stream, numbers, maps, ui, threads, world, faults, server, calls>>

Sends == sock /\ ~network_break_flag

\* The flag is taken down by whoever meets it.
sendSNAC(data) ==
  /\ network_break_flag' = FALSE
  /\ snac_seq_number' = snac_seq_number + 1
  /\ \E v \in {data} :
       IF Sends THEN Serves(snac_seq_number, v) ELSE UNCHANGED <<stream, faults, server>>
  /\ UNCHANGED <<sock, snac_cache>>

\* Where the first answer to a request is in the cache, 0 if there is none.
Found(req_id) ==
  SelectInSeq(snac_cache, LAMBDA snd : snd.service_id = 21 /\ snd.subtype_id = 3 /\ snd.req_id = req_id)

-----------------------------------------------------------------------------
(* The thread of a dialog *)

Own(n) == dialog # NoDialog /\ dialog.no = n

\* What it does to the dialog it finds, and what is noted of it.
Touch(n, d) ==
  /\ dialog' = IF dialog = NoDialog THEN NoDialog ELSE d
  /\ faults' = faults \cup (IF Own(n) THEN {} ELSE {"stray"})
                       \cup (IF threads[n].cancelled THEN {"late"} ELSE {})

Late(n) == faults' = IF threads[n].cancelled THEN faults \cup {"late"} ELSE faults

\* getInfo
Begin(n) ==
  /\ threads[n].at = "new"
  /\ Touch(n, [dialog EXCEPT !.pthreadExit = FALSE])
  /\ threads' = [threads EXCEPT ![n].at = "ask"]
  /\ UNCHANGED <<network, numbers, maps, gui, question, dialogs, added, world, server, calls>>

\* Its end, with nothing more of it than that.
Ended == [at |-> "end", uin |-> Nobody, req_id |-> 0, info |-> <<>>, cancelled |-> FALSE]

\* The number is read from the dialog, whatever is in its place when it is deleted.
Reads(n) == IF Own(n) THEN {dialog.uin} ELSE Contacts \cup {Nobody}

getFullUserInfo(n) ==
  /\ threads[n].at = "ask"
  /\ \E uin \in Reads(n) :
       \/ /\ uin \in DOMAIN userfullinfo_map
          /\ threads' = [threads EXCEPT ![n].at = "show", ![n].info = userfullinfo_map[uin]]
          /\ Late(n)
          /\ UNCHANGED <<network, numbers, server>>
       \/ /\ uin \notin DOMAIN userfullinfo_map
          /\ ~threads[n].cancelled
          /\ sendSNAC(askFullInfo(my_uin, uin))
          /\ threads' = [threads EXCEPT ![n].at = IF Sends THEN "wait" ELSE "exit", ![n].uin = uin,
                                        ![n].req_id = snac_seq_number]
       \/ /\ uin \notin DOMAIN userfullinfo_map
          /\ threads[n].cancelled
          /\ snac_seq_number' = snac_seq_number + 1
          /\ IF network_break_flag
             THEN threads' = [threads EXCEPT ![n].at = "exit"] /\ network_break_flag' = FALSE
             ELSE threads' = [threads EXCEPT ![n] = Ended] /\ UNCHANGED network_break_flag
          /\ UNCHANGED <<stream, sock, snac_cache, faults, server>>
  /\ UNCHANGED <<maps, ui, world, calls>>

\* A map with an entry set.
With(map, uin, info) == [u \in DOMAIN map \cup {uin} |-> IF u = uin THEN info ELSE map[u]]

\* Mutant: the loop over the parts ends with the first.
More_Never(snd) == FALSE

More(snd) == snd.flags % 2 = 1

\* getFullInfo: read is what has been understood of a part, or there is nothing of the kind; with
\* the last part the information is kept.
Understands(n, read, last) ==
  \/ /\ read = {}
     /\ threads' = [threads EXCEPT ![n].at = "exit"]
     /\ UNCHANGED userfullinfo_map
  \/ /\ ~last
     /\ \E info \in read : threads' = [threads EXCEPT ![n].info = info]
     /\ UNCHANGED userfullinfo_map
  \/ /\ last
     /\ \E info \in {("Uin" :> threads[n].uin) @@ r : r \in read} :
          /\ userfullinfo_map' = With(userfullinfo_map, threads[n].uin, info)
          /\ threads' = [threads EXCEPT ![n].at = "show", ![n].info = info]

getFullInfo(n) ==
  /\ threads[n].at = "wait"
  /\ \E i \in {Found(threads[n].req_id)} \ {0} : \E snd \in {snac_cache[i]} :
       /\ snac_cache' = RemoveAt(snac_cache, i)
       /\ \E read \in {ReadPart(snd.data, my_uin, threads[n].info)} :
            Understands(n, read, ~More(snd))
  /\ Late(n)
  /\ UNCHANGED <<network, snac_seq_number, userinfo_map, ui, world, server, calls>>

GivesUp == faults' = IF network_break_flag THEN faults ELSE faults \cup {"timeout"}

\* Mutant: the wait has no limit.
GiveUp_Never(req_id) == network_break_flag

\* waitSNAC has waited for 50 seconds, or sees the flag.
GiveUp(req_id) == Found(req_id) = 0 \/ network_break_flag

\* A thread that does so does not sleep any more.
getFullInfoFails(n) ==
  /\ threads[n].at = "wait" /\ GiveUp(threads[n].req_id)
  /\ threads[n].cancelled => network_break_flag
  /\ threads' = [threads EXCEPT ![n].at = "exit"]
  /\ GivesUp
  /\ UNCHANGED <<network, numbers, maps, ui, world, server, calls>>

\* It is cancelled when it sleeps.
Cancelled(n) ==
  /\ threads[n].at = "wait" /\ threads[n].cancelled /\ Found(threads[n].req_id) = 0
  /\ threads' = [threads EXCEPT ![n] = Ended]
  /\ UNCHANGED <<network, numbers, maps, ui, world, faults, server, calls>>

\* The rows are added to those that are there.
Show(n) ==
  /\ threads[n].at = "show"
  /\ threads' = [threads EXCEPT ![n].at = "exit"]
  /\ Touch(n, [dialog EXCEPT !.shown = Append(@, showInfo(threads[n].info))])
  /\ UNCHANGED <<network, numbers, maps, gui, question, dialogs, added, world, server, calls>>

Exit(n) ==
  /\ threads[n].at = "exit"
  /\ Touch(n, [dialog EXCEPT !.pthreadExit = TRUE])
  /\ threads' = [threads EXCEPT ![n] = Ended]
  /\ UNCHANGED <<network, numbers, maps, gui, question, dialogs, added, world, server, calls>>

getInfo(n) ==
  \/ Begin(n) \/ Show(n) \/ Exit(n) \/ getFullInfoFails(n) \/ Cancelled(n)
  \/ getFullInfo(n) \/ getFullUserInfo(n)

-----------------------------------------------------------------------------
(* The GUI thread *)

\* Bound: when the library has been called, nothing else is begun.
MayBegin == gui = "idle" /\ MayAct /\ call.kind = "none"

\* pthreadExit is not initialised.
menu_userInfo ==
  /\ MayBegin /\ dialogs < MaxDialogs
  /\ \E c \in Contacts, pthreadExit \in BOOLEAN :
       dialog' = [uin |-> c, no |-> dialogs + 1, pthreadExit |-> pthreadExit, shown |-> <<>>]
  /\ dialogs' = dialogs + 1
  /\ threads' = [threads EXCEPT ![dialogs + 1] =
                   [at |-> "new", uin |-> Nobody, req_id |-> 0, info |-> NoInfo, cancelled |-> FALSE]]
  /\ gui' = "dialog"
  /\ acts' = acts + 1
  /\ UNCHANGED <<network, numbers, maps, question, added, tells, told, faults, server, calls>>

\* Mutant: the dialog is left as it is.
Closed_Kept == dialog' = dialog

Closed == dialog' = NoDialog

\* Mutant: the thread goes on.
Cancel_Not == threads

Cancel == [threads EXCEPT ![dialog.no].cancelled = @ \/ ~dialog.pthreadExit]

menu_close ==
  /\ gui = "dialog"
  /\ threads' = Cancel
  /\ faults' = IF dialog.pthreadExit /\ threads[dialog.no].at # "end" THEN faults \cup {"unset"}
               ELSE faults
  /\ Closed /\ gui' = "idle"
  /\ UNCHANGED <<network, numbers, maps, question, dialogs, added, world, server, calls>>

\* addContactToList and getUserInfo: who has been asked for before is known.
addContactToList ==
  /\ MayBegin
  /\ acts' = acts + 1
  /\ \E c \in Contacts :
       /\ question' = [uin |-> c, req_id |-> snac_seq_number]
       /\ IF c \in DOMAIN userinfo_map
          THEN gui' = "question" /\ UNCHANGED <<network, numbers, faults, server>>
          ELSE /\ sendSNAC(askShortInfo(my_uin, c))
               /\ gui' = IF Sends THEN "short" ELSE "idle"
  /\ UNCHANGED <<maps, dialog, dialogs, added, threads, tells, told, calls>>

getShortInfo ==
  /\ gui = "short"
  /\ \E i \in {Found(question.req_id)} \ {0} :
       /\ snac_cache' = RemoveAt(snac_cache, i)
       /\ \E read \in {ReadShort(TLVData(snac_cache[i].data))} :
            \/ read = {} /\ gui' = "idle" /\ UNCHANGED userinfo_map
            \/ /\ gui' = "question"
               /\ \E info \in read : userinfo_map' = With(userinfo_map, question.uin, info)
  /\ UNCHANGED <<network, snac_seq_number, userfullinfo_map, question, dialog, dialogs, added,
                 threads, world, server, calls, faults>>

getShortInfoFails ==
  /\ gui = "short" /\ GiveUp(question.req_id)
  /\ gui' = "idle"
  /\ GivesUp
  /\ UNCHANGED <<network, numbers, maps, question, dialog, dialogs, added, threads, world, server, calls>>

\* A contact that does not tell its nick gets its number for one.
Answered ==
  /\ gui = "question"
  /\ gui' = "idle"
  /\ LET nick == userinfo_map[question.uin].Nickname
         name == IF nick = <<>> THEN Digits(question.uin) ELSE nick
     IN  added' \in {added, added \cup {[uin |-> question.uin, nick |-> name]}}
  /\ UNCHANGED <<network, numbers, maps, question, dialog, dialogs, threads, world, faults, server, calls>>

\* A call of the library.  Bound: nothing else has been begun.
Calls(kind, info, uin, data) ==
  /\ MayBegin /\ acts = 0
  /\ acts' = acts + 1
  /\ sendSNAC(data)
  /\ call' = [kind |-> kind, info |-> info, uin |-> uin, req_id |-> snac_seq_number, known |-> tells]
  /\ result' = [done |-> IF Sends THEN "waits" ELSE "failed", found |-> <<>>]
  /\ gui' = IF Sends THEN "call" ELSE "idle"
  /\ UNCHANGED <<maps, question, dialog, dialogs, added, threads, tells, told>>

Publish == Calls("publish", Mine, Nobody, publicMyInfo(my_uin, Mine))
ChangePassword == Calls("password", NoCriteria, Nobody, changePassword(my_uin, new_password))
SearchUIN ==
  \E uin \in Contacts \cup {my_uin} : Calls("uin", NoCriteria, uin, searchByUIN(my_uin, uin))
SearchWhitePages ==
  \E info \in Criteria : Calls("pages", info, Nobody, searchByWhitePages(my_uin, info))

Returns(done) == gui' = "idle" /\ result' = [result EXCEPT !.done = done]

\* Its answers are collected, those of a search up to the last.
CollectAnswer ==
  /\ gui = "call"
  /\ \E i \in {Found(call.req_id)} \ {0} : \E v \in {TLVData(snac_cache[i].data)} :
       /\ snac_cache' = RemoveAt(snac_cache, i)
       /\ IF call.kind \in {"publish", "password"}
          THEN LET kind == IF call.kind = "publish" THEN SET_FULLINFO_ACK ELSE SET_PASSWORD_ACK
               IN  Returns(IF Acknowledged(v, my_uin, kind) THEN "ok" ELSE "failed")
          ELSE \E read \in {ReadSearchAnswer(v)} :
                 \/ read = {} /\ Returns("failed")
                 \/ \E r \in read :
                      /\ result' = [done |-> IF r.last THEN "ok" ELSE "waits",
                                    found |-> result.found \o r.found]
                      /\ gui' = IF r.last THEN "idle" ELSE "call"
  /\ UNCHANGED <<network, snac_seq_number, maps, question, dialog, dialogs, added, threads, world,
                 server, call, faults>>

CallFails ==
  /\ gui = "call" /\ GiveUp(call.req_id)
  /\ Returns("failed")
  /\ GivesUp
  /\ UNCHANGED <<network, numbers, maps, question, dialog, dialogs, added, threads, world, server, call>>

GUI ==
  \/ Publish \/ ChangePassword \/ SearchUIN \/ SearchWhitePages \/ CollectAnswer \/ CallFails
  \/ menu_userInfo \/ menu_close \/ addContactToList \/ getShortInfo \/ getShortInfoFails \/ Answered

-----------------------------------------------------------------------------

Init ==
  /\ told = [c \in Contacts |-> <<Tells[c][1]>>]
  /\ tells = [c \in Contacts |-> Tells[c][1]]
  /\ stream = <<>> /\ sock = TRUE /\ network_break_flag = FALSE
  /\ snac_cache = <<>> /\ snac_seq_number = 1
  /\ userfullinfo_map = <<>> /\ userinfo_map = <<>>
  /\ gui = "idle" /\ question = [uin |-> Nobody, req_id |-> 0]
  /\ dialog = NoDialog /\ dialogs = 0
  /\ threads = [n \in ThreadsOf |-> NoThread]
  /\ added = {} /\ acts = 0
  /\ mine = NoInfo /\ password = <<>>
  /\ call = [kind |-> "none", req_id |-> 0] /\ result = [done |-> "none", found |-> <<>>]
  /\ faults = {}

Next ==
  \/ Changes \/ readSNAC \/ Breaks \/ Connect \/ GUI
  \/ \E n \in ThreadsOf : getInfo(n)

\* The threads run; the GUI thread does not stop while it waits for an answer.
FairSpec ==
  /\ Init /\ [][Next]_vars
  /\ \A n \in ThreadsOf : WF_vars(getInfo(n))
  /\ WF_vars(getShortInfo \/ getShortInfoFails \/ CollectAnswer \/ CallFails)

-----------------------------------------------------------------------------
(* Properties *)

\* The dialog is there as long as the GUI thread is in it, and its thread is among the threads.
TypeOK ==
  /\ gui \in {"idle", "dialog", "short", "question", "call"}
  /\ gui = "call" <=> result.done = "waits"
  /\ gui = "dialog" <=> dialog # NoDialog
  /\ dialog # NoDialog => /\ dialog.uin \in Contacts /\ dialog.no = dialogs
                          /\ dialog.pthreadExit \in BOOLEAN
                          /\ \A i \in DOMAIN dialog.shown : \A tab \in {"full", "main", "home", "work"} :
                               \A j \in DOMAIN dialog.shown[i][tab] : Len(dialog.shown[i][tab][j]) > 1
  /\ \A n \in ThreadsOf :
       IF n > dialogs THEN threads[n] = NoThread
       ELSE /\ threads[n].at \in {"new", "ask", "wait", "show", "exit", "end"}
            /\ threads[n].cancelled \in BOOLEAN
            /\ threads[n].at \in {"wait", "show"} => DOMAIN NoInfo \subseteq DOMAIN threads[n].info
  /\ DOMAIN userfullinfo_map \subseteq Contacts \cup {Nobody}
  /\ DOMAIN userinfo_map \subseteq Contacts
  /\ {sock, network_break_flag} \subseteq BOOLEAN
  /\ faults \subseteq Faults

\* What is sent of what a contact tells.
Sent(t) ==
  UNION {IF p.subtype = EmailUserInfo THEN {"Emails"}
         ELSE {Layouts[p.subtype][i][1] : i \in 1 .. p.fields} : p \in ToSet(t.parts)}

Whole(c, t) ==
  ("Uin" :> c) @@ [name \in DOMAIN NoInfo |-> IF name \in Sent(t) THEN Known(t)[name] ELSE NoInfo[name]]

\* What is kept of a contact is what it has told at one time, all that was sent of it, or
\* nothing if the server did not serve the request; whatever was lost, cancelled, or asked for
\* by another thread in between (getFullUserInfo, getUserInfo).
KeptWhole ==
  /\ \A u \in DOMAIN userfullinfo_map :
       \/ u \in Contacts /\ \E t \in ToSet(told[u]) : userfullinfo_map[u] = Whole(u, t)
       \/ "refused" \in faults /\ userfullinfo_map[u] = ("Uin" :> u) @@ NoInfo
  /\ \A u \in DOMAIN userinfo_map : \E t \in ToSet(told[u]) :
       \A name \in {"Nickname", "Firstname", "Lastname", "Email", "Gender"} :
         userinfo_map[u][name] = Known(t)[name]

\* If no thread was too late to be cancelled, or not cancelled as pthreadExit was not set yet,
\* none does anything to another's dialog, and a dialog shows its contact, once (ZUserInfo).
OwnDialog ==
  faults \cap {"unset", "late"} = {} =>
    /\ "stray" \notin faults
    /\ dialog # NoDialog =>
         \A i \in DOMAIN dialog.shown :
           i = 1 /\ dialog.shown[i] = showInfo(userfullinfo_map[dialog.uin])

\* A dialog shows its contact when its thread has ended and nothing came between (getInfo).
ShownInTheEnd ==
  faults = {} /\ dialog # NoDialog => (threads[dialog.no].at = "end" => dialog.shown # <<>>)

\* A contact is added with a nick of its own, or its number (addContactToList).
AddedRight ==
  \A a \in added : \E t \in ToSet(told[a.uin]) :
    a.nick = IF Known(t).Nickname = <<>> THEN Digits(a.uin) ELSE Known(t).Nickname

\* What a search looks for.
LooksFor(info, c, known) ==
  /\ \A name \in {"Firstname", "Lastname", "Nickname", "Email", "Homecity", "Homecountry",
                 "Workposition", "Workoccupation", "Gender", "Interest1category", "Interest1"} :
       IsSet(info, name) => known[name] = info[name]
  /\ IsSet(info, "Language1") =>
       info.Language1 \in {known.Language1, known.Language2, known.Language3}
  /\ info.Minage \in 1 .. info.Maxage => known.Age \in info.Minage .. info.Maxage
  /\ info.Searchonline = 1 => c \in Online

FoundIs(f, c, known) ==
  /\ f.Uin = c /\ f.online = (c \in Online) /\ f.Needauth = (known.Auth = 1)
  /\ \A name \in {"Nickname", "Firstname", "Lastname", "Email", "Gender", "Age"} : f[name] = known[name]

\* A call that succeeds has done what it was asked to: the server has the user's information
\* and password as they were given, and those and only those who fit are found, with what
\* they tell (publicMyInfo, changePassword, searchByUIN, searchByWhitePages).
CallsDone ==
  result.done = "ok" =>
    CASE call.kind = "publish"  -> \A name \in PublishedFields : mine[name] = call.info[name]
      [] call.kind = "password" -> password = new_password
      [] OTHER ->
           \A known \in {[c \in Contacts |-> Known(call.known[c])]} :
             LET fit == {c \in Contacts : IF call.kind = "uin" THEN c = call.uin
                                          ELSE LooksFor(call.info, c, known[c])}
             IN  /\ Len(result.found) = Cardinality(fit)
                 /\ \A c \in fit : \E i \in DOMAIN result.found : FoundIs(result.found[i], c, known[c])

InfoRight == KeptWhole /\ OwnDialog /\ ShownInTheEnd /\ AddedRight /\ CallsDone

Waiting == gui \in {"short", "call"} \/ \E n \in ThreadsOf : threads[n].at \notin {"none", "end"}

\* The threads end, and the GUI thread does not wait for ever, whether an answer comes or not
\* (waitSNAC).
InfoEnds == Waiting ~> ~Waiting
=============================================================================
