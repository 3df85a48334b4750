------------------------------- MODULE Texts --------------------------------
(***************************************************************************)
(* What becomes of the texts of a contact: its messages, its requests for  *)
(* authorization and its x-status with title and description.              *)
(*                                                                         *)
(* The contact uses the same program, so that both ends are modelled from  *)
(* the source; UCS-2 messages and requests of the old style come from      *)
(* other programs.  On either side the reader thread handles what comes    *)
(* (pollIncomingEvents, with the slots of ZGui), and the GUI thread does   *)
(* what the user asks for.  The server passes everything on in order.      *)
(*                                                                         *)
(* Title and description of an x-status are treated alike everywhere and   *)
(* are one text here.                                                      *)
(***************************************************************************)
EXTENDS Encodings, Payloads

CONSTANTS
  Letters,              \* texts to send as messages
  Titles,               \* texts to put on an x-status
  Russian,              \* the letters whose bytes can begin a character in UTF-8
  X_STATUS_MAX_BOUND,   \* the last x-status
  MaxActs,              \* bound: what the two users do, and losses of the connection
  LetterActs            \* for how many of these a message counts

ASSUME TextsAssumption == X_STATUS_MAX_BOUND \in Nat \ {0} /\ {MaxActs, LetterActs} \subseteq Nat

VARIABLES
  \* the contact's program
  connected,
  own,             \* xStatus, xStatusTitle and xStatusDescription of ICQKid2
  oldStatus,       \* oldStatus.cfg
  loadOldStatus,
  setting,         \* where setXStatus is, and what it sets
  replying,        \* where sendXStatusNotifyAutoResponse is, and what it has written
  requests,        \* how many requests for the x-status are on their way to it
  \* between the two
  wire,            \* to this program
  \* this program
  running,
  contact,         \* ContactListUins[uen_ind]: xStatus and its texts
  item,            \* the ZContactItem of the contact
  dlgStat,         \* the dialog with the contact's status
  noAutoXTrazRequest,
  shown,           \* the last text that was put into the chat
  \* history and bounds
  letter,          \* the last text sent for it
  chosen, given,   \* the x-status the contact has set last, and all it has ever set
  asked,           \* it was asked for since
  faults, acts

theirs  == <<connected, own, oldStatus, loadOldStatus>>
busy    == <<setting, replying>>
mine    == <<running, contact, item, dlgStat, noAutoXTrazRequest>>
mail    == <<letter, shown>>
history == <<chosen, given>>
vars    == <<theirs, busy, requests, wire, mine, mail, history, asked, faults, acts>>

XStatus(x, text) == [x |-> x, text |-> text]
NoXStatus == XStatus(0, <<>>)

Idle == [step |-> "no", x |-> 0, text |-> <<>>]

\* "torn"   the answer to a request was made while the x-status changed
\* "missed" the x-status changed while the dialog was made
\* "wild"   a widget was used that was never made, or deleted
Faults == {"torn", "missed", "wild"}

Nothing == [way |-> "none", text |-> <<>>]

MayAct == acts < MaxActs /\ acts' = acts + 1
MayWrite == letter = Nothing /\ acts + LetterActs <= MaxActs /\ acts' = acts + LetterActs

-----------------------------------------------------------------------------
(* Messages *)

Me   == <<49, 49>>        \* the numbers of the two users
Them == <<50, 50, 50>>
NoCookie == Fill(8, 0)
AuthReq == 6

\* A packet is on the wire as what its sender makes it of; its bytes are computed when
\* it is read.
Packet(kind, form, text) == [kind |-> kind, form |-> form, text |-> text]

\* The server puts the number of the sender for that of the addressee.
FromThem(v) == <<Len(Them)>> \o Them \o Cut(v, 1 + Byte(v, 0), Len(v) - 1 - Byte(v, 0))

sendMessage(enc_type, text) == wire' = Append(wire, Packet("message", enc_type, text))

MessageBytes(enc_type, text) ==
  LET t == PlainMsg(text)
      bom == CASE enc_type = "UTF8"      ->
                    OutgoingMsg(NoCookie, 2, Me, ExtendedMsgTLVs(Fill(8, 89), 16777343, 8716, t))
               [] enc_type = "LOCAL8BIT" -> OutgoingMsg(NoCookie, 1, Me, SimpleMsgTLVs(3, text))
               [] enc_type = "UCS2BE"    -> OutgoingMsg(NoCookie, 1, Me, SimpleMsgTLVs(2, text))
               [] enc_type = "old"       ->
                    OutgoingMsg(NoCookie, 4, Me, OldStyleMsgTLVs(222, AuthReq, text))
  IN  Forwarded(bom, Them)

\* The user of the other program writes to this one's, who is on-line or will be.
sendMessange ==
  /\ connected /\ MayWrite
  /\ \E mes \in Letters, isUnicodeCap, srv_relay_cap, offline \in BOOLEAN :
       /\ isUnicodeCap /\ ~offline => srv_relay_cap     \* otherwise sendMessage refuses
       /\ IF isUnicodeCap /\ ~offline
          THEN /\ sendMessage("UTF8", utf8(mes))
               /\ letter' = [way |-> "utf8", text |-> mes]
          ELSE /\ IF offline
                  THEN wire' = Append(wire, Packet("stored", "", fromUnicode(mes)))
                  ELSE sendMessage("LOCAL8BIT", fromUnicode(mes))
               /\ letter' = [way |-> "8bit", text |-> mes]
  /\ UNCHANGED <<theirs, busy, requests, mine, shown, history, asked, faults>>

\* The first letters will do.
Answer == [text \in {"You are welcome!", "Sorry :("} |->
             IF text = "Sorry :(" THEN <<83, 111>> ELSE <<89, 111>>]

sendAuthRequest(text) == FromThem(<<Len(Me)>> \o Me \o Word(Len(text)) \o text \o <<0, 0>>)

sendAuthResponse(text, aflag) ==
  FromThem(<<Len(Me)>> \o Me \o <<aflag>> \o Word(Len(text)) \o text \o <<0, 0>>)

slotAuthRequest ==
  /\ connected /\ MayWrite
  /\ \E text \in Letters :
       /\ wire' = Append(wire, Packet("auth", "", utf8(text)))
       /\ letter' = [way |-> "auth", text |-> text]
  /\ UNCHANGED <<theirs, busy, requests, mine, shown, history, asked, faults>>

\* An authorization is given or refused with a fixed text in ASCII.
slotAuthReply ==
  /\ connected /\ MayWrite
  /\ \E text \in {"You are welcome!", "Sorry :("} :
       /\ wire' = Append(wire, Packet("reply", "", Answer[text]))
       /\ letter' = [way |-> "reply", text |-> Answer[text]]
  /\ UNCHANGED <<theirs, busy, requests, mine, shown, history, asked, faults>>

\* Other programs send UCS-2, and requests that begin with the name of the sender.
OldRequest(text) == <<73, 254>> \o fromUnicode(text)

OtherSends ==
  /\ connected /\ MayWrite
  /\ \E text \in Letters :
       \/ /\ sendMessage("UCS2BE", UCS2BE(text))
          /\ letter' = [way |-> "ucs2", text |-> text]
       \/ /\ sendMessage("old", OldRequest(text))
          /\ letter' = [way |-> "old", text |-> text]
  /\ UNCHANGED <<theirs, busy, requests, mine, shown, history, asked, faults>>

\* Everything up to the last byte FE is taken off, but not that byte.
withoutNames(text) ==
  LET fe_pos == {i \in DOMAIN text : text[i] = 254}
  IN  IF fe_pos = {} THEN text
      ELSE SubSeq(text, CHOOSE i \in fe_pos : \A j \in fe_pos : j <= i, Len(text))

\* The text of a message and how it is encoded.
parseIncomingMsg(v) ==
  UNION {CASE bim.channel = 1 ->
                {[enc_type |-> IF sim.charset = 2 THEN "UCS2BE" ELSE "8bit", text |-> sim.text]
                   : sim \in {m \in SimpleMsg(bim.data) : m.charset \in {0, 2, 3}}}
           [] bim.channel = 2 ->
                {[enc_type |-> "8bit", text |-> t.text]
                   : t \in {m \in ExtendedMsg(bim.data) : m.msg_type = Plain}}
           [] bim.channel = 4 ->
                {[enc_type |-> IF osm.msg_type = AuthReq THEN "auth" ELSE "8bit",
                  text |-> IF osm.msg_type = AuthReq THEN withoutNames(osm.text) ELSE osm.text]
                   : osm \in OldStyleMsg(bim.data)}
         : bim \in IncomingMsg(v)}

\* The text behind the number, and here the flag, of the sender.
Reason(v, pos) ==
  IF Len(v) < pos + 2 \/ Len(v) < pos + 2 + WordAt(v, pos) THEN {}
  ELSE {Cut(v, pos + 2, WordAt(v, pos))}

parseAuthRequest(v) == IF v = <<>> THEN {} ELSE Reason(v, 1 + Byte(v, 0))
parseAuthReply(v)   == IF v = <<>> THEN {} ELSE Reason(v, 1 + Byte(v, 0) + 1)

slot_onIncomingMsg(msg) ==
  IF msg.enc_type = "UCS2BE" THEN unicodeToUtf8(msg.text) ELSE strtoqstr(msg.text)

slot_onAuthRequest(text) == strtoqstr(text)
slot_onAuthReply(text) == fromLocal8Bit(text)

\* What the reader shows of a packet.
onIncomingMsg(msg) == IF msg.enc_type = "auth" THEN slot_onAuthRequest(msg.text)
                      ELSE slot_onIncomingMsg(msg)

TextPackets ==
  UNION {{Packet("message", "UTF8", utf8(text)), Packet("message", "LOCAL8BIT", fromUnicode(text)),
          Packet("message", "UCS2BE", UCS2BE(text)), Packet("message", "old", OldRequest(text)),
          Packet("stored", "", fromUnicode(text)), Packet("auth", "", utf8(text))} : text \in Letters}
    \cup {Packet("reply", "", Answer[text]) : text \in DOMAIN Answer}

Read ==
  [p \in TextPackets |->
     CASE p.kind = "stored"  -> {slot_onIncomingMsg([enc_type |-> "8bit", text |-> p.text])}
       [] p.kind = "auth"    ->
            {slot_onAuthRequest(text) : text \in parseAuthRequest(sendAuthRequest(p.text))}
       [] p.kind = "reply"   ->
            {slot_onAuthReply(text) : text \in parseAuthReply(sendAuthResponse(p.text, 1))}
       [] p.kind = "message" ->
            {onIncomingMsg(msg) : msg \in parseIncomingMsg(MessageBytes(p.form, p.text))}]

\* The reader shows a message, live or stored, an authorization request or the reply to one.
ReadText ==
  /\ running /\ wire # <<>> /\ Head(wire).kind \in {"message", "stored", "auth", "reply"}
  /\ LET texts == Read[Head(wire)]
     IN  \/ texts = {} /\ UNCHANGED shown
         \/ shown' \in texts
  /\ wire' = Tail(wire)
  /\ UNCHANGED <<theirs, busy, requests, mine, letter, history, asked, faults, acts>>

-----------------------------------------------------------------------------
(* The contact sets its x-status *)

\* ZICQ::setXStatus writes it to the file and has ICQKid2 set it.
setXStatus ==
  /\ setting = Idle /\ MayAct
  /\ \E x \in 0 .. X_STATUS_MAX_BOUND, text \in Titles \cup {<<>>} :
       LET new == XStatus(x, text)
       IN  /\ (x = 0) <=> (text = <<>>)
           /\ oldStatus' = new /\ chosen' = new /\ given' = given \cup {new}
           /\ setting' = [step |-> "x", x |-> x, text |-> utf8(text)]
  /\ asked' = FALSE
  /\ UNCHANGED <<connected, own, loadOldStatus, replying, requests, wire, mine, mail, faults>>

setXStatus_x ==
  /\ setting.step = "x"
  /\ own' = [own EXCEPT !.x = setting.x]
  /\ setting' = [setting EXCEPT !.step = "text"]
  /\ UNCHANGED <<connected, oldStatus, loadOldStatus, replying, requests, wire, mine, mail,
                 history, asked, faults, acts>>

setXStatus_text ==
  /\ setting.step = "text"
  /\ own' = [own EXCEPT !.text = setting.text]
  /\ setting' = [setting EXCEPT !.step = "send"]
  /\ UNCHANGED <<connected, oldStatus, loadOldStatus, replying, requests, wire, mine, mail,
                 history, asked, faults, acts>>

\* The capability of the x-status is among the others; the server passes it on.
Notice == Packet("look", own.x, <<>>)

sendLocationInfo ==
  /\ setting.step = "send"
  /\ wire' = IF connected THEN Append(wire, Notice) ELSE wire
  /\ setting' = Idle
  /\ UNCHANGED <<theirs, replying, requests, mine, mail, history, asked, faults, acts>>

-----------------------------------------------------------------------------
(* and answers requests for it *)

\* All requests are alike.
Request ==
  LET cookie == Fill(8, 171)
      ex_msg == ExtendedMsgTLVs(cookie, 0, 0, PluginMsg(XtrazRequest(Me)))
  IN  Forwarded(OutgoingMsg(cookie, 2, Them, ex_msg), Me)

\* A request must be from the one it names.
IsRequest ==
  \E bim \in IncomingMsg(Request) : \E t \in ExtendedMsg(bim.data) :
    t.msg_type = Plugin /\ bim.uin \in parseXtrazRequest(t.script)

\* The reader gets a request and starts to answer it, if there is an x-status.
ReadXtrazRequest ==
  /\ connected /\ requests > 0 /\ replying = Idle
  /\ requests' = requests - 1
  /\ replying' = IF own.x = 0 \/ own.x > X_STATUS_MAX_BOUND \/ ~IsRequest THEN Idle
                 ELSE [Idle EXCEPT !.step = "x"]
  /\ UNCHANGED <<theirs, setting, wire, mine, mail, history, asked, faults, acts>>

\* It writes number and texts one after the other.
sendXStatusNotifyAutoResponse ==
  /\ \/ replying.step = "x" /\ replying' = [replying EXCEPT !.step = "text", !.x = own.x]
     \/ replying.step = "text" /\ replying' = [replying EXCEPT !.step = "send", !.text = own.text]
  /\ UNCHANGED <<theirs, setting, requests, wire, mine, mail, history, asked, faults, acts>>

\* Cookie, channel, number and reason come before the script.
AutoResponse(x, text) ==
  LET header == Fill(8, 171) \o <<0, 2>>
      script == XtrazResponse(Them, x, text, text)
  IN  header \o FromThem(<<Len(Me)>> \o Me \o <<0, 3>> \o TLV2711Bytes(PluginMsg(script)))

sendXStatusNotifyAutoResponse_send ==
  /\ replying.step = "send"
  /\ wire' = Append(wire, Packet("xtraz", replying.x, replying.text))
  /\ replying' = Idle
  /\ LET written == XStatus(replying.x, fromUtf8(replying.text))
     IN  faults' = IF written # chosen /\ (setting = Idle \/ written \notin given)
                   THEN faults \cup {"torn"} ELSE faults
  /\ UNCHANGED <<theirs, setting, requests, mine, mail, history, asked, acts>>

-----------------------------------------------------------------------------
(* Its connection *)

\* The connection is lost, or the program ends.
Disconnects ==
  /\ connected /\ setting = Idle /\ MayAct
  /\ connected' = FALSE
  /\ \E ends \in BOOLEAN :
       /\ own' = IF ends THEN NoXStatus ELSE own
       /\ chosen' = IF ends THEN NoXStatus ELSE chosen
  /\ replying' = Idle /\ requests' = 0 /\ asked' = FALSE
  /\ UNCHANGED <<oldStatus, loadOldStatus, setting, wire, mine, mail, given, faults>>

\* The login sends the x-status there is, and then the one of the file is set.
Connect ==
  /\ ~connected /\ setting = Idle
  /\ connected' = TRUE
  /\ wire' = Append(wire, Notice)
  /\ IF loadOldStatus /\ oldStatus.x > 0
     THEN /\ setting' = [step |-> "x", x |-> oldStatus.x, text |-> utf8(oldStatus.text)]
          /\ chosen' = oldStatus
     ELSE UNCHANGED <<setting, chosen>>
  /\ UNCHANGED <<own, oldStatus, loadOldStatus, replying, requests, mine, mail, given, asked,
                 faults, acts>>

-----------------------------------------------------------------------------
(* This program takes it over *)

sendXtrazRequest ==
  /\ requests' = IF connected THEN requests + 1 ELSE requests
  /\ asked' = (connected /\ setting = Idle)

\* The item remembers the x-status it shows, less one.
setStatusX(it, x) ==
  IF it.xStatus = x THEN it
  ELSE IF x # 0 THEN [xStatus |-> x - 1, icon |-> x]
  ELSE [xStatus |-> 0, icon |-> 0]

NewItem(x) == setStatusX([xStatus |-> -1, icon |-> 0], x)

\* A widget that does not exist: nothing happens, or the program ends.
Undefined ==
  /\ faults' = faults \cup {"wild"}
  /\ running' \in BOOLEAN
  /\ UNCHANGED dlgStat

slot_onXstatusChanged(x, text) ==
  /\ item' = setStatusX(item, x)
  /\ CASE dlgStat.step = "no" -> UNCHANGED <<running, dlgStat, faults>>
       [] dlgStat.step = "new" ->
            /\ faults' = faults \cup {"missed"}
            /\ UNCHANGED <<running, dlgStat>>
       [] dlgStat.step = "open" /\ dlgStat.title ->
            /\ dlgStat' = [dlgStat EXCEPT !.text = strtoqstr(text)]
            /\ UNCHANGED <<running, faults>>
       [] OTHER -> Undefined

Takes(xs) ==
  /\ contact' = xs
  /\ slot_onXstatusChanged(xs.x, xs.text)

Leaves == UNCHANGED <<running, contact, item, dlgStat, faults>>

\* What a notice with this x-status does: ask for its texts, or take the number.
parseOnlineNotify_KeepsText(ico_num) ==
  IF ico_num > 0 /\ ~noAutoXTrazRequest
  THEN sendXtrazRequest /\ Leaves
  ELSE /\ UNCHANGED <<requests, asked>>
       /\ IF contact.x # ico_num /\ ico_num < X_STATUS_MAX_BOUND
          THEN Takes([contact EXCEPT !.x = ico_num]) ELSE Leaves

parseOnlineNotify(ico_num) ==
  IF ico_num > 0 /\ ~noAutoXTrazRequest
  THEN sendXtrazRequest /\ Leaves
  ELSE /\ UNCHANGED <<requests, asked>>
       /\ IF \/ ico_num > 0 /\ ico_num < X_STATUS_MAX_BOUND /\ contact.x # ico_num
             \/ ico_num = 0 /\ contact # NoXStatus
          THEN Takes(XStatus(ico_num, <<>>)) ELSE Leaves

ReadNotice ==
  /\ running /\ wire # <<>> /\ Head(wire).kind = "look"
  /\ parseOnlineNotify(Head(wire).form)
  /\ wire' = Tail(wire)
  /\ UNCHANGED <<theirs, busy, noAutoXTrazRequest, mail, history, acts>>

\* An answer counts if it tells of an x-status before the last one.
XtrazAnswer(v) ==
  LET uin_len == Byte(v, 10)
  IN  IF \/ Len(v) < 11 \/ Byte(v, 9) # 2 \/ Len(v) < 14 + uin_len
         \/ Byte(v, 12 + uin_len) # 3
      THEN {}
      ELSE {r \in UNION {parseXtrazResponse(t.script) : t \in TLV2711(v, 13 + uin_len)}
              : r.x < X_STATUS_MAX_BOUND}

Answers ==
  [x \in 0 .. X_STATUS_MAX_BOUND |->
     [text \in {utf8(title) : title \in Titles \cup {<<>>}} |-> XtrazAnswer(AutoResponse(x, text))]]

ReadXtrazResponse ==
  /\ running /\ wire # <<>> /\ Head(wire).kind = "xtraz"
  /\ LET told == {XStatus(IF r.x # 0 THEN r.x ELSE contact.x, r.title)
                     : r \in Answers[Head(wire).form][Head(wire).text]}
     IN  \/ \E xs \in told \ {contact} : Takes(xs)
         \/ told \subseteq {contact} /\ Leaves
  /\ wire' = Tail(wire)
  /\ UNCHANGED <<theirs, busy, requests, noAutoXTrazRequest, mail, history, asked, acts>>

-----------------------------------------------------------------------------
(* and shows it *)

Reading == <<46, 46, 46>>
Closed == [step |-> "no", title |-> FALSE, text |-> <<>>]

\* The dialog has a title if the contact has an x-status.  If the title is not
\* known it is asked for.
ZStatusInfo ==
  /\ running /\ dlgStat = Closed /\ MayAct
  /\ LET title == contact.x # 0
         asks == title /\ noAutoXTrazRequest /\ contact.text = <<>>
     IN  /\ dlgStat' = [step |-> "new", title |-> title,
                        text |-> IF asks THEN Reading
                                 ELSE IF title THEN fromUtf8(contact.text) ELSE <<>>]
         /\ IF asks THEN sendXtrazRequest ELSE UNCHANGED <<requests, asked>>
  /\ UNCHANGED <<theirs, busy, wire, running, contact, item, noAutoXTrazRequest, mail, history,
                 faults>>

\* The dialog is known to the slot once it is made, until it has been deleted.
menu_showXStatus ==
  /\ running
  /\ \/ dlgStat.step = "new" /\ dlgStat' = [dlgStat EXCEPT !.step = "open"]
     \/ dlgStat.step = "open" /\ dlgStat' = [dlgStat EXCEPT !.step = "deleted"]
     \/ dlgStat.step = "deleted" /\ dlgStat' = Closed
  /\ UNCHANGED <<theirs, busy, requests, wire, running, contact, item, noAutoXTrazRequest, mail,
                 history, asked, faults, acts>>

menu_request ==
  /\ running /\ dlgStat.step = "open" /\ MayAct
  /\ sendXtrazRequest
  /\ UNCHANGED <<theirs, busy, wire, mine, mail, history, faults>>

\* The list is made anew.
icqAddUser ==
  /\ running /\ MayAct
  /\ item' = NewItem(contact.x)
  /\ UNCHANGED <<theirs, busy, requests, wire, running, contact, dlgStat, noAutoXTrazRequest, mail,
                 history, asked, faults>>

-----------------------------------------------------------------------------
Init ==
  /\ connected = TRUE /\ own = NoXStatus /\ oldStatus = NoXStatus /\ loadOldStatus \in BOOLEAN
  /\ setting = Idle /\ replying = Idle /\ requests = 0 /\ wire = <<>>
  /\ running = TRUE /\ contact = NoXStatus /\ item = NewItem(0) /\ dlgStat = Closed
  /\ noAutoXTrazRequest \in BOOLEAN
  /\ letter = Nothing /\ shown = <<>>
  /\ chosen = NoXStatus /\ given = {NoXStatus} /\ asked = FALSE
  /\ faults = {} /\ acts = 0

Sets     == setXStatus_x \/ setXStatus_text \/ sendLocationInfo
Responds == ReadXtrazRequest \/ sendXStatusNotifyAutoResponse \/ sendXStatusNotifyAutoResponse_send
Reads    == ReadText \/ ReadNotice \/ ReadXtrazResponse
Users    == \/ sendMessange \/ slotAuthRequest \/ slotAuthReply \/ OtherSends
            \/ setXStatus \/ Disconnects \/ ZStatusInfo \/ menu_request \/ icqAddUser

Next == Sets \/ Responds \/ Reads \/ menu_showXStatus \/ Connect \/ Users

\* Threads run on, and a program that has lost the connection connects again.  The
\* user need not close the dialog.  The reader's steps are those that take a packet.
Fairness ==
  /\ WF_vars(Sets) /\ WF_vars(Responds) /\ WF_vars(Connect)
  /\ WF_wire(running /\ wire # <<>> /\ wire' = Tail(wire))
  /\ WF_vars(menu_showXStatus /\ dlgStat.step # "open")

FairSpec == Init /\ [][Next]_vars /\ Fairness

-----------------------------------------------------------------------------
(* Properties *)

\* In the code page the text can be taken for UTF-8: some of its letters are
\* followed by signs, and none of them by a letter or an ASCII character.
Ambiguous(text) ==
  LET signs == {CodePage[b] : b \in DOMAIN CodePage \cap Follow}
      leads == {i \in 1 .. Len(text) - 1 : text[i] \in Russian}
  IN  leads # {} /\ \A i \in leads : text[i + 1] \in signs

InCodePage(text) == [i \in DOMAIN text |-> IF InPage(text[i]) THEN text[i] ELSE 63]

\* The user reads what was written.  Characters the code page does not have are lost
\* where it is used, and there a text that passes for UTF-8 is not understood; an
\* old-style request may have a stray character in front.
TextArrives ==
  letter # Nothing /\ (\A i \in DOMAIN wire : wire[i].kind \in {"look", "xtraz"}) =>
    CASE letter.way \in {"utf8", "auth", "reply", "ucs2"} -> shown = letter.text
      [] letter.way = "8bit" -> Ambiguous(letter.text) \/ shown = InCodePage(letter.text)
      [] letter.way = "old" -> \/ Ambiguous(letter.text)
                               \/ IsSuffix(InCodePage(letter.text), shown)

\* The texts shown under an x-status are ones the contact has set with it.
Matches ==
  contact.text # <<>> /\ "torn" \notin faults =>
    XStatus(contact.x, fromUtf8(contact.text)) \in given

\* This program knows the x-status the contact has, but for the last one there is,
\* and its texts if it asks for them.
Knows ==
  \/ "torn" \in faults \/ chosen.x = X_STATUS_MAX_BOUND
  \/ /\ contact.x = chosen.x
     /\ ~noAutoXTrazRequest \/ asked => fromUtf8(contact.text) = chosen.text

\* The list shows it, or else the icon of the x-status that follows; and so does the
\* dialog.
Shows ==
  /\ item.icon \in {contact.x, contact.x + 1}
  /\ dlgStat.step = "open" /\ dlgStat.title /\ "missed" \notin faults =>
       dlgStat.text \in {fromUtf8(contact.text), Reading}

\* The contact's x-status is shown with texts that belong to it, and in the end,
\* when the contact lets it be, as it is.
XStatusArrives ==
  /\ [](Matches /\ ("wild" \notin faults => Shows))
  /\ <>[]("wild" \in faults \/ Knows)
=============================================================================
