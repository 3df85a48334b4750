------------------------------ MODULE Payloads ------------------------------
(***************************************************************************)
(* What is in the packets: SNACs, TLVs, contact lists and messages as      *)
(* sequences of bytes.                                                     *)
(* Positions count from 0, as in the source.  A decoder gives the set of   *)
(* what it reads: one value, or none when it refuses the bytes.            *)
(*                                                                         *)
(* The strings the program only compares as a whole (the tags and names in *)
(* a script, the name of a plug-in) are one symbol each, above the bytes.  *)
(* Bytes that are never set are 0, and the colours and the guid of a       *)
(* plain message, which are read and not used, are left out of what is     *)
(* read.                                                                   *)
(***************************************************************************)
EXTENDS Integers, Sequences, FiniteSets, SequencesExt

-----------------------------------------------------------------------------
(* Numbers and parts *)

Fill(n, b) == [i \in 1 .. n |-> b]
Word(n) == <<(n \div 256) % 256, n % 256>>
DWord(n) == Word(n \div 65536) \o Word(n)
LE(bytes) == Reverse(bytes)

Cut(v, pos, n) == SubSeq(v, pos + 1, pos + n)
Byte(v, pos) == v[pos + 1]
WordAt(v, pos) == 256 * v[pos + 1] + v[pos + 2]
DWordAt(v, pos) == 65536 * WordAt(v, pos) + WordAt(v, pos + 2)
LEWordAt(v, pos) == 256 * v[pos + 2] + v[pos + 1]
LEDWordAt(v, pos) == 65536 * LEWordAt(v, pos + 2) + LEWordAt(v, pos)

-----------------------------------------------------------------------------
(* SNACs and TLVs *)

SNACBytes(snd) ==
  Word(snd.service_id) \o Word(snd.subtype_id) \o Word(snd.flags) \o DWord(snd.req_id) \o snd.data

SNACData(v) ==
  IF Len(v) < 10 THEN {}
  ELSE {[service_id |-> WordAt(v, 0), subtype_id |-> WordAt(v, 2), flags |-> WordAt(v, 4),
         req_id |-> DWordAt(v, 6), data |-> Cut(v, 10, Len(v) - 10)]}

TLV(type, data) == [type |-> type, data |-> data]

TLVBytes(tlv) == Word(tlv.type) \o Word(Len(tlv.data)) \o tlv.data

TLVField(v, pos) ==
  IF Len(v) < pos + 4 \/ Len(v) < pos + 4 + WordAt(v, pos + 2) THEN {}
  ELSE {TLV(WordAt(v, pos), Cut(v, pos + 4, WordAt(v, pos + 2)))}

AfterTLV(pos, tlv) == pos + 4 + Len(tlv.data)

PackBytes(tlvs) == FlattenSeq([i \in DOMAIN tlvs |-> TLVBytes(tlvs[i])])

\* All TLVs from a position on.
TLVPack(v, pos) ==
  LET pack[p \in Nat] ==
        IF p >= Len(v) THEN {<<>>}
        ELSE UNION {{<<tlv>> \o tlvs : tlvs \in pack[AfterTLV(p, tlv)]} : tlv \in TLVField(v, p)}
  IN  pack[pos]

\* The first one of a type.
findTLV(tlvs, type) ==
  {tlvs[i] : i \in {j \in DOMAIN tlvs : /\ tlvs[j].type = type
                                        /\ \A k \in 1 .. j - 1 : tlvs[k].type # type}}

\* If there is one it has as many bytes as a number needs.
getAsInt(tlvs, type, size) == \A tlv \in findTLV(tlvs, type) : Len(tlv.data) >= size

-----------------------------------------------------------------------------
(* What the login exchanges *)

SignOnBytes(tlvs) == DWord(1) \o PackBytes(tlvs)

SignOnPacket(v) == IF Len(v) < 4 \/ DWordAt(v, 0) # 1 THEN {} ELSE TLVPack(v, 4)

\* The limits of a channel: 8000 bytes, warning levels up to 999, any number of messages.
ICBMBytes(channel, msg_flags) ==
  Word(channel) \o DWord(msg_flags) \o Word(8000) \o Word(999) \o Word(999) \o DWord(0)

ICBMParameters(v) ==
  IF Len(v) < 16 THEN {} ELSE {[channel |-> WordAt(v, 0), msg_flags |-> DWordAt(v, 2)]}

\* An item of the contact list, its type and payload telling what it is.
SSIItemBytes(item) ==
  LET payload == PackBytes(item.payload)
  IN  Word(Len(item.name)) \o item.name \o Word(item.group_id) \o Word(item.item_id)
        \o Word(item.type) \o Word(Len(payload)) \o payload

\* With the position after it.  A TLV may not reach beyond the payload.
SSIItem(v, pos) ==
  IF Len(v) < pos + 2 \/ Len(v) < pos + 10 + WordAt(v, pos) THEN {}
  ELSE LET name_length == WordAt(v, pos)
           p == pos + 2 + name_length
           end == p + 8 + WordAt(v, p + 6)
       IN  IF Len(v) < end THEN {}
           ELSE {[item |-> [name |-> Cut(v, pos + 2, name_length), group_id |-> WordAt(v, p),
                            item_id |-> WordAt(v, p + 2), type |-> WordAt(v, p + 4),
                            payload |-> tlvs],
                  after |-> end] : tlvs \in TLVPack(Cut(v, 0, end), p + 8)}

\* One part of the list: a version, the items, and the time of the last change.
SSIListBytes(items) ==
  <<0>> \o Word(Len(items)) \o FlattenSeq([i \in DOMAIN items |-> SSIItemBytes(items[i])])
    \o DWord(77)

SSIContactList(v) ==
  IF Len(v) < 3 THEN {}
  ELSE LET read[n \in Nat] ==
             IF n = 0 THEN {[items |-> <<>>, after |-> 3]}
             ELSE UNION {{[items |-> Append(r.items, i.item), after |-> i.after]
                            : i \in SSIItem(v, r.after)} : r \in read[n - 1]}
       IN  {r.items : r \in {s \in read[WordAt(v, 1)] : Len(v) >= s.after + 4}}

-----------------------------------------------------------------------------
(* The envelope of a message *)

OutgoingMsg(cookie, channel, uin, tlvs) ==
  cookie \o Word(channel) \o <<Len(uin)>> \o uin \o PackBytes(tlvs)

\* After the header come the warning level and a number of TLVs that are passed over.
IncomingMsg(v) ==
  IF Len(v) < 15 \/ Len(v) < 11 + Byte(v, 10) THEN {}
  ELSE LET uin_length == Byte(v, 10)
           skipped[n \in Nat] ==
             IF n = 0 THEN {11 + uin_length + 4}
             ELSE UNION {{AfterTLV(p, tlv) : tlv \in TLVField(v, p)} : p \in skipped[n - 1]}
           fix_tlvs_num == WordAt(v, 11 + uin_length + 2)
       IN  {[channel |-> WordAt(v, 8), uin |-> Cut(v, 11, uin_length), data |-> tlvs] :
              tlvs \in UNION {TLVPack(v, p) : p \in skipped[fix_tlvs_num]}}

\* The server puts in the sender and what it knows of it, and takes out the wish to
\* have the message stored (TLV 6).
Forwarded(v, from) ==
  LET wished == UNION {TLVPack(v, 11 + Byte(v, 10))}
      passed == SelectSeq(CHOOSE tlvs \in wished : TRUE, LAMBDA tlv : tlv.type # 6)
  IN  Cut(v, 0, 10) \o <<Len(from)>> \o from \o Word(0) \o Word(1)
        \o PackBytes(<<TLV(1, Word(80))>> \o passed)

-----------------------------------------------------------------------------
(* Plain texts, in channel 1, and in the old form of channel 4 *)

SimpleMsgTLVs(charset, text) ==
  <<TLV(6, <<>>),
    TLV(2, <<5, 1, 0, 1, 1, 1, 1>> \o Word(Len(text) + 4) \o Word(charset) \o Word(0) \o text)>>

\* The length counts the two numbers before the text; too small a one wraps around.
SimpleMsg(tlvs) ==
  UNION {LET v == tlv.data
             pos == 6 + WordAt(v, 2)
             text_len == (WordAt(v, pos) - 4) % 65536
         IN  IF Len(v) < 12 \/ Len(v) < 12 + WordAt(v, 2) \/ Len(v) < pos + 6 + text_len THEN {}
             ELSE {[charset |-> WordAt(v, pos + 2), text |-> Cut(v, pos + 6, text_len)]}
           : tlv \in findTLV(tlvs, 2)}

OldStyleMsgTLVs(sender_uin, msg_type, text) ==
  <<TLV(5, LE(DWord(sender_uin)) \o <<msg_type, 1>> \o LE(Word(Len(text) + 1)) \o text \o <<0>>)>>

OldStyleMsg(tlvs) ==
  UNION {LET v == tlv.data
         IN  IF Len(v) < 9 \/ LEWordAt(v, 6) < 1 \/ Len(v) < 8 + LEWordAt(v, 6) THEN {}
             ELSE {[msg_type |-> Byte(v, 4), text |-> Cut(v, 8, LEWordAt(v, 6) - 1)]}
           : tlv \in findTLV(tlvs, 5)}

-----------------------------------------------------------------------------
(* What clients send each other through the server, in TLV 2711 *)

Plain == 1
Plugin == 26
AutoStatus == 232 .. 236

ServerRelay == <<9, 70, 19, 73, 76, 127, 17, 209, 130, 34, 68, 69, 83, 84, 0, 0>>
xtraz_script_guid == <<59, 96, 179, 239, 216, 42, 108, 69, 164, 224, 156, 90, 94, 103, 232, 101>>
text_guid == <<256>>       \* {0946134E-4C7F-11D1-8222-444553540000}
plug_name == <<257>>       \* Script Plug-in: Remote Notification Arrive

PlainMsg(text) ==
  [version |-> 8, msg_type |-> Plain, priority |-> 1, text |-> text, script |-> <<>>]
PluginMsg(script) ==
  [version |-> 9, msg_type |-> Plugin, priority |-> 0, text |-> <<>>, script |-> script]

TLV2711Bytes(t) ==
  LET plugin_info == 16 + 2 + 4 + Len(plug_name) + 15
  IN  LE(Word(27)) \o LE(Word(t.version)) \o Fill(16, 0)
        \o [Fill(25, 0) EXCEPT ![3] = 3, ![7] = 4, ![10] = 14]
        \o <<t.msg_type, 0>> \o LE(Word(0)) \o LE(Word(t.priority))
        \o LE(Word(Len(t.text) + 1)) \o t.text \o <<0>>
        \o CASE t.msg_type = Plain ->
                  Fill(8, 0) \o LE(DWord(Len(text_guid))) \o text_guid
             [] t.msg_type = Plugin ->
                  LE(Word(plugin_info)) \o xtraz_script_guid \o LE(Word(8))
                    \o LE(DWord(Len(plug_name))) \o plug_name \o [Fill(15, 0) EXCEPT ![3] = 1]
                    \o LE(DWord(Len(t.script) + 4)) \o LE(DWord(Len(t.script))) \o t.script

\* The script of a plug-in, after the text: only notifications can be read.
XtrazScript(v, pos) ==
  IF \/ Len(v) < pos + 24 \/ Cut(v, pos + 2, 16) # xtraz_script_guid \/ LEWordAt(v, pos + 18) # 8
     \/ Len(v) < pos + 24 + LEDWordAt(v, pos + 20) + 15 + 8
  THEN {}
  ELSE LET msg_len == pos + 24 + LEDWordAt(v, pos + 20) + 15 + 4
       IN  {Cut(v, msg_len + 4, LEDWordAt(v, msg_len))}

TLV2711(v, pos) ==
  IF \/ Len(v) < pos + 53 \/ LEWordAt(v, pos) # 27 \/ Cut(v, pos + 4, 16) # Fill(16, 0)
     \/ Byte(v, pos + 45) \notin {Plain, Plugin} \cup AutoStatus
     \/ LEWordAt(v, pos + 51) < 1 \/ Len(v) < pos + 53 + LEWordAt(v, pos + 51)
  THEN {}
  ELSE LET msg_type == Byte(v, pos + 45)
           msg_len == LEWordAt(v, pos + 51)
       IN  {[msg_type |-> msg_type, text |-> Cut(v, pos + 53, msg_len - 1), script |-> script] :
              script \in IF msg_type = Plugin THEN XtrazScript(v, pos + 53 + msg_len) ELSE {<<>>}}

\* The address is written as TLV 3 and read as TLV 4.
RendezVousMsgBytes(cookie, ip, port, t) ==
  Word(0) \o cookie \o ServerRelay
    \o PackBytes(<<TLV(3, DWord(ip)), TLV(5, Word(port)), TLV(10, Word(1)), TLV(15, <<>>),
                   TLV(10001, TLV2711Bytes(t))>>)

RendezVousMsg(v) ==
  IF Len(v) < 26 THEN {}
  ELSE UNION {IF getAsInt(tlvs, 4, 4) /\ getAsInt(tlvs, 5, 2)
              THEN UNION {TLV2711(tlv.data, 0) : tlv \in findTLV(tlvs, 10001)} ELSE {}
                : tlvs \in TLVPack(v, 26)}

ExtendedMsgTLVs(cookie, ip, port, t) == <<TLV(5, RendezVousMsgBytes(cookie, ip, port, t))>>

ExtendedMsg(tlvs) ==
  IF getAsInt(tlvs, 1, 2) /\ \A type \in {6, 15, 3} : getAsInt(tlvs, type, 4)
  THEN UNION {RendezVousMsg(tlv.data) : tlv \in findTLV(tlvs, 5)} ELSE {}

-----------------------------------------------------------------------------
(* The scripts by which an x-status is asked for and told *)

TagNames == <<"<QUERY>", "</QUERY>", "<NOTIFY>", "</NOTIFY>", "<PluginID>", "</PluginID>", "srvMng",
              "<srv>", "<id>", "</id>", "cAwaySrv", "<req>", "AwayStat", "<senderId>", "</senderId>",
              "<RES>", "</RES>", "<uin>", "</uin>", "<index>", "</index>", "<title>", "</title>",
              "<desc>", "</desc>">>

Tags(names) == [i \in DOMAIN names |-> 257 + CHOOSE j \in DOMAIN TagNames : TagNames[j] = names[i]]

XtrazRequest(uin) ==
  Tags(<<"<QUERY>", "<PluginID>", "srvMng", "</PluginID>", "</QUERY>", "<NOTIFY>", "<srv>", "<id>",
         "cAwaySrv", "</id>", "<req>", "<id>", "AwayStat", "</id>", "<senderId>">>)
    \o uin \o Tags(<<"</senderId>", "</NOTIFY>">>)

\* Numbers below 100 are written.
Digits(n) == IF n < 10 THEN <<48 + n>> ELSE <<48 + (n \div 10), 48 + (n % 10)>>
atoi(digits) == FoldLeft(LAMBDA n, d : 10 * n + d - 48, 0, digits)

XtrazResponse(uin, x, title, descr) ==
  Tags(<<"<RES>", "<id>", "cAwaySrv", "</id>", "<uin>">>) \o uin \o Tags(<<"</uin>", "<index>">>)
    \o Digits(x) \o Tags(<<"</index>", "<title>">>) \o title
    \o Tags(<<"</title>", "<desc>">>) \o descr \o Tags(<<"</desc>", "</RES>">>)

\* Where the names occur in the script, one after the other, for the first time after
\* a position.
find(script, names, after) ==
  LET at(p) == Cut(script, p, Len(names)) = Tags(names)
  IN  {p \in after .. Len(script) - Len(names) : at(p) /\ \A q \in after .. p - 1 : ~at(q)}

\* What is between two tags, with the position after it.
Between(script, open, close, after) ==
  UNION {{[text |-> Cut(script, p + Len(open), q - p - Len(open)), after |-> q + 1]
            : q \in find(script, <<close>>, p + Len(open))} : p \in find(script, open, after)}

\* The number of the sender, if it asks for the x-status.
parseXtrazRequest(script) ==
  IF \E name \in {"<QUERY>", "</QUERY>", "<NOTIFY>", "</NOTIFY>"} : find(script, <<name>>, 0) = {}
  THEN {}
  ELSE LET next(read, open, close, word) ==
             UNION {{r \in Between(script, open, close, b.after) : r.text = Tags(<<word>>)} : b \in read}
           plug_id == next({[after |-> 0]}, <<"<PluginID>">>, "</PluginID>", "srvMng")
           serv_id == next(plug_id, <<"<NOTIFY>", "<srv>", "<id>">>, "</id>", "cAwaySrv")
           req_id  == next(serv_id, <<"<req>", "<id>">>, "</id>", "AwayStat")
       IN  UNION {{s.text : s \in Between(script, <<"<senderId>">>, "</senderId>", r.after)} : r \in req_id}

\* Title and description may be missing.
parseXtrazResponse(script) ==
  LET field(open, close, after) ==
        LET b == Between(script, <<open>>, close, after)
        IN  IF b = {} THEN [text |-> <<>>, after |-> 0] ELSE CHOOSE r \in b : TRUE
  IN  IF find(script, <<"<RES>">>, 0) = {} THEN {}
      ELSE UNION {UNION {
             LET title == field("<title>", "</title>", i.after)
             IN  {[uin |-> u.text, x |-> atoi(i.text), title |-> title.text,
                   descr |-> field("<desc>", "</desc>", title.after).text]}
               : i \in Between(script, <<"<index>">>, "</index>", u.after)}
             : u \in Between(script, <<"<uin>">>, "</uin>", 0)}
=============================================================================
