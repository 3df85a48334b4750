--------------------------- MODULE MessagesProofs ---------------------------
(***************************************************************************)
(* Theorems about Messages for any number of messages, looks and losses.   *)
(***************************************************************************)
EXTENDS Messages, SequenceLemmas

-----------------------------------------------------------------------------
(* The types, in parts *)

PhaseT == phase \in Phases

Packets ==
  [kind : {"message"}, m : Theirs] \cup [kind : {"look"}, look : Looks \cup {Offline}]
    \cup [kind : {"stored"}, ms : Seq(Theirs)] \cup [kind : {"x"}, x : 0 .. X_STATUS_MAX_BOUND]

WireT == wire \in Seq(Packets)

RequestsT == requests \in Seq({"OFFLINE_RECIEVE", "OFFLINE_DELETE", "x"})

StoredT ==
  /\ stored \in Seq(Theirs) /\ offl_vec \in Seq(Theirs) /\ reply \in Seq(Seq(Theirs))
  /\ fetch \in {"no", "ask", "wait", "delete", "show"}

CountT == sent \in 0 .. MaxTheirs /\ changes \in 0 .. MaxLooks

Views == [online : BOOLEAN, utf8 : BOOLEAN, relay : BOOLEAN, x : 0 .. X_STATUS_MAX_BOUND]

\* The notice being read is one the contact has given, and read on a connection.
LookT ==
  /\ peer \in Looks \cup {Offline} /\ contact \in Views
  /\ reading \in [step : {"no", "capabilities", "status"}, look : Looks \cup {Offline}]
  /\ reading.step # "no" => Polls /\ reading.look.online
  /\ noAutoXTrazRequest \in BOOLEAN

\* The user's message that is being sent is within the bound.
KeptT ==
  /\ messageList \in Seq(Theirs \cup Mine) /\ history \in Seq(Theirs \cup Mine)
  /\ gui \in {"no", "UTF8", "LOCAL8BIT", "clear", "exit", "quit"}
  /\ count \in 0 .. Len(messageList)
  /\ written \in 0 .. MaxMine
  /\ gui \in {"UTF8", "LOCAL8BIT"} => written < MaxMine

FormT == {chat, text, startTyped, timer} \subseteq BOOLEAN /\ mtn \in {"BEGIN", "FINISH"}

FaultsT == outgoing \in Seq(Mine) /\ got \subseteq Mine /\ faults \subseteq Faults

TypeInv ==
  PhaseT /\ WireT /\ RequestsT /\ StoredT /\ CountT /\ LookT /\ KeptT /\ FormT /\ FaultsT

LEMMA Same ==
  ASSUME TypeInv
  PROVE  /\ UNCHANGED phase => PhaseT'
         /\ UNCHANGED wire => WireT'
         /\ UNCHANGED requests => RequestsT'
         /\ UNCHANGED <<stored, offline>> => StoredT'
         /\ UNCHANGED <<sent, changes>> => CountT'
         /\ UNCHANGED <<phase, peer, reader, noAutoXTrazRequest>> => LookT'
         /\ UNCHANGED <<kept, busy, written>> => KeptT'
         /\ UNCHANGED <<form, mtn>> => FormT'
         /\ UNCHANGED <<ours, faults>> => FaultsT'
  <1> USE DEF TypeInv, offline, reader, kept, busy, form
  <1>1. /\ UNCHANGED phase => PhaseT'
        /\ UNCHANGED wire => WireT'
        /\ UNCHANGED requests => RequestsT'
    BY DEF PhaseT, WireT, RequestsT
  <1>2. UNCHANGED <<stored, offline>> => StoredT'
    BY DEF StoredT
  <1>3. UNCHANGED <<sent, changes>> => CountT'
    BY DEF CountT
  <1>4. UNCHANGED <<phase, peer, reader, noAutoXTrazRequest>> => LookT'
    BY DEF LookT, Polls
  <1>5. UNCHANGED <<kept, busy, written>> => KeptT'
    BY DEF KeptT
  <1>6. UNCHANGED <<form, mtn>> => FormT'
    BY DEF FormT
  <1>7. UNCHANGED <<ours, faults>> => FaultsT'
    BY DEF FaultsT, ours
  <1> QED
    BY <1>1, <1>2, <1>3, <1>4, <1>5, <1>6, <1>7

\* Every kind of packet the server sends.
LEMMA ArePackets ==
  /\ \A m \in Theirs : [kind |-> "message", m |-> m] \in Packets
  /\ \A look \in Looks \cup {Offline} : [kind |-> "look", look |-> look] \in Packets
  /\ \A ms \in Seq(Theirs) : [kind |-> "stored", ms |-> ms] \in Packets
  /\ \A x \in 0 .. X_STATUS_MAX_BOUND : [kind |-> "x", x |-> x] \in Packets
  BY DEF Packets

LEMMA OfPackets ==
  ASSUME NEW p \in Packets
  PROVE  /\ p.kind \in {"message", "look", "stored", "x"}
         /\ p.kind = "message" => p.m \in Theirs
         /\ p.kind = "look" => p.look \in Looks \cup {Offline}
         /\ p.kind = "stored" => p.ms \in Seq(Theirs)
         /\ p.kind = "x" => p.x \in 0 .. X_STATUS_MAX_BOUND
  BY DEF Packets

LEMMA AreViews ==
  /\ \A look \in Looks : look \in Views /\ look.online
  /\ Offline \in Views /\ Offline.x = 0 /\ ~Offline.online
  <1>1. ASSUME NEW look \in Looks PROVE look \in Views /\ look.online
    <2>1. look \in [online : {TRUE}, utf8 : BOOLEAN, relay : BOOLEAN, x : 0 .. X_STATUS_MAX_BOUND]
      BY MessagesAssumption
    <2> QED
      BY <2>1 DEF Views
  <1>2. 0 \in 0 .. X_STATUS_MAX_BOUND
    BY MessagesAssumption
  <1>3. Offline \in Views /\ Offline.x = 0 /\ ~Offline.online
    BY <1>2 DEF Views, Offline
  <1> QED
    BY <1>1, <1>3

LEMMA ViewFields ==
  ASSUME NEW v \in Views
  PROVE  /\ v.x \in 0 .. X_STATUS_MAX_BOUND /\ {v.utf8, v.relay, v.online} \subseteq BOOLEAN
         /\ [v EXCEPT !.utf8 = FALSE, !.relay = FALSE] \in Views
         /\ [v EXCEPT !.online = TRUE] \in Views
  BY DEF Views

LEMMA ChangedView ==
  ASSUME NEW v \in Views, NEW b \in BOOLEAN, NEW c \in BOOLEAN, NEW x \in 0 .. X_STATUS_MAX_BOUND
  PROVE  /\ [v EXCEPT !.x = x] \in Views
         /\ [v EXCEPT !.utf8 = b, !.relay = c] \in Views
         /\ [v EXCEPT !.utf8 = b, !.relay = c, !.x = x] \in Views
  BY DEF Views

LEMMA NextTheirs == ASSUME TypeInv, sent < MaxTheirs PROVE sent + 1 \in 0 .. MaxTheirs /\ sent + 1 \in Theirs
  BY MessagesAssumption DEF TypeInv, CountT, Theirs

LEMMA WireSent ==
  ASSUME TypeInv, NEW p \in Packets, Send(p)
  PROVE  WireT' /\ ToSet(wire') = ToSet(wire) \cup {p}
  BY AppendProperties, ToSetAppend DEF TypeInv, WireT, Send

LEMMA WireRead ==
  ASSUME TypeInv, Received
  PROVE  WireT' /\ Packet \in Packets /\ ToSet(wire) = {Packet} \cup ToSet(wire')
  BY HeadTailProperties, ToSetTail DEF TypeInv, WireT, Received, Packet

LEMMA ListGrows ==
  ASSUME TypeInv, NEW m \in Theirs \cup Mine, messageList' = Append(messageList, m)
  PROVE  /\ messageList' \in Seq(Theirs \cup Mine) /\ Len(messageList') = Len(messageList) + 1
         /\ ToSet(messageList') = ToSet(messageList) \cup {m}
         /\ \A i \in 1 .. count : messageList'[i] = messageList[i]
  BY AppendProperties, ToSetAppend DEF TypeInv, KeptT

LEMMA TypeNext == ASSUME TypeInv, Next PROVE TypeInv'
  <1> USE DEF TypeInv
  <1>1. CASE Changes
    <2>1. WireT'
      <3>1. PICK look \in Looks \cup {Offline} :
              IF Listens THEN Send([kind |-> "look", look |-> look]) ELSE UNCHANGED wire
        BY <1>1 DEF Changes
      <3> QED
        BY <3>1, ArePackets, WireSent, Same
    <2>2. LookT'
      BY <1>1, AreViews DEF Changes, LookT, Views, Polls, PhaseT, Phases, Send, Listens, reader,
         bounds
    <2>3. CountT'
      <3>1. changes < MaxLooks /\ changes' = changes + 1 /\ UNCHANGED sent
        BY <1>1 DEF Changes
      <3> QED
        BY <3>1, MessagesAssumption DEF CountT
    <2>4. PhaseT' /\ RequestsT' /\ StoredT' /\ KeptT' /\ FormT' /\ FaultsT'
      BY <1>1, Same DEF Changes, bounds, Send, Listens
    <2> QED
      BY <2>1, <2>2, <2>3, <2>4
  <1>2. CASE Writes
    <2>1. WireT'
      <3>1. sent' \in Theirs /\ (Send([kind |-> "message", m |-> sent']) \/ UNCHANGED wire)
        BY <1>2, NextTheirs DEF Writes
      <3> QED
        BY <3>1, ArePackets, WireSent, Same
    <2>2. StoredT'
      <3>1. /\ sent' \in Theirs /\ (stored' = Append(stored, sent') \/ UNCHANGED stored)
            /\ UNCHANGED <<fetch, reply, offl_vec>>
        BY <1>2, NextTheirs DEF Writes, offline
      <3>2. Append(stored, sent') \in Seq(Theirs)
        BY <3>1, AppendProperties DEF StoredT
      <3> QED
        BY <3>1, <3>2 DEF StoredT
    <2>3. CountT'
      <3>1. sent < MaxTheirs /\ sent' = sent + 1 /\ UNCHANGED changes
        BY <1>2 DEF Writes
      <3> QED
        BY <3>1, NextTheirs DEF CountT
    <2>4. FaultsT'
      BY <1>2 DEF Writes, FaultsT, Faults, ours, Send, Listens, bounds
    <2>5. PhaseT' /\ RequestsT' /\ LookT' /\ KeptT' /\ FormT'
      BY <1>2, Same DEF Writes, bounds, Send, Listens
    <2> QED
      BY <2>1, <2>2, <2>3, <2>4, <2>5
  <1>3. CASE Serves
    <2>1. WireT'
      <3>1. \/ Send([kind |-> "stored", ms |-> stored])
            \/ Send([kind |-> "x", x |-> peer.x])
            \/ UNCHANGED wire
        BY <1>3 DEF Serves
      <3>2. stored \in Seq(Theirs) /\ peer.x \in 0 .. X_STATUS_MAX_BOUND
        BY AreViews, ViewFields DEF StoredT, LookT
      <3> QED
        BY <3>1, <3>2, ArePackets, WireSent, Same
    <2>2. RequestsT'
      BY <1>3 DEF Serves, RequestsT, Send, bounds
    <2>3. StoredT'
      <3>1. (stored' = <<>> \/ UNCHANGED stored) /\ UNCHANGED <<fetch, reply, offl_vec>>
        BY <1>3 DEF Serves, offline
      <3> QED
        BY <3>1, EmptySeq DEF StoredT
    <2>4. PhaseT' /\ CountT' /\ LookT' /\ KeptT' /\ FormT' /\ FaultsT'
      BY <1>3, Same DEF Serves, others, bounds, Send
    <2> QED
      BY <2>1, <2>2, <2>3, <2>4
  <1>4. CASE Login
    <2>1. PhaseT'
      BY <1>4 DEF Login, PhaseT, Phases, bounds
    <2>2. LookT'
      <3>1. contact' \in Views /\ phase = "off" /\ UNCHANGED <<peer, reading, noAutoXTrazRequest>>
        BY <1>4, AreViews DEF Login, others
      <3> QED
        BY <3>1 DEF LookT, Polls
    <2>3. WireT' /\ RequestsT' /\ StoredT' /\ CountT' /\ KeptT' /\ FormT' /\ FaultsT'
      BY <1>4, Same DEF Login, server, others, bounds
    <2> QED
      BY <2>1, <2>2, <2>3
  <1>5. CASE sendReady
    <2>1. PhaseT'
      BY <1>5 DEF sendReady, PhaseT, Phases, Send, bounds
    <2>2. WireT'
      <3>1. Send([kind |-> "look", look |-> peer]) \/ UNCHANGED wire
        BY <1>5 DEF sendReady
      <3> QED
        BY <3>1, ArePackets, WireSent, Same DEF LookT
    <2>3. LookT'
      BY <1>5, AreViews DEF sendReady, LookT, Views, Polls, PhaseT, Phases, Send, others, reader,
         bounds
    <2>4. RequestsT' /\ StoredT' /\ CountT' /\ KeptT' /\ FormT' /\ FaultsT'
      BY <1>5, Same DEF sendReady, others, bounds, Send
    <2> QED
      BY <2>1, <2>2, <2>3, <2>4
  <1>6. CASE activateSSI
    <2>1. PhaseT'
      BY <1>6 DEF activateSSI, PhaseT, Phases, bounds
    <2>2. LookT'
      BY <1>6, AreViews DEF activateSSI, LookT, Views, Polls, PhaseT, Phases, others, reader,
         bounds
    <2>3. WireT' /\ RequestsT' /\ StoredT' /\ CountT' /\ KeptT' /\ FormT' /\ FaultsT'
      BY <1>6, Same DEF activateSSI, server, others, bounds
    <2> QED
      BY <2>1, <2>2, <2>3
  <1>7. CASE sendStatus
    <2>1. PhaseT'
      BY <1>7 DEF sendStatus, PhaseT, Phases, bounds
    <2>2. LookT'
      BY <1>7, AreViews DEF sendStatus, LookT, Views, Polls, PhaseT, Phases, others, reader,
         bounds
    <2>3. StoredT'
      BY <1>7 DEF sendStatus, StoredT, server, bounds
    <2>4. WireT' /\ RequestsT' /\ CountT' /\ KeptT' /\ FormT' /\ FaultsT'
      BY <1>7, Same DEF sendStatus, server, others, bounds
    <2> QED
      BY <2>1, <2>2, <2>3, <2>4
  <1>8. CASE Drop
    <2>1. PhaseT'
      BY <1>8 DEF Drop, PhaseT, Phases, Dropped, Lost, bounds
    <2>2. WireT'
      BY <1>8, ArePackets, WireSent, WireRead DEF Drop, WireT, Dropped, Lost, bounds
    <2>3. RequestsT'
      BY <1>8 DEF Drop, RequestsT, Dropped, Lost, bounds
    <2>4. FormT'
      BY <1>8 DEF Drop, FormT, Dropped, Lost, form, bounds
    <2>5. LookT'
      <3>1. contact' \in Views /\ reading' = NotReading /\ UNCHANGED <<peer, noAutoXTrazRequest>>
        BY <1>8, AreViews DEF Drop, Dropped, LookT, others
      <3> QED
        BY <3>1 DEF LookT, NotReading
    <2>6. FaultsT'
      <3>1. outgoing' = <<>> /\ got' = got
        BY <1>8 DEF Drop, Dropped
      <3>2. outgoing' \in Seq(Mine) /\ got' \subseteq Mine
        BY <3>1, EmptySeq DEF FaultsT
      <3>3. faults' \subseteq Faults
        BY <1>8 DEF Drop, FaultsT, Faults, Lost
      <3> QED
        BY <3>2, <3>3 DEF FaultsT
    <2>7. StoredT' /\ CountT' /\ KeptT'
      BY <1>8, Same DEF Drop, others, bounds, Dropped, Lost
    <2> QED
      BY <2>1, <2>2, <2>3, <2>4, <2>5, <2>6, <2>7
  <1>9. CASE Cache
    <2>1. WireT'
      BY <1>9, ArePackets, WireSent, WireRead DEF Cache, WireT, Received, Packet, bounds
    <2>2. FaultsT'
      BY <1>9 DEF Cache, FaultsT, Faults, ours, Received, Packet, bounds
    <2>3. PhaseT' /\ RequestsT' /\ StoredT' /\ CountT' /\ LookT' /\ KeptT' /\ FormT'
      BY <1>9, Same DEF Cache, others, bounds, Received, Packet
    <2> QED
      BY <2>1, <2>2, <2>3
  <1>10. CASE slot_onIncomingMsg
    <2>1. WireT'
      BY <1>10, ArePackets, WireSent, WireRead DEF slot_onIncomingMsg, WireT, Received, Packet,
         bounds
    <2>2. KeptT'
      <3>1. /\ Packet.m \in Theirs /\ messageList' = Append(messageList, Packet.m)
            /\ UNCHANGED <<history, busy, written>>
        BY <1>10, WireRead, OfPackets DEF slot_onIncomingMsg, bounds
      <3> QED
        BY <3>1, ListGrows, LenProperties DEF KeptT, busy
    <2>3. PhaseT' /\ RequestsT' /\ StoredT' /\ CountT' /\ LookT' /\ FormT' /\ FaultsT'
      BY <1>10, Same DEF slot_onIncomingMsg, others, bounds, Received, Packet
    <2> QED
      BY <2>1, <2>2, <2>3
  <1>11. CASE AddEntry
    <2>1. WireT'
      BY <1>11, ArePackets, WireSent, WireRead DEF AddEntry, WireT, Received, Packet, bounds
    <2>2. StoredT'
      <3>1. Packet.ms \in Seq(Theirs) /\ reply' = <<Packet.ms>> /\ UNCHANGED <<stored, fetch, offl_vec>>
        BY <1>11, WireRead, OfPackets DEF AddEntry
      <3> QED
        BY <3>1 DEF StoredT
    <2>3. PhaseT' /\ RequestsT' /\ CountT' /\ LookT' /\ KeptT' /\ FormT' /\ FaultsT'
      BY <1>11, Same DEF AddEntry, others, bounds, Received, Packet
    <2> QED
      BY <2>1, <2>2, <2>3
  <1>12. CASE parseXtrazResponse
    <2>1. WireT'
      BY <1>12, ArePackets, WireSent, WireRead DEF parseXtrazResponse, WireT, Received, Packet,
         bounds
    <2>2. LookT'
      <3>1. Packet.x \in 0 .. X_STATUS_MAX_BOUND
        BY <1>12, WireRead, OfPackets DEF parseXtrazResponse
      <3>2. contact' \in Views /\ UNCHANGED <<phase, peer, reading, noAutoXTrazRequest>>
        BY <1>12, <3>1, ChangedView DEF parseXtrazResponse, LookT, others
      <3> QED
        BY <3>2 DEF LookT, Polls
    <2>3. PhaseT' /\ RequestsT' /\ StoredT' /\ CountT' /\ KeptT' /\ FormT' /\ FaultsT'
      BY <1>12, Same DEF parseXtrazResponse, others, bounds, Received, Packet
    <2> QED
      BY <2>1, <2>2, <2>3
  <1>13. CASE OfflineNotify
    <2>1. WireT'
      BY <1>13, ArePackets, WireSent, WireRead DEF OfflineNotify, WireT, Received, Packet, bounds
    <2>2. LookT'
      <3>1. contact.x \in 0 .. X_STATUS_MAX_BOUND
        BY ViewFields DEF LookT
      <3>2. contact' \in Views /\ UNCHANGED <<phase, peer, reading, noAutoXTrazRequest>>
        BY <1>13, <3>1, ChangedView, AreViews DEF OfflineNotify, others
      <3> QED
        BY <3>2 DEF LookT, Polls
    <2>3. PhaseT' /\ RequestsT' /\ StoredT' /\ CountT' /\ KeptT' /\ FormT' /\ FaultsT'
      BY <1>13, Same DEF OfflineNotify, others, bounds, Received, Packet
    <2> QED
      BY <2>1, <2>2, <2>3
  <1>14. CASE parseOnlineNotify
    <2>1. WireT'
      BY <1>14, ArePackets, WireSent, WireRead DEF parseOnlineNotify, WireT, Received, Packet,
         bounds
    <2>2. LookT'
      <3>1. Packet.look \in Looks \cup {Offline} /\ Packet.look.online /\ Polls
        BY <1>14, WireRead, OfPackets DEF parseOnlineNotify
      <3>2. [contact EXCEPT !.utf8 = FALSE, !.relay = FALSE] \in Views
        BY ViewFields DEF LookT
      <3>3. /\ contact' = [contact EXCEPT !.utf8 = FALSE, !.relay = FALSE]
            /\ reading' = [step |-> "capabilities", look |-> Packet.look]
            /\ UNCHANGED <<phase, peer, noAutoXTrazRequest>>
        BY <1>14 DEF parseOnlineNotify, others
      <3> QED
        BY <3>1, <3>2, <3>3 DEF LookT, Polls
    <2>3. PhaseT' /\ RequestsT' /\ StoredT' /\ CountT' /\ KeptT' /\ FormT' /\ FaultsT'
      BY <1>14, Same DEF parseOnlineNotify, others, bounds, Received, Packet
    <2> QED
      BY <2>1, <2>2, <2>3
  <1>15. CASE ReadCapabilities
    <2>1. RequestsT'
      BY <1>15 DEF ReadCapabilities, RequestsT, sendXtrazRequest, bounds
    <2>2. LookT'
      <3>1. reading.look \in Views /\ contact.x \in 0 .. X_STATUS_MAX_BOUND
        BY AreViews, ViewFields DEF LookT
      <3>2. contact' \in Views
        BY <1>15, <3>1, ChangedView, ViewFields DEF ReadCapabilities, LookT
      <3>3. /\ reading' = [reading EXCEPT !.step = "status"] /\ reading.step # "no"
            /\ UNCHANGED <<phase, peer, noAutoXTrazRequest>>
        BY <1>15 DEF ReadCapabilities, others
      <3> QED
        BY <3>2, <3>3 DEF LookT, Polls
    <2>3. PhaseT' /\ WireT' /\ StoredT' /\ CountT' /\ KeptT' /\ FormT' /\ FaultsT'
      BY <1>15, Same DEF ReadCapabilities, others, bounds, sendXtrazRequest
    <2> QED
      BY <2>1, <2>2, <2>3
  <1>16. CASE OnlineNotify
    <2>1. LookT'
      <3>1. [contact EXCEPT !.online = TRUE] \in Views
        BY ViewFields DEF LookT
      <3>2. /\ contact' = [contact EXCEPT !.online = TRUE] /\ reading' = NotReading
            /\ UNCHANGED <<phase, peer, noAutoXTrazRequest>>
        BY <1>16 DEF OnlineNotify, others
      <3> QED
        BY <3>1, <3>2 DEF LookT, NotReading
    <2>2. PhaseT' /\ WireT' /\ RequestsT' /\ StoredT' /\ CountT' /\ KeptT' /\ FormT' /\ FaultsT'
      BY <1>16, Same DEF OnlineNotify, server, others, bounds
    <2> QED
      BY <2>1, <2>2
  <1>17. CASE AskStored
    <2>1. RequestsT'
      BY <1>17 DEF AskStored, RequestsT, askOfflMsgAction, bounds
    <2>2. StoredT'
      BY <1>17 DEF AskStored, StoredT, askOfflMsgAction, bounds
    <2>3. PhaseT' /\ WireT' /\ CountT' /\ LookT' /\ KeptT' /\ FormT' /\ FaultsT'
      BY <1>17, Same DEF AskStored, others, bounds, askOfflMsgAction
    <2> QED
      BY <2>1, <2>2, <2>3
  <1>18. CASE getOfflMsg
    <2>1. StoredT'
      BY <1>18 DEF getOfflMsg, StoredT, server, bounds
    <2>2. PhaseT' /\ WireT' /\ RequestsT' /\ CountT' /\ LookT' /\ KeptT' /\ FormT' /\ FaultsT'
      BY <1>18, Same DEF getOfflMsg, server, others, bounds
    <2> QED
      BY <2>1, <2>2
  <1>19. CASE GiveUp
    <2>1. StoredT'
      BY <1>19 DEF GiveUp, StoredT, server, bounds
    <2>2. PhaseT' /\ WireT' /\ RequestsT' /\ CountT' /\ LookT' /\ KeptT' /\ FormT' /\ FaultsT'
      BY <1>19, Same DEF GiveUp, server, others, bounds
    <2> QED
      BY <2>1, <2>2
  <1>20. CASE DeleteStored
    <2>1. RequestsT'
      BY <1>20 DEF DeleteStored, RequestsT, askOfflMsgAction, bounds
    <2>2. StoredT'
      BY <1>20 DEF DeleteStored, StoredT, askOfflMsgAction, bounds
    <2>3. PhaseT' /\ WireT' /\ CountT' /\ LookT' /\ KeptT' /\ FormT' /\ FaultsT'
      BY <1>20, Same DEF DeleteStored, others, bounds, askOfflMsgAction
    <2> QED
      BY <2>1, <2>2, <2>3
  <1>21. CASE ShowStored
    <2>1. StoredT'
      <3>1. /\ (offl_vec' = Tail(offl_vec) /\ offl_vec # <<>>) \/ UNCHANGED offl_vec
            /\ fetch' \in {"no", "show"} /\ UNCHANGED <<stored, reply>>
        BY <1>21 DEF ShowStored, server
      <3> QED
        BY <3>1, HeadTailProperties DEF StoredT
    <2>2. KeptT'
      <3>1. /\ (messageList' = Append(messageList, Head(offl_vec)) /\ offl_vec # <<>>) \/ UNCHANGED messageList
            /\ UNCHANGED <<history, busy, written>>
        BY <1>21 DEF ShowStored, bounds
      <3>2. offl_vec # <<>> => Head(offl_vec) \in Theirs
        BY HeadTailProperties DEF StoredT
      <3> QED
        BY <3>1, <3>2, ListGrows, LenProperties DEF KeptT, busy
    <2>3. PhaseT' /\ WireT' /\ RequestsT' /\ CountT' /\ LookT' /\ FormT' /\ FaultsT'
      BY <1>21, Same DEF ShowStored, server, others, bounds
    <2> QED
      BY <2>1, <2>2, <2>3
  <1>22. CASE openChat
    <2>1. FormT'
      BY <1>22 DEF openChat, FormT, server, bounds
    <2>2. PhaseT' /\ WireT' /\ RequestsT' /\ StoredT' /\ CountT' /\ LookT' /\ KeptT' /\ FaultsT'
      BY <1>22, Same DEF openChat, server, others, bounds
    <2> QED
      BY <2>1, <2>2
  <1>23. CASE Type
    <2>1. FormT'
      BY <1>23 DEF Type, FormT, mesTextChanged, mesTyped, sendMTN, bounds
    <2>2. PhaseT' /\ WireT' /\ RequestsT' /\ StoredT' /\ CountT' /\ LookT' /\ KeptT' /\ FaultsT'
      BY <1>23, Same DEF Type, others, bounds, mesTextChanged, mesTyped, sendMTN
    <2> QED
      BY <2>1, <2>2
  <1>24. CASE closeChat
    <2>1. FormT'
      BY <1>24 DEF closeChat, FormT, bounds
    <2>2. PhaseT' /\ WireT' /\ RequestsT' /\ StoredT' /\ CountT' /\ LookT' /\ KeptT' /\ FaultsT'
      BY <1>24, Same DEF closeChat, others, bounds
    <2> QED
      BY <2>1, <2>2
  <1>25. CASE sendClick
    <2>1. FormT'
      BY <1>25 DEF sendClick, FormT, mesTextChanged, mesTyped, sendMTN, stopTimerTyped, InChat,
         bounds
    <2>2. KeptT'
      BY <1>25 DEF sendClick, KeptT, Mine, mesTextChanged, mesTyped, sendMTN, stopTimerTyped,
         InChat, kept, bounds
    <2>3. PhaseT' /\ WireT' /\ RequestsT' /\ StoredT' /\ CountT' /\ LookT' /\ FaultsT'
      BY <1>25, Same DEF sendClick, others, bounds, mesTextChanged, mesTyped, sendMTN,
         stopTimerTyped, InChat
    <2> QED
      BY <2>1, <2>2, <2>3
  <1>26. CASE slotClearChat
    <2>1. KeptT'
      <3>1. /\ gui' \in {"clear", "exit"} /\ count' = Len(messageList)
            /\ history' = history \o messageList \/ UNCHANGED history
            /\ UNCHANGED <<messageList, written>>
        BY <1>26 DEF slotClearChat, Save, bounds
      <3>2. history \o messageList \in Seq(Theirs \cup Mine) /\ Len(messageList) \in Nat
        BY ConcatProperties, LenProperties DEF KeptT
      <3>3. history' \in Seq(Theirs \cup Mine)
        BY <3>1, <3>2 DEF KeptT
      <3>4. messageList' = messageList /\ count' \in 0 .. Len(messageList) /\ written' = written
        BY <3>1, <3>2
      <3>5. gui' \notin {"UTF8", "LOCAL8BIT"}
        BY <3>1
      <3> QED
        BY <3>1, <3>3, <3>4, <3>5 DEF KeptT
    <2>2. FaultsT'
      BY <1>26 DEF slotClearChat, FaultsT, Faults, ours, Save, server, bounds
    <2>3. PhaseT' /\ WireT' /\ RequestsT' /\ StoredT' /\ CountT' /\ LookT' /\ FormT'
      BY <1>26, Same DEF slotClearChat, server, others, bounds, Save
    <2> QED
      BY <2>1, <2>2, <2>3
  <1>27. CASE Exit
    <2>1. KeptT'
      <3>1. /\ gui' \in {"clear", "exit"} /\ count' = Len(messageList)
            /\ history' = history \o messageList \/ UNCHANGED history
            /\ UNCHANGED <<messageList, written>>
        BY <1>27 DEF Exit, Save, bounds
      <3>2. history \o messageList \in Seq(Theirs \cup Mine) /\ Len(messageList) \in Nat
        BY ConcatProperties, LenProperties DEF KeptT
      <3>3. history' \in Seq(Theirs \cup Mine)
        BY <3>1, <3>2 DEF KeptT
      <3>4. messageList' = messageList /\ count' \in 0 .. Len(messageList) /\ written' = written
        BY <3>1, <3>2
      <3>5. gui' \notin {"UTF8", "LOCAL8BIT"}
        BY <3>1
      <3> QED
        BY <3>1, <3>3, <3>4, <3>5 DEF KeptT
    <2>2. FaultsT'
      BY <1>27 DEF Exit, FaultsT, Faults, ours, Save, server, bounds
    <2>3. PhaseT' /\ WireT' /\ RequestsT' /\ StoredT' /\ CountT' /\ LookT' /\ FormT'
      BY <1>27, Same DEF Exit, server, others, bounds, Save
    <2> QED
      BY <2>1, <2>2, <2>3
  <1>28. CASE timeDone
    <2>1. FormT'
      BY <1>28 DEF timeDone, FormT, mesTyped, sendMTN, bounds
    <2>2. PhaseT' /\ WireT' /\ RequestsT' /\ StoredT' /\ CountT' /\ LookT' /\ KeptT' /\ FaultsT'
      BY <1>28, Same DEF timeDone, others, bounds, mesTyped, sendMTN
    <2> QED
      BY <2>1, <2>2
  <1>29. CASE sendMessange
    <2>1. FormT'
      BY <1>29 DEF sendMessange, FormT, mesTextChanged, mesTyped, sendMTN, sendMessage, bounds
    <2>2. KeptT'
      <3>1. /\ written < MaxMine /\ MaxTheirs + 1 + written \in Mine
            /\ messageList' = Append(messageList, MaxTheirs + 1 + written) /\ written' = written + 1
            /\ gui' = "no" /\ UNCHANGED <<history, count>>
        BY <1>29, MessagesAssumption DEF sendMessange, KeptT, Mine
      <3> QED
        BY <3>1, ListGrows, LenProperties, MessagesAssumption DEF KeptT
    <2>3. FaultsT'
      <3>1. MaxTheirs + 1 + written \in Mine
        BY <1>29, MessagesAssumption DEF sendMessange, KeptT, Mine
      <3>2. Append(outgoing, MaxTheirs + 1 + written) \in Seq(Mine)
        BY <3>1, AppendProperties DEF FaultsT
      <3>3. outgoing' \in Seq(Mine) /\ got' = got
        BY <1>29, <3>2 DEF sendMessange, sendMessage, ours, FaultsT
      <3>4. faults' \subseteq Faults
        BY <1>29 DEF sendMessange, sendMessage, FaultsT, Faults
      <3> QED
        BY <3>3, <3>4 DEF FaultsT
    <2>4. PhaseT' /\ WireT' /\ RequestsT' /\ StoredT' /\ CountT' /\ LookT'
      BY <1>29, Same DEF sendMessange, others, bounds, mesTextChanged, mesTyped, sendMTN,
         sendMessage
    <2> QED
      BY <2>1, <2>2, <2>3, <2>4
  <1>30. CASE ClearList
    <2>1. KeptT'
      BY <1>30 DEF ClearList, KeptT, Mine, bounds
    <2>2. FaultsT'
      BY <1>30 DEF ClearList, FaultsT, Faults, ours, server, bounds
    <2>3. PhaseT' /\ WireT' /\ RequestsT' /\ StoredT' /\ CountT' /\ LookT' /\ FormT'
      BY <1>30, Same DEF ClearList, server, others, bounds
    <2> QED
      BY <2>1, <2>2, <2>3
  <1>31. CASE Quit
    <2>1. PhaseT'
      BY <1>31 DEF Quit, PhaseT, Phases, Restarted, Dropped, Lost, bounds
    <2>2. WireT'
      BY <1>31, ArePackets, WireSent, WireRead DEF Quit, WireT, Restarted, Dropped, Lost, bounds
    <2>3. RequestsT'
      BY <1>31 DEF Quit, RequestsT, Restarted, Dropped, Lost, bounds
    <2>4. FormT'
      BY <1>31 DEF Quit, FormT, Restarted, Dropped, Lost, bounds
    <2>5. LookT'
      <3>1. contact' \in Views /\ reading' = NotReading /\ UNCHANGED <<peer, noAutoXTrazRequest>>
        BY <1>31, AreViews DEF Quit, Restarted, Dropped, LookT, others
      <3> QED
        BY <3>1 DEF LookT, NotReading
    <2>6. StoredT'
      BY <1>31 DEF Quit, StoredT, Restarted, Dropped, Lost, bounds
    <2>7. KeptT'
      BY <1>31 DEF Quit, KeptT, Mine, Restarted, Dropped, Lost, bounds
    <2>8. FaultsT'
      <3>1. outgoing' = <<>> /\ got' = got
        BY <1>31 DEF Quit, Restarted, Dropped
      <3>2. outgoing' \in Seq(Mine) /\ got' \subseteq Mine
        BY <3>1, EmptySeq DEF FaultsT
      <3>3. faults' \subseteq Faults
        BY <1>31 DEF Quit, FaultsT, Faults, Lost
      <3> QED
        BY <3>2, <3>3 DEF FaultsT
    <2>9. CountT'
      BY <1>31, Same DEF Quit, others, bounds, Restarted, Dropped, Lost
    <2> QED
      BY <2>1, <2>2, <2>3, <2>4, <2>5, <2>6, <2>7, <2>8, <2>9
  <1>32. CASE Crash
    <2>1. PhaseT'
      BY <1>32 DEF Crash, PhaseT, Phases, Restarted, Dropped, Lost, bounds
    <2>2. WireT'
      BY <1>32, ArePackets, WireSent, WireRead DEF Crash, WireT, Restarted, Dropped, Lost, bounds
    <2>3. RequestsT'
      BY <1>32 DEF Crash, RequestsT, Restarted, Dropped, Lost, bounds
    <2>4. FormT'
      BY <1>32 DEF Crash, FormT, Restarted, Dropped, Lost, bounds
    <2>5. LookT'
      <3>1. contact' \in Views /\ reading' = NotReading /\ UNCHANGED <<peer, noAutoXTrazRequest>>
        BY <1>32, AreViews DEF Crash, Restarted, Dropped, LookT, others
      <3> QED
        BY <3>1 DEF LookT, NotReading
    <2>6. StoredT'
      BY <1>32 DEF Crash, StoredT, Restarted, Dropped, Lost, bounds
    <2>7. KeptT'
      BY <1>32 DEF Crash, KeptT, Mine, Restarted, Dropped, Lost, bounds
    <2>8. FaultsT'
      <3>1. outgoing' = <<>> /\ got' = got
        BY <1>32 DEF Crash, Restarted, Dropped
      <3>2. outgoing' \in Seq(Mine) /\ got' \subseteq Mine
        BY <3>1, EmptySeq DEF FaultsT
      <3>3. faults' \subseteq Faults
        BY <1>32 DEF Crash, FaultsT, Faults, Lost
      <3> QED
        BY <3>2, <3>3 DEF FaultsT
    <2>9. CountT'
      BY <1>32, Same DEF Crash, others, bounds, Restarted, Dropped, Lost
    <2> QED
      BY <2>1, <2>2, <2>3, <2>4, <2>5, <2>6, <2>7, <2>8, <2>9
  <1>33. CASE Gets
    <2>1. FaultsT'
      <3>1. outgoing \in Seq(Mine) /\ outgoing # <<>>
        BY <1>33 DEF Gets, FaultsT
      <3>2. Head(outgoing) \in Mine /\ Tail(outgoing) \in Seq(Mine)
        BY <3>1, HeadTailProperties
      <3> QED
        BY <1>33, <3>2 DEF Gets, FaultsT
    <2>2. PhaseT' /\ WireT' /\ RequestsT' /\ StoredT' /\ CountT' /\ LookT' /\ KeptT' /\ FormT'
      BY <1>33, Same DEF Gets, others, bounds
    <2> QED
      BY <2>1, <2>2
  <1> QED
    BY <1>1, <1>2, <1>3, <1>4, <1>5, <1>6, <1>7, <1>8, <1>9, <1>10, <1>11, <1>12, <1>13, <1>14,
       <1>15, <1>16, <1>17, <1>18, <1>19, <1>20, <1>21, <1>22, <1>23, <1>24, <1>25, <1>26,
       <1>27, <1>28, <1>29, <1>30, <1>31, <1>32, <1>33 DEF Next, Reader, getOfflineMessages, User

LEMMA TypeInit == Init => TypeInv
  <1> SUFFICES ASSUME Init PROVE TypeInv
    OBVIOUS
  <1> USE MessagesAssumption, EmptySeq DEF Init
  <1>1. PhaseT /\ WireT /\ RequestsT /\ StoredT
    BY DEF PhaseT, Phases, WireT, RequestsT, StoredT
  <1>2. CountT /\ FaultsT
    BY DEF CountT, FaultsT
  <1>5. FormT
    BY DEF FormT
  <1>3. LookT
    BY AreViews DEF LookT, NotReading
  <1>4. KeptT
    BY DEF KeptT
  <1> QED
    BY <1>1, <1>2, <1>3, <1>4, <1>5 DEF TypeInv

LEMMA TypeStep == TypeInv /\ [Next]_vars => TypeInv'
  <1>1. TypeInv /\ UNCHANGED vars => TypeInv'
    BY Same DEF TypeInv, vars, server, others, bounds
  <1> QED
    BY <1>1, TypeNext

LEMMA Typed == Spec => []TypeInv
  BY TypeInit, TypeStep, PTL DEF Spec

\* The types of the variables; the user's message in hand is within the bound, and a notice
\* is read only while there is a connection.
THEOREM TypeCorrect == Spec => []TypeOK
  <1>1. TypeInv => TypeOK
    <2> SUFFICES ASSUME TypeInv PROVE TypeOK
      OBVIOUS
    <2> USE DEF TypeInv
    <2>1. {peer, contact} \subseteq Views /\ reading.step \in {"no", "capabilities", "status"}
      BY AreViews DEF LookT
    <2> QED
      BY <2>1 DEF TypeOK, PhaseT, RequestsT, StoredT, CountT, LookT, KeptT, FormT, FaultsT, Views
  <1> QED
    BY Typed, <1>1, PTL

-----------------------------------------------------------------------------
(* No message is lost *)

None(fs) == \A f \in fs : f \notin faults

\* Where getOfflineMessages and its two requests are.  The server is asked once a login; it
\* keeps what it has sent until it is told to delete it, and that is what offl_vec holds by
\* then; an answer that is late or has been left behind is never taken for another.
Flow ==
  /\ phase # "on" =>
       /\ \A r \in ToSet(requests) : r = "x"
       /\ \A p \in ToSet(wire) : p.kind # "stored"
  /\ fetch # "no" => phase \in {"on", "off"}
  /\ fetch \in {"ask", "wait", "delete"} => "OFFLINE_DELETE" \notin ToSet(requests)
  /\ fetch \in {"ask", "wait"} => \A p \in ToSet(wire) : p.kind = "stored" => p.ms = stored
  /\ fetch = "wait" /\ reply # <<>> =>
       /\ ToSet(Head(reply)) \subseteq ToSet(stored)
       /\ phase = "on" => Head(reply) = stored
  /\ fetch = "delete" =>
       /\ ToSet(offl_vec) \subseteq ToSet(stored)
       /\ phase = "on" => offl_vec = stored
  /\ fetch \notin {"delete", "show"} => offl_vec = <<>>

Kept == ToSet(history) \cup ToSet(messageList)

\* What is about to be cleared has been saved.
Saved ==
  gui \in {"clear", "exit"} /\ None({"unsaved"}) =>
    \A i \in 1 .. count : messageList[i] \in ToSet(history)

\* What the server is told to delete is shown, or about to be.
DeletesShown ==
  "OFFLINE_DELETE" \in ToSet(requests) /\ None({"crash", "late", "cleared", "unsaved"}) =>
    ToSet(stored) \subseteq ToSet(offl_vec) \cup Kept

\* NothingLost and SentIsShown, in these terms.
Arrives ==
  None({"cached", "cut", "crash", "late", "cleared", "unsaved"}) =>
    \A m \in 1 .. sent :
      \/ m \in ToSet(stored) \cup ToSet(offl_vec) \cup Kept
      \/ \E p \in ToSet(wire) : p.kind = "message" /\ p.m = m

SentKept ==
  /\ None({"refused", "undelivered"}) => Kept \cap Mine \subseteq Handed
  /\ None({"crash", "late", "cleared", "unsaved"}) => Handed \subseteq Kept

DeliveryInv == Flow /\ Saved /\ DeletesShown /\ Arrives /\ SentKept

LEMMA RequestSent ==
  ASSUME TypeInv, NEW r \in {"OFFLINE_RECIEVE", "OFFLINE_DELETE", "x"}, requests' = Append(requests, r)
  PROVE  ToSet(requests') = ToSet(requests) \cup {r}
  BY ToSetAppend DEF TypeInv, RequestsT

LEMMA RequestServed ==
  ASSUME TypeInv, requests # <<>>, requests' = Tail(requests)
  PROVE  ToSet(requests) = {Head(requests)} \cup ToSet(requests')
  BY ToSetTail DEF TypeInv, RequestsT

LEMMA StoredGrows ==
  ASSUME TypeInv, NEW m \in Theirs, stored' = Append(stored, m)
  PROVE  ToSet(stored') = ToSet(stored) \cup {m}
  BY ToSetAppend DEF TypeInv, StoredT

LEMMA OneTaken ==
  ASSUME TypeInv, offl_vec # <<>>, offl_vec' = Tail(offl_vec)
  PROVE  Head(offl_vec) \in Theirs /\ ToSet(offl_vec) = {Head(offl_vec)} \cup ToSet(offl_vec')
  BY ToSetTail, HeadTailProperties DEF TypeInv, StoredT

LEMMA HistoryGrows ==
  ASSUME TypeInv, history' = history \o messageList
  PROVE  ToSet(history') = ToSet(history) \cup ToSet(messageList)
  BY ToSetConcat DEF TypeInv, KeptT

LEMMA ListMembers ==
  ASSUME TypeInv
  PROVE  /\ Len(messageList) \in Nat
         /\ \A i \in 1 .. Len(messageList) : messageList[i] \in ToSet(messageList)
         /\ \A m \in ToSet(messageList) : \E i \in 1 .. Len(messageList) : messageList[i] = m
  BY ToSetMember, LenProperties DEF TypeInv, KeptT

LEMMA TheirsNotMine == Theirs \cap Mine = {}
  BY MessagesAssumption DEF Theirs, Mine

LEMMA DeliverySame ==
  ASSUME DeliveryInv,
         UNCHANGED <<phase, wire, requests, stored, offline, kept, ours, sent, gui, count, faults>>
  PROVE  DeliveryInv'
  <1> USE DEF DeliveryInv, offline, kept
  <1>1. Flow'
    BY DEF Flow
  <1>2. Saved' /\ DeletesShown' /\ SentKept'
    BY DEF Saved, DeletesShown, SentKept, Handed, ours, Kept, None
  <1>3. Arrives'
    BY DEF Arrives, Kept, None
  <1> QED
    BY <1>1, <1>2, <1>3

LEMMA CutSeen ==
  ASSUME TypeInv, NEW lost, Lost(lost), \E p \in ToSet(wire) : p.kind = "message"
  PROVE  "cut" \in faults'
  <1>1. PICK p \in ToSet(wire) : p.kind = "message"
    OBVIOUS
  <1>2. p \in Packets
    BY ToSetType DEF TypeInv, WireT
  <1>3. p.m \in Theirs
    BY <1>1, <1>2, OfPackets
  <1>4. PICK i \in DOMAIN wire : wire[i] = p
    BY DEF ToSet
  <1>5. UnderWay(p.m)
    BY <1>1, <1>4 DEF UnderWay
  <1> QED
    BY <1>3, <1>5 DEF Lost

LEMMA OursLost ==
  ASSUME Dropped, NEW lost, Lost(lost)
  PROVE  Handed' \subseteq Handed /\ (Handed' = Handed \/ "undelivered" \in faults')
  <1>1. outgoing' = <<>> /\ got' = got
    BY DEF Dropped
  <1>2. ToSet(outgoing') = {}
    BY <1>1, ToSetEmpty
  <1>3. Handed' = got
    BY <1>1, <1>2 DEF Handed
  <1>4. CASE outgoing = <<>>
    BY <1>3, <1>4, ToSetEmpty DEF Handed
  <1>5. CASE outgoing # <<>>
    BY <1>3, <1>5 DEF Handed, Lost
  <1> QED
    BY <1>4, <1>5

LEMMA EmptyMemory == ASSUME TypeInv PROVE InMemory <=> messageList # <<>> \/ offl_vec # <<>>
  <1>1. messageList \in Seq(Theirs \cup Mine) /\ offl_vec \in Seq(Theirs \cup Mine)
    BY DEF TypeInv, KeptT, StoredT
  <1> QED
    BY <1>1, ConcatEqualIffEmpty DEF InMemory

LEMMA DeliveryNext == ASSUME TypeInv, TypeInv', DeliveryInv, Next PROVE DeliveryInv'
  <1> USE DEF DeliveryInv
  <1>1. CASE Changes
    <2>1. /\ \A p \in ToSet(wire') : p \in ToSet(wire) \/ p.kind = "look"
          /\ ToSet(wire) \subseteq ToSet(wire')
          /\ UNCHANGED <<phase, requests, stored, fetch, reply, offl_vec, messageList,
                    history, ours, sent, gui, count, faults>>
      <3>1. PICK look \in Looks \cup {Offline} :
              IF Listens THEN Send([kind |-> "look", look |-> look]) ELSE UNCHANGED wire
        BY <1>1 DEF Changes
      <3>2. \/ ToSet(wire') = ToSet(wire) \cup {[kind |-> "look", look |-> look]}
            \/ wire' = wire
        BY <3>1, ArePackets, WireSent
      <3> QED
        BY <1>1, <3>2 DEF Changes, offline, kept, busy
    <2>2. Flow'
      BY <2>1 DEF Flow
    <2>3. Saved'
      BY <2>1 DEF Saved, None
    <2>4. DeletesShown'
      BY <2>1 DEF DeletesShown, None, Kept
    <2>5. Arrives'
      BY <2>1 DEF Arrives, None, Kept
    <2>6. SentKept'
      BY <2>1 DEF SentKept, Handed, ours, None, Kept
    <2> QED
      BY <2>2, <2>3, <2>4, <2>5, <2>6
  <1>2. CASE Writes
    <2>1. /\ \A m \in 1 .. sent' : m \in 1 .. sent \/ m = sent'
          /\ faults \subseteq faults' /\ faults' \subseteq faults \cup {"overtaken"}
          /\ UNCHANGED <<phase, requests, fetch, reply, offl_vec, messageList, history,
                    ours, gui, count>>
          /\ \/ /\ stored' = stored /\ ToSet(wire) \subseteq ToSet(wire')
                /\ \A p \in ToSet(wire') : p \in ToSet(wire) \/ p.kind = "message"
                /\ \E p \in ToSet(wire') : p.kind = "message" /\ p.m = sent'
             \/ phase # "on" /\ ToSet(stored') = ToSet(stored) \cup {sent'} /\ wire' = wire
      <3>1. sent' = sent + 1 /\ sent' \in Theirs
        BY <1>2, NextTheirs DEF Writes
      <3>2. \A m \in 1 .. sent' : m \in 1 .. sent \/ m = sent'
        BY <3>1 DEF TypeInv, CountT
      <3>3. CASE Listens
        <4>1. Send([kind |-> "message", m |-> sent']) /\ stored' = stored
          BY <1>2, <3>3 DEF Writes
        <4>2. ToSet(wire') = ToSet(wire) \cup {[kind |-> "message", m |-> sent']}
          BY <3>1, <4>1, ArePackets, WireSent
        <4> DEFINE p == [kind |-> "message", m |-> sent']
        <4>3. p.kind = "message" /\ p.m = sent'
          OBVIOUS
        <4> HIDE DEF p
        <4>4. ToSet(wire') = ToSet(wire) \cup {p}
          BY <4>2 DEF p
        <4> QED
          BY <1>2, <3>2, <4>1, <4>3, <4>4 DEF Writes, offline, kept, busy
      <3>4. CASE ~Listens
        <4>1. stored' = Append(stored, sent') /\ wire' = wire
          BY <1>2, <3>4 DEF Writes
        <4>2. ToSet(stored') = ToSet(stored) \cup {sent'}
          BY <3>1, <4>1, StoredGrows
        <4> QED
          BY <1>2, <3>2, <3>4, <4>1, <4>2 DEF Writes, Listens, offline, kept, busy
      <3> QED
        BY <3>3, <3>4
    <2>2. Flow'
      BY <2>1 DEF Flow
    <2>3. Saved'
      BY <2>1 DEF Saved, None
    <2>4. DeletesShown'
      BY <2>1 DEF DeletesShown, None, Kept, Flow
    <2>5. Arrives'
      BY <2>1 DEF Arrives, None, Kept
    <2>6. SentKept'
      BY <2>1 DEF SentKept, Handed, ours, None, Kept
    <2> QED
      BY <2>2, <2>3, <2>4, <2>5, <2>6
  <1>3. CASE Serves
    <2>1. /\ ToSet(requests') \subseteq ToSet(requests)
          /\ UNCHANGED <<phase, fetch, reply, offl_vec, messageList, history, ours, sent,
                    gui, count, faults>>
          /\ \/ /\ "OFFLINE_RECIEVE" \in ToSet(requests) /\ stored' = stored
                /\ ToSet(wire') = ToSet(wire) \cup {[kind |-> "stored", ms |-> stored]}
             \/ "OFFLINE_DELETE" \in ToSet(requests) /\ ToSet(stored') = {} /\ wire' = wire
             \/ /\ stored' = stored /\ ToSet(wire) \subseteq ToSet(wire')
                /\ \A p \in ToSet(wire') : p \in ToSet(wire) \/ p.kind = "x"
      <3>1. ToSet(requests) = {Head(requests)} \cup ToSet(requests')
        BY <1>3, RequestServed DEF Serves
      <3>2. \/ Head(requests) = "OFFLINE_RECIEVE" /\ Send([kind |-> "stored", ms |-> stored]) /\ stored' = stored
            \/ Head(requests) = "OFFLINE_DELETE" /\ stored' = <<>> /\ wire' = wire
            \/ stored' = stored /\ (Send([kind |-> "x", x |-> peer.x]) \/ wire' = wire)
        BY <1>3 DEF Serves
      <3>3. stored \in Seq(Theirs) /\ peer.x \in 0 .. X_STATUS_MAX_BOUND
        BY AreViews, ViewFields DEF TypeInv, StoredT, LookT
      <3>4. /\ Send([kind |-> "stored", ms |-> stored]) =>
                 ToSet(wire') = ToSet(wire) \cup {[kind |-> "stored", ms |-> stored]}
            /\ Send([kind |-> "x", x |-> peer.x]) =>
                 ToSet(wire') = ToSet(wire) \cup {[kind |-> "x", x |-> peer.x]}
        BY <3>3, ArePackets, WireSent
      <3> QED
        BY <1>3, <3>1, <3>2, <3>4, ToSetEmpty DEF Serves, others, offline, kept, busy
    <2>2. Flow'
      BY <2>1 DEF Flow
    <2>3. Saved'
      BY <2>1 DEF Saved, None
    <2>4. DeletesShown'
      BY <2>1 DEF DeletesShown, None, Kept
    <2>5. Arrives'
      BY <2>1 DEF Arrives, None, Kept, Flow, DeletesShown
    <2>6. SentKept'
      BY <2>1 DEF SentKept, Handed, ours, None, Kept
    <2> QED
      BY <2>2, <2>3, <2>4, <2>5, <2>6
  <1>4. CASE Login
    <2>1. /\ phase = "off" /\ phase' = "login" /\ fetch = "no"
          /\ UNCHANGED <<wire, requests, stored, fetch, reply, offl_vec, messageList,
                    history, ours, sent, gui, count, faults>>
      BY <1>4 DEF Login, server, others, offline, kept, bounds, busy
    <2>2. Flow'
      BY <2>1 DEF Flow
    <2>3. Saved'
      BY <2>1 DEF Saved, None
    <2>4. DeletesShown'
      BY <2>1 DEF DeletesShown, None, Kept
    <2>5. Arrives'
      BY <2>1 DEF Arrives, None, Kept
    <2>6. SentKept'
      BY <2>1 DEF SentKept, Handed, ours, None, Kept
    <2> QED
      BY <2>2, <2>3, <2>4, <2>5, <2>6
  <1>5. CASE sendReady
    <2>1. /\ phase = "login" /\ phase' = "ready"
          /\ \A p \in ToSet(wire') : p \in ToSet(wire) \/ p.kind = "look"
          /\ ToSet(wire) \subseteq ToSet(wire')
          /\ UNCHANGED <<requests, stored, fetch, reply, offl_vec, messageList, history,
                    ours, sent, gui, count, faults>>
      <3>1. ToSet(wire') = ToSet(wire) \cup {[kind |-> "look", look |-> peer]} \/ wire' = wire
        BY <1>5, ArePackets, WireSent DEF sendReady, TypeInv, LookT
      <3> QED
        BY <1>5, <3>1 DEF sendReady, others, offline, kept, busy
    <2>2. Flow'
      BY <2>1 DEF Flow
    <2>3. Saved'
      BY <2>1 DEF Saved, None
    <2>4. DeletesShown'
      BY <2>1 DEF DeletesShown, None, Kept
    <2>5. Arrives'
      BY <2>1 DEF Arrives, None, Kept
    <2>6. SentKept'
      BY <2>1 DEF SentKept, Handed, ours, None, Kept
    <2> QED
      BY <2>2, <2>3, <2>4, <2>5, <2>6
  <1>6. CASE activateSSI
    <2>1. /\ phase = "ready" /\ phase' = "half"
          /\ UNCHANGED <<wire, requests, stored, fetch, reply, offl_vec, messageList,
                    history, ours, sent, gui, count, faults>>
      BY <1>6 DEF activateSSI, server, others, offline, kept, bounds, busy
    <2>2. Flow'
      BY <2>1 DEF Flow
    <2>3. Saved'
      BY <2>1 DEF Saved, None
    <2>4. DeletesShown'
      BY <2>1 DEF DeletesShown, None, Kept
    <2>5. Arrives'
      BY <2>1 DEF Arrives, None, Kept
    <2>6. SentKept'
      BY <2>1 DEF SentKept, Handed, ours, None, Kept
    <2> QED
      BY <2>2, <2>3, <2>4, <2>5, <2>6
  <1>7. CASE sendStatus
    <2>1. /\ phase = "half" /\ phase' = "on" /\ fetch' = "ask"
          /\ UNCHANGED <<wire, requests, stored, reply, offl_vec, messageList, history,
                    ours, sent, gui, count, faults>>
      BY <1>7 DEF sendStatus, server, others, kept, bounds, busy
    <2>2. Flow'
      BY <2>1 DEF Flow
    <2>3. Saved'
      BY <2>1 DEF Saved, None
    <2>4. DeletesShown'
      BY <2>1 DEF DeletesShown, None, Kept
    <2>5. Arrives'
      BY <2>1 DEF Arrives, None, Kept
    <2>6. SentKept'
      BY <2>1 DEF SentKept, Handed, ours, None, Kept
    <2> QED
      BY <2>2, <2>3, <2>4, <2>5, <2>6
  <1>8. CASE Drop
    <2>1. /\ phase' = "off" /\ ToSet(wire') = {} /\ ToSet(requests') = {}
          /\ faults \subseteq faults' /\ faults' \subseteq faults \cup {"cut", "undeleted", "undelivered"}
          /\ (\E p \in ToSet(wire) : p.kind = "message") => "cut" \in faults'
          /\ Handed' \subseteq Handed /\ (Handed' = Handed \/ "undelivered" \in faults')
          /\ UNCHANGED <<stored, fetch, reply, offl_vec, messageList, history, sent, gui, count>>
      <3>1. Handed' \subseteq Handed /\ (Handed' = Handed \/ "undelivered" \in faults')
        BY <1>8, OursLost DEF Drop
      <3> QED
        BY <1>8, <3>1, CutSeen, ToSetEmpty DEF Drop, others, offline, kept, bounds, Dropped, Lost, busy
    <2>2. Flow'
      BY <2>1 DEF Flow
    <2>3. Saved'
      BY <2>1 DEF Saved, None
    <2>4. DeletesShown'
      BY <2>1 DEF DeletesShown, None, Kept
    <2>5. Arrives'
      BY <2>1 DEF Arrives, None, Kept
    <2>6. SentKept'
      BY <2>1 DEF SentKept, None, Kept
    <2> QED
      BY <2>2, <2>3, <2>4, <2>5, <2>6
  <1>9. CASE Cache
    <2>1. /\ phase = "ready" /\ Packet \in ToSet(wire) /\ ToSet(wire) = {Packet} \cup ToSet(wire')
          /\ faults \subseteq faults' /\ faults' \subseteq faults \cup {"cached", "missed"}
          /\ Packet.kind = "message" => "cached" \in faults'
          /\ UNCHANGED <<phase, requests, stored, fetch, reply, offl_vec, messageList,
                    history, ours, sent, gui, count>>
      BY <1>9, WireRead DEF Cache, others, offline, kept, bounds, Received, Packet, busy
    <2>2. Flow'
      BY <2>1 DEF Flow
    <2>3. Saved'
      BY <2>1 DEF Saved, None
    <2>4. DeletesShown'
      BY <2>1 DEF DeletesShown, None, Kept
    <2>5. Arrives'
      BY <2>1 DEF Arrives, None, Kept
    <2>6. SentKept'
      BY <2>1 DEF SentKept, Handed, ours, None, Kept
    <2> QED
      BY <2>2, <2>3, <2>4, <2>5, <2>6
  <1>10. CASE slot_onIncomingMsg
    <2>1. /\ ToSet(wire) = {Packet} \cup ToSet(wire') /\ Packet.m \in Theirs
          /\ ToSet(messageList') = ToSet(messageList) \cup {Packet.m}
          /\ \A i \in 1 .. count : messageList'[i] = messageList[i]
          /\ UNCHANGED <<phase, requests, stored, fetch, reply, offl_vec, history, ours,
                    sent, gui, count, faults>>
      BY <1>10, WireRead, OfPackets, ListGrows DEF slot_onIncomingMsg, others, offline, bounds,
         Received, Packet, busy
    <2>2. Flow'
      BY <2>1 DEF Flow
    <2>3. Saved'
      BY <2>1 DEF Saved, None
    <2>4. DeletesShown'
      BY <2>1 DEF DeletesShown, None, Kept
    <2>5. Arrives'
      BY <2>1 DEF Arrives, None, Kept
    <2>6. SentKept'
      BY <2>1, TheirsNotMine DEF SentKept, Handed, ours, None, Kept
    <2> QED
      BY <2>2, <2>3, <2>4, <2>5, <2>6
  <1>11. CASE AddEntry
    <2>1. /\ ToSet(wire) = {Packet} \cup ToSet(wire') /\ Packet.kind = "stored"
          /\ reply' = <<Packet.ms>>
          /\ UNCHANGED <<phase, requests, stored, fetch, offl_vec, messageList, history,
                    ours, sent, gui, count, faults>>
      BY <1>11, WireRead DEF AddEntry, others, kept, bounds, Received, Packet, busy
    <2>2. Flow'
      BY <2>1 DEF Flow
    <2>3. Saved'
      BY <2>1 DEF Saved, None
    <2>4. DeletesShown'
      BY <2>1 DEF DeletesShown, None, Kept
    <2>5. Arrives'
      BY <2>1 DEF Arrives, None, Kept
    <2>6. SentKept'
      BY <2>1 DEF SentKept, Handed, ours, None, Kept
    <2> QED
      BY <2>2, <2>3, <2>4, <2>5, <2>6
  <1>12. CASE parseXtrazResponse
    <2>1. /\ ToSet(wire) = {Packet} \cup ToSet(wire')
          /\ Packet.kind # "message"
          /\ UNCHANGED <<phase, requests, stored, fetch, reply, offl_vec, messageList,
                    history, ours, sent, gui, count, faults>>
      BY <1>12, WireRead DEF parseXtrazResponse, others, offline, kept, bounds, Received, Packet,
         busy
    <2>2. Flow'
      BY <2>1 DEF Flow
    <2>3. Saved'
      BY <2>1 DEF Saved, None
    <2>4. DeletesShown'
      BY <2>1 DEF DeletesShown, None, Kept
    <2>5. Arrives'
      BY <2>1 DEF Arrives, None, Kept
    <2>6. SentKept'
      BY <2>1 DEF SentKept, Handed, ours, None, Kept
    <2> QED
      BY <2>2, <2>3, <2>4, <2>5, <2>6
  <1>13. CASE OfflineNotify
    <2>1. /\ ToSet(wire) = {Packet} \cup ToSet(wire')
          /\ Packet.kind # "message"
          /\ UNCHANGED <<phase, requests, stored, fetch, reply, offl_vec, messageList,
                    history, ours, sent, gui, count, faults>>
      BY <1>13, WireRead DEF OfflineNotify, others, offline, kept, bounds, Received, Packet, busy
    <2>2. Flow'
      BY <2>1 DEF Flow
    <2>3. Saved'
      BY <2>1 DEF Saved, None
    <2>4. DeletesShown'
      BY <2>1 DEF DeletesShown, None, Kept
    <2>5. Arrives'
      BY <2>1 DEF Arrives, None, Kept
    <2>6. SentKept'
      BY <2>1 DEF SentKept, Handed, ours, None, Kept
    <2> QED
      BY <2>2, <2>3, <2>4, <2>5, <2>6
  <1>14. CASE parseOnlineNotify
    <2>1. /\ ToSet(wire) = {Packet} \cup ToSet(wire')
          /\ Packet.kind # "message"
          /\ UNCHANGED <<phase, requests, stored, fetch, reply, offl_vec, messageList,
                    history, ours, sent, gui, count, faults>>
      BY <1>14, WireRead DEF parseOnlineNotify, others, offline, kept, bounds, Received, Packet,
         busy
    <2>2. Flow'
      BY <2>1 DEF Flow
    <2>3. Saved'
      BY <2>1 DEF Saved, None
    <2>4. DeletesShown'
      BY <2>1 DEF DeletesShown, None, Kept
    <2>5. Arrives'
      BY <2>1 DEF Arrives, None, Kept
    <2>6. SentKept'
      BY <2>1 DEF SentKept, Handed, ours, None, Kept
    <2> QED
      BY <2>2, <2>3, <2>4, <2>5, <2>6
  <1>15. CASE ReadCapabilities
    <2>1. /\ ToSet(requests') \in {ToSet(requests), ToSet(requests) \cup {"x"}}
          /\ UNCHANGED <<phase, wire, stored, fetch, reply, offl_vec, messageList,
                    history, ours, sent, gui, count, faults>>
      BY <1>15, RequestSent DEF ReadCapabilities, others, offline, kept, bounds,
         sendXtrazRequest, busy
    <2>2. Flow'
      BY <2>1 DEF Flow
    <2>3. Saved'
      BY <2>1 DEF Saved, None
    <2>4. DeletesShown'
      BY <2>1 DEF DeletesShown, None, Kept
    <2>5. Arrives'
      BY <2>1 DEF Arrives, None, Kept
    <2>6. SentKept'
      BY <2>1 DEF SentKept, Handed, ours, None, Kept
    <2> QED
      BY <2>2, <2>3, <2>4, <2>5, <2>6
  <1>16. CASE OnlineNotify
    BY <1>16, DeliverySame DEF OnlineNotify, server, others, bounds, busy
  <1>17. CASE AskStored
    <2>1. /\ fetch = "ask" /\ reply' = <<>>
          /\ UNCHANGED <<phase, wire, stored, offl_vec, messageList, history, ours, sent,
                    gui, count, faults>>
          /\ \/ phase # "off" /\ fetch' = "wait" /\ ToSet(requests') = ToSet(requests) \cup {"OFFLINE_RECIEVE"}
             \/ phase = "off" /\ fetch' = "no" /\ requests' = requests
      BY <1>17, RequestSent DEF AskStored, others, kept, bounds, askOfflMsgAction, busy
    <2>2. Flow'
      BY <2>1 DEF Flow
    <2>3. Saved'
      BY <2>1 DEF Saved, None
    <2>4. DeletesShown'
      BY <2>1 DEF DeletesShown, None, Kept
    <2>5. Arrives'
      BY <2>1 DEF Arrives, None, Kept
    <2>6. SentKept'
      BY <2>1 DEF SentKept, Handed, ours, None, Kept
    <2> QED
      BY <2>2, <2>3, <2>4, <2>5, <2>6
  <1>18. CASE getOfflMsg
    <2>1. /\ fetch = "wait" /\ reply # <<>> /\ offl_vec' = Head(reply) /\ fetch' = "delete"
          /\ ToSet(offl_vec) = {}
          /\ UNCHANGED <<phase, wire, requests, stored, messageList, history, ours, sent,
                    gui, count, faults>>
      BY <1>18, ToSetEmpty DEF Flow, getOfflMsg, server, others, kept, busy
    <2>2. Flow'
      BY <2>1 DEF Flow
    <2>3. Saved'
      BY <2>1 DEF Saved, None
    <2>4. DeletesShown'
      BY <2>1 DEF DeletesShown, None, Kept, Flow
    <2>5. Arrives'
      BY <2>1 DEF Arrives, None, Kept, Flow
    <2>6. SentKept'
      BY <2>1 DEF SentKept, Handed, ours, None, Kept
    <2> QED
      BY <2>2, <2>3, <2>4, <2>5, <2>6
  <1>19. CASE GiveUp
    <2>1. /\ fetch = "wait" /\ fetch' = "no"
          /\ UNCHANGED <<phase, wire, requests, stored, reply, offl_vec, messageList,
                    history, ours, sent, gui, count, faults>>
      BY <1>19 DEF GiveUp, server, others, kept, bounds, busy
    <2>2. Flow'
      BY <2>1 DEF Flow
    <2>3. Saved'
      BY <2>1 DEF Saved, None
    <2>4. DeletesShown'
      BY <2>1 DEF DeletesShown, None, Kept
    <2>5. Arrives'
      BY <2>1 DEF Arrives, None, Kept
    <2>6. SentKept'
      BY <2>1 DEF SentKept, Handed, ours, None, Kept
    <2> QED
      BY <2>2, <2>3, <2>4, <2>5, <2>6
  <1>20. CASE DeleteStored
    <2>1. /\ fetch = "delete"
          /\ UNCHANGED <<phase, wire, stored, reply, messageList, history, ours, sent,
                    gui, count, faults>>
          /\ \/ /\ phase # "off" /\ fetch' = "show" /\ offl_vec' = offl_vec
                /\ ToSet(requests') = ToSet(requests) \cup {"OFFLINE_DELETE"}
             \/ phase = "off" /\ fetch' = "no" /\ requests' = requests /\ offl_vec' = <<>>
      BY <1>20, RequestSent DEF DeleteStored, others, kept, bounds, askOfflMsgAction, busy
    <2>2. Flow'
      BY <2>1 DEF Flow
    <2>3. Saved'
      BY <2>1 DEF Saved, None
    <2>4. DeletesShown'
      BY <2>1 DEF DeletesShown, None, Kept, Flow
    <2>5. Arrives'
      BY <2>1 DEF Arrives, None, Kept, Flow
    <2>6. SentKept'
      BY <2>1 DEF SentKept, Handed, ours, None, Kept
    <2> QED
      BY <2>2, <2>3, <2>4, <2>5, <2>6
  <1>21. CASE ShowStored
    <2>1. /\ fetch = "show"
          /\ UNCHANGED <<phase, wire, requests, stored, reply, history, ours, sent, gui,
                    count, faults>>
          /\ \/ fetch' = "no" /\ offl_vec = <<>> /\ UNCHANGED <<offl_vec, messageList>>
             \/ /\ fetch' = fetch /\ Head(offl_vec) \in Theirs /\ (\A i \in 1 .. count : messageList'[i] = messageList[i])
                /\ ToSet(messageList') = ToSet(messageList) \cup {Head(offl_vec)}
                /\ ToSet(offl_vec) = {Head(offl_vec)} \cup ToSet(offl_vec')
      BY <1>21, OneTaken, ListGrows DEF ShowStored, server, others, bounds, busy
    <2>2. Flow'
      BY <2>1 DEF Flow
    <2>3. Saved'
      BY <2>1 DEF Saved, None
    <2>4. DeletesShown'
      BY <2>1 DEF DeletesShown, None, Kept, Flow
    <2>5. Arrives'
      BY <2>1 DEF Arrives, None, Kept
    <2>6. SentKept'
      BY <2>1, TheirsNotMine DEF SentKept, Handed, ours, None, Kept
    <2> QED
      BY <2>2, <2>3, <2>4, <2>5, <2>6
  <1>22. CASE openChat
    BY <1>22, DeliverySame DEF openChat, server, others, bounds, busy
  <1>23. CASE Type
    BY <1>23, DeliverySame DEF Type, server, others, bounds, mesTextChanged, mesTyped, sendMTN,
       busy
  <1>24. CASE closeChat
    BY <1>24, DeliverySame DEF closeChat, others, bounds, busy
  <1>25. CASE sendClick
    <2>1. /\ gui = "no" /\ gui' \in {"no", "UTF8", "LOCAL8BIT"}
          /\ UNCHANGED <<phase, wire, requests, stored, fetch, reply, offl_vec,
                    messageList, history, ours, sent, count, faults>>
      BY <1>25 DEF sendClick, others, offline, kept, bounds, mesTextChanged, mesTyped, sendMTN,
         stopTimerTyped, InChat
    <2>2. Flow'
      BY <2>1 DEF Flow
    <2>3. Saved'
      BY <2>1 DEF Saved, None
    <2>4. DeletesShown'
      BY <2>1 DEF DeletesShown, None, Kept
    <2>5. Arrives'
      BY <2>1 DEF Arrives, None, Kept
    <2>6. SentKept'
      BY <2>1 DEF SentKept, Handed, ours, None, Kept
    <2> QED
      BY <2>2, <2>3, <2>4, <2>5, <2>6
  <1>26. CASE slotClearChat
    <2>1. /\ gui = "no" /\ gui' \in {"clear", "exit"} /\ count' = Len(messageList)
          /\ faults \subseteq faults' /\ faults' \subseteq faults \cup {"unsaved"}
          /\ UNCHANGED <<phase, wire, requests, stored, fetch, reply, offl_vec,
                    messageList, ours, sent>>
          /\ \/ ToSet(history') = ToSet(history) \cup ToSet(messageList) /\ faults' = faults
             \/ history' = history /\ ("unsaved" \in faults' \/ ToSet(messageList) = {})
      BY <1>26, HistoryGrows, ToSetEmpty DEF slotClearChat, server, others, offline, bounds, Save
    <2>2. Flow'
      BY <2>1 DEF Flow
    <2>3. Saved'
      BY <2>1, ListMembers DEF Saved, None
    <2>4. DeletesShown'
      BY <2>1 DEF DeletesShown, None, Kept
    <2>5. Arrives'
      BY <2>1 DEF Arrives, None, Kept
    <2>6. SentKept'
      BY <2>1 DEF SentKept, Handed, ours, None, Kept
    <2> QED
      BY <2>2, <2>3, <2>4, <2>5, <2>6
  <1>27. CASE Exit
    <2>1. /\ gui = "no" /\ gui' \in {"clear", "exit"} /\ count' = Len(messageList)
          /\ faults \subseteq faults' /\ faults' \subseteq faults \cup {"unsaved"}
          /\ UNCHANGED <<phase, wire, requests, stored, fetch, reply, offl_vec,
                    messageList, ours, sent>>
          /\ \/ ToSet(history') = ToSet(history) \cup ToSet(messageList) /\ faults' = faults
             \/ history' = history /\ ("unsaved" \in faults' \/ ToSet(messageList) = {})
      BY <1>27, HistoryGrows, ToSetEmpty DEF Exit, server, others, offline, bounds, Save
    <2>2. Flow'
      BY <2>1 DEF Flow
    <2>3. Saved'
      BY <2>1, ListMembers DEF Saved, None
    <2>4. DeletesShown'
      BY <2>1 DEF DeletesShown, None, Kept
    <2>5. Arrives'
      BY <2>1 DEF Arrives, None, Kept
    <2>6. SentKept'
      BY <2>1 DEF SentKept, Handed, ours, None, Kept
    <2> QED
      BY <2>2, <2>3, <2>4, <2>5, <2>6
  <1>28. CASE timeDone
    BY <1>28, DeliverySame DEF timeDone, others, bounds, mesTyped, sendMTN, busy
  <1>29. CASE sendMessange
    <2>1. /\ gui' = "no"
          /\ \E m \in Mine :
               /\ ToSet(messageList') = ToSet(messageList) \cup {m}
               /\ \/ Handed' = Handed \cup {m} /\ faults' = faults
                  \/ Handed' = Handed /\ faults' = faults \cup {"refused"}
          /\ UNCHANGED <<phase, wire, requests, stored, fetch, reply, offl_vec, history,
                    sent, count>>
      <3>1. MaxTheirs + 1 + written \in Mine
        BY <1>29, MessagesAssumption DEF sendMessange, TypeInv, KeptT, Mine
      <3>2. messageList' = Append(messageList, MaxTheirs + 1 + written)
        BY <1>29 DEF sendMessange
      <3>3. ToSet(messageList') = ToSet(messageList) \cup {MaxTheirs + 1 + written}
        BY <3>1, <3>2, ListGrows
      <3>4. \/ Handed' = Handed \cup {MaxTheirs + 1 + written} /\ faults' = faults
            \/ Handed' = Handed /\ faults' = faults \cup {"refused"}
        <4>1. CASE outgoing' = Append(outgoing, MaxTheirs + 1 + written) /\ UNCHANGED <<got, faults>>
          BY <3>1, <4>1, ToSetAppend DEF TypeInv, FaultsT, Handed
        <4>2. CASE faults' = faults \cup {"refused"} /\ UNCHANGED ours
          BY <4>2 DEF ours, Handed
        <4> QED
          BY <1>29, <4>1, <4>2 DEF sendMessange, sendMessage
      <3>5. /\ gui' = "no"
            /\ UNCHANGED <<phase, wire, requests, stored, fetch, reply, offl_vec, history, sent, count>>
        BY <1>29 DEF sendMessange, offline, others
      <3> QED
        BY <3>1, <3>3, <3>4, <3>5
    <2>2. Flow'
      BY <2>1 DEF Flow
    <2>3. Saved'
      BY <2>1 DEF Saved, None
    <2>4. DeletesShown'
      BY <2>1 DEF DeletesShown, None, Kept
    <2>5. Arrives'
      BY <2>1 DEF Arrives, None, Kept
    <2>6. SentKept'
      BY <2>1 DEF SentKept, None, Kept
    <2> QED
      BY <2>2, <2>3, <2>4, <2>5, <2>6
  <1>30. CASE ClearList
    <2>1. /\ gui \in {"clear", "exit"} /\ gui' \in {"no", "quit"} /\ ToSet(messageList') = {}
          /\ faults \subseteq faults' /\ faults' \subseteq faults \cup {"cleared"}
          /\ UNCHANGED <<phase, wire, requests, stored, fetch, reply, offl_vec, history,
                    ours, sent>>
          /\ \/ {"cleared", "unsaved"} \cap faults' # {}
             \/ ToSet(messageList) \subseteq ToSet(history)
      <3>1. /\ gui \in {"clear", "exit"} /\ gui' \in {"no", "quit"} /\ messageList' = <<>>
            /\ faults' = IF Len(messageList) > count THEN faults \cup {"cleared"} ELSE faults
        BY <1>30 DEF ClearList
      <3>2. Len(messageList) > count \/ "unsaved" \in faults \/ ToSet(messageList) \subseteq ToSet(history)
        BY <3>1, ListMembers DEF Saved, None, TypeInv, KeptT
      <3> QED
        BY <1>30, <3>1, <3>2, ToSetEmpty DEF ClearList, server, others, offline
    <2>2. Flow'
      BY <2>1 DEF Flow
    <2>3. Saved'
      BY <2>1 DEF Saved, None
    <2>4. DeletesShown'
      BY <2>1 DEF DeletesShown, None, Kept
    <2>5. Arrives'
      BY <2>1 DEF Arrives, None, Kept
    <2>6. SentKept'
      BY <2>1 DEF SentKept, Handed, ours, None, Kept
    <2> QED
      BY <2>2, <2>3, <2>4, <2>5, <2>6
  <1>31. CASE Quit
    <2>1. /\ phase' = "off" /\ ToSet(wire') = {} /\ ToSet(requests') = {} /\ fetch' = "no"
          /\ offl_vec' = <<>> /\ ToSet(messageList') = {} /\ gui' = "no"
          /\ faults \subseteq faults' /\ faults' \subseteq faults \cup {"late", "cut", "undeleted", "undelivered"}
          /\ (\E p \in ToSet(wire) : p.kind = "message") => "cut" \in faults'
          /\ "late" \in faults' \/ (ToSet(messageList) = {} /\ ToSet(offl_vec) = {})
          /\ Handed' \subseteq Handed /\ (Handed' = Handed \/ "undelivered" \in faults')
          /\ UNCHANGED <<stored, history, sent>>
      <3>1. Lost(IF InMemory THEN {"late"} ELSE {})
        BY <1>31 DEF Quit
      <3>2. (\E p \in ToSet(wire) : p.kind = "message") => "cut" \in faults'
        BY <3>1, CutSeen
      <3>3. /\ faults \subseteq faults' /\ faults' \subseteq faults \cup {"late", "cut", "undeleted", "undelivered"}
            /\ InMemory => "late" \in faults'
        BY <3>1 DEF Lost
      <3>4. "late" \in faults' \/ (ToSet(messageList) = {} /\ ToSet(offl_vec) = {})
        BY <3>3, EmptyMemory, ToSetEmpty
      <3>5. /\ phase' = "off" /\ wire' = <<>> /\ requests' = <<>> /\ fetch' = "no" /\ reply' = <<>>
            /\ offl_vec' = <<>> /\ messageList' = <<>> /\ gui' = "no" /\ count' = 0
            /\ UNCHANGED <<stored, history, sent>>
        BY <1>31 DEF Quit, Restarted, Dropped, others
      <3>6. Handed' \subseteq Handed /\ (Handed' = Handed \/ "undelivered" \in faults')
        BY <1>31, <3>1, OursLost DEF Quit, Restarted
      <3> QED
        BY <3>2, <3>3, <3>4, <3>5, <3>6, ToSetEmpty
    <2>2. Flow'
      BY <2>1 DEF Flow
    <2>3. Saved'
      BY <2>1 DEF Saved, None
    <2>4. DeletesShown'
      BY <2>1 DEF DeletesShown, None, Kept
    <2>5. Arrives'
      BY <2>1 DEF Arrives, None, Kept
    <2>6. SentKept'
      BY <2>1 DEF SentKept, None, Kept
    <2> QED
      BY <2>2, <2>3, <2>4, <2>5, <2>6
  <1>32. CASE Crash
    <2>1. /\ phase' = "off" /\ ToSet(wire') = {} /\ ToSet(requests') = {} /\ fetch' = "no"
          /\ offl_vec' = <<>> /\ ToSet(messageList') = {} /\ gui' = "no"
          /\ faults \subseteq faults' /\ faults' \subseteq faults \cup {"crash", "cut", "undeleted", "undelivered"}
          /\ (\E p \in ToSet(wire) : p.kind = "message") => "cut" \in faults'
          /\ "crash" \in faults' \/ (ToSet(messageList) = {} /\ ToSet(offl_vec) = {})
          /\ Handed' \subseteq Handed /\ (Handed' = Handed \/ "undelivered" \in faults')
          /\ UNCHANGED <<stored, history, sent>>
      <3>1. Lost(IF InMemory THEN {"crash"} ELSE {})
        BY <1>32 DEF Crash
      <3>2. (\E p \in ToSet(wire) : p.kind = "message") => "cut" \in faults'
        BY <3>1, CutSeen
      <3>3. /\ faults \subseteq faults' /\ faults' \subseteq faults \cup {"crash", "cut", "undeleted", "undelivered"}
            /\ InMemory => "crash" \in faults'
        BY <3>1 DEF Lost
      <3>4. "crash" \in faults' \/ (ToSet(messageList) = {} /\ ToSet(offl_vec) = {})
        BY <3>3, EmptyMemory, ToSetEmpty
      <3>5. /\ phase' = "off" /\ wire' = <<>> /\ requests' = <<>> /\ fetch' = "no" /\ reply' = <<>>
            /\ offl_vec' = <<>> /\ messageList' = <<>> /\ gui' = "no" /\ count' = 0
            /\ UNCHANGED <<stored, history, sent>>
        BY <1>32 DEF Crash, Restarted, Dropped, others
      <3>6. Handed' \subseteq Handed /\ (Handed' = Handed \/ "undelivered" \in faults')
        BY <1>32, <3>1, OursLost DEF Crash, Restarted
      <3> QED
        BY <3>2, <3>3, <3>4, <3>5, <3>6, ToSetEmpty
    <2>2. Flow'
      BY <2>1 DEF Flow
    <2>3. Saved'
      BY <2>1 DEF Saved, None
    <2>4. DeletesShown'
      BY <2>1 DEF DeletesShown, None, Kept
    <2>5. Arrives'
      BY <2>1 DEF Arrives, None, Kept
    <2>6. SentKept'
      BY <2>1 DEF SentKept, None, Kept
    <2> QED
      BY <2>2, <2>3, <2>4, <2>5, <2>6
  <1>33. CASE Gets
    <2>1. /\ Handed' = Handed
          /\ UNCHANGED <<phase, wire, requests, stored, fetch, reply, offl_vec, messageList,
                    history, sent, gui, count, faults>>
      <3>1. ToSet(outgoing) = {Head(outgoing)} \cup ToSet(outgoing')
        BY <1>33, ToSetTail DEF Gets, TypeInv, FaultsT
      <3> QED
        BY <1>33, <3>1 DEF Gets, Handed, others, offline, kept, busy
    <2>2. Flow'
      BY <2>1 DEF Flow
    <2>3. Saved'
      BY <2>1 DEF Saved, None
    <2>4. DeletesShown'
      BY <2>1 DEF DeletesShown, None, Kept
    <2>5. Arrives'
      BY <2>1 DEF Arrives, None, Kept
    <2>6. SentKept'
      BY <2>1 DEF SentKept, None, Kept
    <2> QED
      BY <2>2, <2>3, <2>4, <2>5, <2>6
  <1> QED
    BY <1>1, <1>2, <1>3, <1>4, <1>5, <1>6, <1>7, <1>8, <1>9, <1>10, <1>11, <1>12, <1>13, <1>14,
       <1>15, <1>16, <1>17, <1>18, <1>19, <1>20, <1>21, <1>22, <1>23, <1>24, <1>25, <1>26,
       <1>27, <1>28, <1>29, <1>30, <1>31, <1>32, <1>33 DEF Next, Reader, getOfflineMessages, User

LEMMA DeliveryInit == Init => DeliveryInv
  <1> SUFFICES ASSUME Init PROVE DeliveryInv
    OBVIOUS
  <1>1. /\ phase = "off" /\ fetch = "no" /\ gui = "no" /\ sent = 0 /\ got = {} /\ outgoing = <<>>
        /\ wire = <<>> /\ requests = <<>> /\ offl_vec = <<>> /\ messageList = <<>> /\ history = <<>>
    BY DEF Init
  <1>2. /\ ToSet(wire) = {} /\ ToSet(requests) = {}
        /\ ToSet(messageList) = {} /\ ToSet(history) = {} /\ Handed = {}
    BY <1>1, ToSetEmpty DEF Handed
  <1>3. 1 .. sent = {}
    BY <1>1
  <1> QED
    BY <1>1, <1>2, <1>3 DEF DeliveryInv, Flow, Saved, DeletesShown, Arrives, SentKept, Kept

LEMMA DeliveryStep == TypeInv /\ TypeInv' /\ DeliveryInv /\ [Next]_vars => DeliveryInv'
  BY DeliveryNext, DeliverySame DEF vars, server, others, busy

LEMMA Delivered == Spec => []DeliveryInv
  BY DeliveryInit, DeliveryStep, Typed, PTL DEF Spec

LEMMA ShownIsKept == ASSUME TypeInv PROVE ToSet(Shown) = Kept
  BY ToSetConcat DEF TypeInv, KeptT, Shown, Kept

LEMMA OnTheWire ==
  ASSUME NEW m, NEW p \in ToSet(wire), p.kind = "message", p.m = m
  PROVE  UnderWay(m)
  BY DEF ToSet, UnderWay

\* Only an interrupted login or connection, the end of the program and the three ways to clear
\* a list lose a message of the contact, however many there are and whatever is kept for later.
THEOREM NothingLostTheorem == Spec => []NothingLost
  <1>1. TypeInv /\ DeliveryInv => NothingLost
    <2> SUFFICES ASSUME TypeInv, DeliveryInv,
                        faults \cap {"cached", "cut", "crash", "late", "cleared", "unsaved"} = {},
                        NEW m \in 1 .. sent
                 PROVE  m \in ToSet(stored) \cup ToSet(offl_vec) \cup ToSet(Shown) \/ UnderWay(m)
      BY DEF NothingLost
    <2>1. \/ m \in ToSet(stored) \cup ToSet(offl_vec) \cup Kept
          \/ \E p \in ToSet(wire) : p.kind = "message" /\ p.m = m
      BY DEF DeliveryInv, Arrives, None
    <2> QED
      BY <2>1, ShownIsKept, OnTheWire
  <1> QED
    BY <1>1, Typed, Delivered, PTL

\* A message shown as sent has been handed to the connection and is on its way or has come to the
\* server, unless a send has failed or the connection was lost meanwhile; and what was handed to
\* it is shown.
THEOREM SentTheorem == Spec => []SentIsShown
  <1>1. TypeInv /\ DeliveryInv => SentIsShown
    BY ShownIsKept DEF DeliveryInv, SentKept, SentIsShown, None
  <1> QED
    BY <1>1, Typed, Delivered, PTL

-----------------------------------------------------------------------------
(* The contact is shown as it is *)

Alike(v, w) == v.online = w.online /\ v.utf8 = w.utf8 /\ v.relay = w.relay

NoNotice == \A p \in ToSet(wire) : p.kind # "look"

\* Nothing is under way before the server sends, and no x-status before the client asks for one.
Before ==
  /\ ~Listens => wire = <<>> /\ requests = <<>>
  /\ phase = "login" => contact = Offline
  /\ phase = "ready" => requests = <<>> /\ \A p \in ToSet(wire) : p.kind # "x"

\* The last notice under way is what the contact looks like; an x-status that comes after it,
\* too.
LastNotice ==
  \A i \in DOMAIN wire :
    (\A j \in DOMAIN wire : j > i => wire[j].kind # "look") =>
      /\ wire[i].kind = "look" => wire[i].look = peer
      /\ wire[i].kind = "x" => wire[i].x = peer.x

NothingNew == Listens /\ None({"missed"}) /\ NoNotice

\* What the user sees when the notice being read has been read.
LookSeen ==
  NothingNew =>
    /\ reading.step = "capabilities" => reading.look = peer
    /\ reading.step = "status" =>
         peer.online /\ contact.utf8 = peer.utf8 /\ contact.relay = peer.relay
    /\ reading.step = "no" => Alike(contact, peer)

\* The x-status has been taken over, or will be.
XSeen ==
  NothingNew /\ peer.online /\ peer.x < X_STATUS_MAX_BOUND =>
    \/ contact.x = peer.x
    \/ reading.step = "capabilities"
    \/ peer.x # 0 /\ "x" \in ToSet(requests)
    \/ \E p \in ToSet(wire) : p.kind = "x"

PresenceInv == Before /\ LastNotice /\ LookSeen /\ XSeen

LEMMA NoticeSent ==
  ASSUME TypeInv, LastNotice, NEW p \in Packets, Send(p),
         p.kind = "look" => p.look = peer',
         p.kind # "look" => peer' = peer,
         p.kind = "x" => p.x = peer'.x
  PROVE  LastNotice'
  <1>1. /\ Len(wire) \in Nat /\ Len(wire') = Len(wire) + 1
        /\ \A i \in 1 .. Len(wire) : wire'[i] = wire[i]
        /\ wire'[Len(wire) + 1] = p
    BY AppendProperties, LenProperties DEF TypeInv, WireT, Send
  <1>2. DOMAIN wire = 1 .. Len(wire) /\ DOMAIN wire' = 1 .. Len(wire) + 1
    BY <1>1, WireSent, LenProperties DEF TypeInv, WireT
  <1>3. ASSUME NEW i \in DOMAIN wire', \A j \in DOMAIN wire' : j > i => wire'[j].kind # "look"
        PROVE  /\ wire'[i].kind = "look" => wire'[i].look = peer'
               /\ wire'[i].kind = "x" => wire'[i].x = peer'.x
    <2>1. CASE i = Len(wire) + 1
      BY <2>1, <1>1
    <2>2. CASE i \in 1 .. Len(wire)
      <3>1. p.kind # "look"
        BY <2>2, <1>1, <1>2, <1>3
      <3>2. \A j \in DOMAIN wire : j > i => wire[j].kind # "look"
        BY <1>1, <1>2, <1>3
      <3> QED
        BY <2>2, <3>1, <3>2, <1>1, <1>2 DEF LastNotice
    <2> QED
      BY <2>1, <2>2, <1>1, <1>2
  <1> QED
    BY <1>3 DEF LastNotice

LEMMA NoticeRead ==
  ASSUME TypeInv, LastNotice, Received, peer' = peer
  PROVE  /\ LastNotice'
         /\ NoNotice' => /\ Packet.kind = "look" => Packet.look = peer
                         /\ Packet.kind = "x" => Packet.x = peer.x
  <1>1. /\ wire \in Seq(Packets) /\ wire # <<>> /\ wire' = Tail(wire) /\ Packet = wire[1]
        /\ Len(wire) \in Nat \ {0} /\ Len(wire') = Len(wire) - 1
        /\ DOMAIN wire = 1 .. Len(wire) /\ DOMAIN wire' = 1 .. Len(wire) - 1
        /\ \A i \in 1 .. Len(wire) - 1 : wire'[i] = wire[i + 1]
    BY HeadTailProperties, LenProperties, EmptySeq DEF TypeInv, WireT, Received, Packet
  <1>2. ASSUME NEW i \in DOMAIN wire', \A j \in DOMAIN wire' : j > i => wire'[j].kind # "look"
        PROVE  /\ wire'[i].kind = "look" => wire'[i].look = peer'
               /\ wire'[i].kind = "x" => wire'[i].x = peer'.x
    <2>1. ASSUME NEW j \in DOMAIN wire, j > i + 1 PROVE wire[j].kind # "look"
      <3>1. j - 1 \in DOMAIN wire' /\ j - 1 > i /\ wire'[j - 1] = wire[j]
        BY <1>1, <2>1
      <3> QED
        BY <3>1, <1>2
    <2>2. i + 1 \in DOMAIN wire /\ wire'[i] = wire[i + 1]
      BY <1>1
    <2> QED
      BY <2>1, <2>2 DEF LastNotice
  <1>3. ASSUME NoNotice' PROVE /\ Packet.kind = "look" => Packet.look = peer
                               /\ Packet.kind = "x" => Packet.x = peer.x
    <2>1. ASSUME NEW j \in DOMAIN wire, j > 1 PROVE wire[j].kind # "look"
      <3>1. j - 1 \in DOMAIN wire' /\ wire'[j - 1] = wire[j]
        BY <1>1, <2>1
      <3>2. wire[j] \in ToSet(wire')
        BY <3>1 DEF ToSet
      <3> QED
        BY <3>2, <1>3 DEF NoNotice
    <2>2. 1 \in DOMAIN wire
      BY <1>1
    <2> QED
      BY <1>1, <2>1, <2>2 DEF LastNotice
  <1> QED
    BY <1>2, <1>3 DEF LastNotice

\* How the three kinds of look differ, in the fields that count.
LEMMA Looking ==
  ASSUME TypeInv
  PROVE  /\ peer.online \/ peer = Offline
         /\ reading.look.online \/ reading.look = Offline
         /\ peer.x \in 0 .. X_STATUS_MAX_BOUND /\ contact.x \in 0 .. X_STATUS_MAX_BOUND
         /\ contact \in Views /\ peer \in Views /\ reading.look \in Views
  BY AreViews, ViewFields DEF TypeInv, LookT

LEMMA PresenceSame ==
  ASSUME PresenceInv, UNCHANGED <<phase, wire, requests, peer, contact, reading>>,
         "missed" \in faults => "missed" \in faults'
  PROVE  PresenceInv'
  <1> USE DEF PresenceInv
  <1>1. NothingNew' => NothingNew
    BY DEF NothingNew, Listens, None, NoNotice
  <1>2. Before' /\ LastNotice'
    BY DEF Before, LastNotice, Listens
  <1>3. LookSeen' /\ XSeen'
    BY <1>1 DEF LookSeen, XSeen, Alike
  <1> QED
    BY <1>2, <1>3

LEMMA NoPackets ==
  /\ wire' = <<>> => LastNotice'
  /\ LastNotice /\ UNCHANGED <<wire, peer>> => LastNotice'
  BY EmptySeq DEF LastNotice

\* A message changes nothing of this.
LEMMA OtherSent ==
  ASSUME TypeInv, PresenceInv, Listens, NEW p \in Packets, Send(p), p.kind = "message",
         UNCHANGED <<phase, requests, peer, contact, reading>>, faults \subseteq faults'
  PROVE  PresenceInv'
  <1> USE DEF PresenceInv
  <1>1. LastNotice' /\ ToSet(wire') = ToSet(wire) \cup {p}
    BY NoticeSent, WireSent
  <1>2. NothingNew' => NothingNew
    BY <1>1 DEF NothingNew, NoNotice, Listens, None
  <1>3. Before'
    BY <1>1 DEF Before, Listens
  <1>4. LookSeen' /\ XSeen'
    BY <1>1, <1>2 DEF LookSeen, XSeen, Alike
  <1> QED
    BY <1>1, <1>3, <1>4

\* Nor does a request for stored messages, which is sent on a connection.
LEMMA Asked ==
  ASSUME TypeInv, Flow, PresenceInv, fetch # "no", phase # "off",
         NEW r \in {"OFFLINE_RECIEVE", "OFFLINE_DELETE"}, requests' = Append(requests, r),
         UNCHANGED <<phase, wire, peer, contact, reading, faults>>
  PROVE  PresenceInv'
  <1> USE DEF PresenceInv
  <1>1. phase = "on"
    BY DEF Flow
  <1>2. ToSet(requests') = ToSet(requests) \cup {r}
    BY RequestSent
  <1>3. NothingNew' => NothingNew
    BY DEF NothingNew, NoNotice, Listens, None
  <1>4. Before' /\ LastNotice'
    BY <1>1 DEF Before, LastNotice, Listens
  <1>5. LookSeen' /\ XSeen'
    BY <1>2, <1>3 DEF LookSeen, XSeen, Alike
  <1> QED
    BY <1>4, <1>5

LEMMA PresenceNext == ASSUME TypeInv, TypeInv', Flow, PresenceInv, Next PROVE PresenceInv'
  <1> USE DEF PresenceInv
  <1>1. CASE Changes
    <2>1. PICK look \in Looks \cup {Offline} :
            /\ peer' = look
            /\ IF Listens THEN Send([kind |-> "look", look |-> look]) ELSE UNCHANGED wire
      BY <1>1 DEF Changes
    <2>2. UNCHANGED <<phase, requests, contact, reading, faults>>
      BY <1>1 DEF Changes, reader
    <2>3. CASE Listens
      <3> DEFINE p == [kind |-> "look", look |-> look]
      <3>1. p \in Packets /\ Send(p) /\ p.kind = "look" /\ p.look = peer'
        BY <2>1, <2>3, ArePackets
      <3> HIDE DEF p
      <3>2. LastNotice'
        BY <3>1, NoticeSent
      <3>3. ToSet(wire') = ToSet(wire) \cup {p}
        BY <3>1, WireSent
      <3>4. ~NothingNew'
        BY <3>1, <3>3 DEF NothingNew, NoNotice
      <3>5. Before'
        BY <2>2, <2>3, <3>1, <3>3 DEF Before, Listens
      <3> QED
        BY <3>2, <3>4, <3>5 DEF LookSeen, XSeen
    <2>4. CASE ~Listens
      BY <2>1, <2>2, <2>4, NoPackets DEF Before, Listens, LookSeen, XSeen, NothingNew
    <2> QED
      BY <2>3, <2>4
  <1>2. CASE Writes
    <2>1. UNCHANGED <<phase, requests, peer, contact, reading>> /\ faults \subseteq faults'
      BY <1>2 DEF Writes, reader
    <2>2. sent' \in Theirs /\ (Send([kind |-> "message", m |-> sent']) \/ wire' = wire)
      BY <1>2, NextTheirs DEF Writes
    <2>3. CASE Send([kind |-> "message", m |-> sent']) /\ Listens
      <3> DEFINE p == [kind |-> "message", m |-> sent']
      <3>1. p \in Packets /\ Send(p) /\ p.kind = "message"
        BY <2>2, <2>3, ArePackets
      <3> HIDE DEF p
      <3> QED
        BY <2>1, <2>3, <3>1, OtherSent
    <2> QED
      BY <2>1, <2>2, <2>3, <1>2, PresenceSame DEF Writes
  <1>3. CASE Serves
    <2>1. UNCHANGED <<phase, peer, contact, reading, faults>>
      BY <1>3 DEF Serves, reader, others
    <2>2. ToSet(requests) = {Head(requests)} \cup ToSet(requests')
      BY <1>3, RequestServed DEF Serves
    <2>3. Listens
      BY <1>3 DEF Serves, Before
    <2>4. stored \in Seq(Theirs) /\ peer.x \in 0 .. X_STATUS_MAX_BOUND
      BY Looking DEF TypeInv, StoredT
    <2>5. CASE Head(requests) = "OFFLINE_RECIEVE"
      <3> DEFINE p == [kind |-> "stored", ms |-> stored]
      <3>1. p \in Packets /\ Send(p) /\ p.kind = "stored"
        BY <1>3, <2>4, <2>5, ArePackets DEF Serves
      <3> HIDE DEF p
      <3>2. LastNotice' /\ ToSet(wire') = ToSet(wire) \cup {p}
        BY <2>1, <3>1, NoticeSent, WireSent
      <3>3. Before'
        BY <2>1, <2>2, <2>3, <3>1, <3>2, <1>3 DEF Before, Serves, Listens
      <3> QED
        BY <2>1, <2>2, <2>5, <3>1, <3>2, <3>3 DEF LookSeen, XSeen, NothingNew, NoNotice, Listens,
           None, Alike
    <2>6. CASE Head(requests) = "OFFLINE_DELETE"
      <3>1. wire' = wire
        BY <1>3, <2>6 DEF Serves
      <3>2. Before' /\ LastNotice'
        BY <2>1, <2>2, <2>3, <3>1, <1>3 DEF Before, LastNotice, Serves, Listens
      <3> QED
        BY <2>1, <2>2, <2>6, <3>1, <3>2 DEF LookSeen, XSeen, NothingNew, NoNotice, Listens, None, Alike
    <2>7. CASE Head(requests) \notin {"OFFLINE_RECIEVE", "OFFLINE_DELETE"} /\ peer.x # 0
      <3> DEFINE p == [kind |-> "x", x |-> peer.x]
      <3>1. p \in Packets /\ Send(p) /\ p.kind = "x" /\ p.x = peer.x
        BY <1>3, <2>4, <2>7, ArePackets DEF Serves
      <3> HIDE DEF p
      <3>2. LastNotice' /\ ToSet(wire') = ToSet(wire) \cup {p}
        BY <2>1, <3>1, NoticeSent, WireSent
      <3>3. Before'
        BY <2>1, <2>3, <3>1, <3>2, <1>3 DEF Before, Serves, Listens
      <3> QED
        BY <2>1, <3>1, <3>2, <3>3 DEF LookSeen, XSeen, NothingNew, NoNotice, Listens, None, Alike
    <2>8. CASE Head(requests) \notin {"OFFLINE_RECIEVE", "OFFLINE_DELETE"} /\ peer.x = 0
      <3>1. wire' = wire
        BY <1>3, <2>8 DEF Serves
      <3>2. Before' /\ LastNotice'
        BY <2>1, <2>2, <2>3, <3>1, <1>3 DEF Before, LastNotice, Serves, Listens
      <3> QED
        BY <2>1, <2>8, <3>1, <3>2 DEF LookSeen, XSeen, NothingNew, NoNotice, Listens, None, Alike
    <2> QED
      BY <2>5, <2>6, <2>7, <2>8
  <1>4. CASE Login
    <2>1. phase = "off" /\ phase' = "login" /\ contact' = Offline /\ UNCHANGED <<wire, requests, peer>>
      BY <1>4 DEF Login, server, others
    <2> QED
      BY <2>1, NoPackets DEF Before, Listens, LookSeen, XSeen, NothingNew
  <1>5. CASE sendReady
    <2>1. /\ phase = "login" /\ phase' = "ready" /\ UNCHANGED <<requests, peer, contact, reading, faults>>
          /\ IF peer.online THEN Send([kind |-> "look", look |-> peer]) ELSE UNCHANGED wire
      BY <1>5 DEF sendReady, others, reader
    <2>2. wire = <<>> /\ requests = <<>> /\ contact = Offline /\ ToSet(wire) = {}
      BY <2>1, ToSetEmpty DEF Before, Listens
    <2>3. CASE peer.online
      <3> DEFINE p == [kind |-> "look", look |-> peer]
      <3>1. p \in Packets /\ Send(p) /\ p.kind = "look" /\ p.look = peer'
        BY <2>1, <2>3, ArePackets DEF TypeInv, LookT
      <3> HIDE DEF p
      <3>2. LastNotice' /\ ToSet(wire') = ToSet(wire) \cup {p}
        BY <3>1, NoticeSent, WireSent
      <3>3. ~NothingNew'
        BY <3>1, <3>2 DEF NothingNew, NoNotice
      <3> QED
        BY <2>1, <2>2, <3>1, <3>2, <3>3 DEF Before, Listens, LookSeen, XSeen
    <2>4. CASE ~peer.online
      <3>1. peer' = contact' /\ peer'.online = peer.online /\ wire' = wire /\ reading'.step = "no"
        BY <2>1, <2>2, <2>4, Looking DEF TypeInv, LookT, Polls
      <3>2. LastNotice'
        BY <2>1, <2>2, <3>1, NoPackets
      <3> QED
        BY <2>1, <2>2, <2>4, <3>1, <3>2 DEF Before, Listens, LookSeen, XSeen, Alike
    <2> QED
      BY <2>3, <2>4
  <1>6. CASE activateSSI
    <2>1. phase = "ready" /\ phase' = "half" /\ UNCHANGED <<wire, requests, peer, contact, reading, faults>>
      BY <1>6 DEF activateSSI, server, others, reader
    <2>2. Before' /\ LastNotice'
      BY <2>1 DEF Before, Listens, LastNotice
    <2> QED
      BY <2>1, <2>2 DEF Listens, LookSeen, XSeen, NothingNew, NoNotice, None, Alike
  <1>7. CASE sendStatus
    <2>1. phase = "half" /\ phase' = "on" /\ UNCHANGED <<wire, requests, peer, contact, reading, faults>>
      BY <1>7 DEF sendStatus, server, others, reader
    <2>2. Before' /\ LastNotice'
      BY <2>1 DEF Before, Listens, LastNotice
    <2> QED
      BY <2>1, <2>2 DEF Listens, LookSeen, XSeen, NothingNew, NoNotice, None, Alike
  <1>8. CASE Drop
    <2>1. phase' = "off" /\ wire' = <<>> /\ requests' = <<>>
      BY <1>8 DEF Drop, Dropped
    <2> QED
      BY <2>1, NoPackets DEF Before, Listens, LookSeen, XSeen, NothingNew
  <1>9. CASE Quit
    <2>1. phase' = "off" /\ wire' = <<>> /\ requests' = <<>>
      BY <1>9 DEF Quit, Restarted, Dropped
    <2> QED
      BY <2>1, NoPackets DEF Before, Listens, LookSeen, XSeen, NothingNew
  <1>10. CASE Crash
    <2>1. phase' = "off" /\ wire' = <<>> /\ requests' = <<>>
      BY <1>10 DEF Crash, Restarted, Dropped
    <2> QED
      BY <2>1, NoPackets DEF Before, Listens, LookSeen, XSeen, NothingNew
  <1>11. CASE Cache
    <2>1. /\ phase = "ready" /\ Received /\ UNCHANGED <<phase, requests, peer, contact, reading>>
          /\ faults \subseteq faults' /\ (Packet.kind = "look" => "missed" \in faults')
      BY <1>11 DEF Cache, others, reader
    <2>2. LastNotice' /\ ToSet(wire) = {Packet} \cup ToSet(wire')
      BY <2>1, NoticeRead, WireRead
    <2>3. Before'
      BY <2>1, <2>2 DEF Before, Listens
    <2>4. NothingNew' => NothingNew
      BY <2>1, <2>2 DEF NothingNew, NoNotice, Listens, None
    <2> QED
      BY <2>1, <2>2, <2>3, <2>4 DEF LookSeen, XSeen, Alike, Before
  <1>12. CASE slot_onIncomingMsg
    <2>1. /\ Received /\ Packet.kind = "message" /\ Polls
          /\ UNCHANGED <<phase, requests, peer, contact, reading, faults>>
      BY <1>12 DEF slot_onIncomingMsg, others, reader
    <2>2. LastNotice' /\ ToSet(wire) = {Packet} \cup ToSet(wire')
      BY <2>1, NoticeRead, WireRead
    <2>3. NothingNew' => NothingNew
      BY <2>1, <2>2 DEF NothingNew, NoNotice, Listens, None
    <2> QED
      BY <2>1, <2>2, <2>3 DEF LookSeen, XSeen, Alike, Before, Polls, Listens
  <1>13. CASE AddEntry
    <2>1. /\ Received /\ Packet.kind = "stored" /\ Polls
          /\ UNCHANGED <<phase, requests, peer, contact, reading, faults>>
      BY <1>13 DEF AddEntry, others, reader
    <2>2. LastNotice' /\ ToSet(wire) = {Packet} \cup ToSet(wire')
      BY <2>1, NoticeRead, WireRead
    <2>3. NothingNew' => NothingNew
      BY <2>1, <2>2 DEF NothingNew, NoNotice, Listens, None
    <2> QED
      BY <2>1, <2>2, <2>3 DEF LookSeen, XSeen, Alike, Before, Polls, Listens
  <1>14. CASE parseXtrazResponse
    <2>1. /\ Received /\ Packet.kind = "x" /\ Polls
          /\ contact' = IF Packet.x < X_STATUS_MAX_BOUND THEN [contact EXCEPT !.x = Packet.x] ELSE contact
          /\ UNCHANGED <<phase, requests, peer, reading, faults>>
      BY <1>14 DEF parseXtrazResponse, others
    <2>2. /\ LastNotice' /\ ToSet(wire) = {Packet} \cup ToSet(wire')
          /\ NoNotice' => Packet.x = peer.x
      BY <2>1, NoticeRead, WireRead
    <2>3. /\ Packet.x < X_STATUS_MAX_BOUND => contact'.x = Packet.x
          /\ Alike(contact', contact)
      BY <2>1, Looking DEF Alike, Views
    <2>4. NothingNew' => NothingNew
      BY <2>1, <2>2 DEF NothingNew, NoNotice, Listens, None
    <2>5. LookSeen'
      BY <2>1, <2>3, <2>4 DEF LookSeen, Alike
    <2>6. XSeen'
      BY <2>1, <2>2, <2>3 DEF XSeen, NothingNew
    <2> QED
      BY <2>1, <2>2, <2>5, <2>6 DEF Before, Polls, Listens
  <1>15. CASE OfflineNotify
    <2>1. /\ Received /\ Packet.kind = "look" /\ ~Packet.look.online /\ Polls
          /\ contact' = [Offline EXCEPT !.x = contact.x]
          /\ UNCHANGED <<phase, requests, peer, reading, faults>> /\ reading.step = "no"
      BY <1>15 DEF OfflineNotify, others, Received
    <2>2. LastNotice' /\ (NoNotice' => Packet.look = peer)
      BY <2>1, NoticeRead
    <2>3. Alike(contact', Offline)
      BY <2>1 DEF Alike, Offline
    <2>4. LookSeen' /\ XSeen'
      BY <2>1, <2>2, <2>3, Looking DEF LookSeen, XSeen, NothingNew
    <2> QED
      BY <2>1, <2>2, <2>4 DEF Before, Polls, Listens
  <1>16. CASE parseOnlineNotify
    <2>1. /\ Received /\ Packet.kind = "look" /\ Polls
          /\ reading' = [step |-> "capabilities", look |-> Packet.look]
          /\ UNCHANGED <<phase, requests, peer, faults>>
      BY <1>16 DEF parseOnlineNotify, others
    <2>2. LastNotice' /\ (NoNotice' => Packet.look = peer)
      BY <2>1, NoticeRead
    <2>3. LookSeen' /\ XSeen'
      BY <2>1, <2>2 DEF LookSeen, XSeen, NothingNew
    <2> QED
      BY <2>1, <2>2, <2>3 DEF Before, Polls, Listens
  <1>17. CASE ReadCapabilities
    <2> DEFINE look == reading.look
    <2>1. /\ reading.step = "capabilities" /\ reading' = [reading EXCEPT !.step = "status"]
          /\ contact' = [contact EXCEPT
               !.utf8 = look.utf8, !.relay = look.relay,
               !.x = IF look.x = 0 \/ (noAutoXTrazRequest /\ look.x < X_STATUS_MAX_BOUND)
                     THEN look.x ELSE @]
          /\ IF look.x # 0 /\ ~noAutoXTrazRequest THEN sendXtrazRequest ELSE UNCHANGED requests
          /\ UNCHANGED <<phase, wire, peer, faults>>
      BY <1>17 DEF ReadCapabilities, others
    <2> HIDE DEF look
    <2>2. reading'.step = "status" /\ look.online /\ Polls
      BY <2>1 DEF TypeInv, LookT, look
    <2>3. /\ contact'.utf8 = look.utf8 /\ contact'.relay = look.relay
          /\ look.x = 0 \/ (noAutoXTrazRequest /\ look.x < X_STATUS_MAX_BOUND) => contact'.x = look.x
      BY <2>1, Looking DEF Views
    <2>4. look.x # 0 /\ ~noAutoXTrazRequest => "x" \in ToSet(requests')
      BY <2>1, RequestSent DEF sendXtrazRequest
    <2>5. NothingNew' => look = peer
      BY <2>1 DEF LookSeen, NothingNew, NoNotice, Listens, None, look
    <2>6. LookSeen' /\ XSeen'
      BY <2>1, <2>2, <2>3, <2>4, <2>5 DEF LookSeen, XSeen
    <2>7. Before' /\ LastNotice'
      BY <2>1, <2>2 DEF Before, LastNotice, Polls, Listens
    <2> QED
      BY <2>6, <2>7
  <1>18. CASE OnlineNotify
    <2>1. /\ reading.step = "status" /\ reading'.step = "no" /\ contact' = [contact EXCEPT !.online = TRUE]
          /\ UNCHANGED <<phase, wire, requests, peer, faults>>
      BY <1>18 DEF OnlineNotify, server, others, NotReading
    <2>2. /\ contact'.online = TRUE /\ contact'.utf8 = contact.utf8
          /\ contact'.relay = contact.relay /\ contact'.x = contact.x
      BY <2>1, Looking DEF Views
    <2>3. Polls /\ peer.online \in BOOLEAN
      BY <2>1, Looking, ViewFields DEF TypeInv, LookT
    <2>4. LookSeen' /\ XSeen'
      BY <2>1, <2>2, <2>3 DEF LookSeen, XSeen, NothingNew, NoNotice, Listens, None, Alike
    <2> QED
      BY <2>1, <2>3, <2>4 DEF Before, LastNotice, Polls, Listens
  <1>19. CASE AskStored
    <2>1. /\ fetch # "no" /\ UNCHANGED <<phase, wire, peer, contact, reading, faults>>
          /\ \/ phase # "off" /\ \E r \in {"OFFLINE_RECIEVE", "OFFLINE_DELETE"} : requests' = Append(requests, r)
             \/ requests' = requests
      BY <1>19 DEF AskStored, askOfflMsgAction, others, reader
    <2> QED
      BY <2>1, Asked, PresenceSame
  <1>20. CASE DeleteStored
    <2>1. /\ fetch # "no" /\ UNCHANGED <<phase, wire, peer, contact, reading, faults>>
          /\ \/ phase # "off" /\ \E r \in {"OFFLINE_RECIEVE", "OFFLINE_DELETE"} : requests' = Append(requests, r)
             \/ requests' = requests
      BY <1>20 DEF DeleteStored, askOfflMsgAction, others, reader
    <2> QED
      BY <2>1, Asked, PresenceSame
  <1>21. CASE getOfflMsg
    BY <1>21, PresenceSame DEF getOfflMsg, server, others, reader, bounds
  <1>22. CASE GiveUp
    BY <1>22, PresenceSame DEF GiveUp, server, others, reader, bounds
  <1>23. CASE ShowStored
    BY <1>23, PresenceSame DEF ShowStored, server, others, reader, bounds
  <1>24. CASE openChat
    BY <1>24, PresenceSame DEF openChat, server, others, reader, bounds
  <1>25. CASE Type
    BY <1>25, PresenceSame DEF Type, server, others, reader, bounds, mesTextChanged, mesTyped,
       sendMTN
  <1>26. CASE closeChat
    BY <1>26, PresenceSame DEF closeChat, others, reader, bounds
  <1>27. CASE sendClick
    BY <1>27, PresenceSame DEF sendClick, others, reader, bounds, mesTextChanged, mesTyped,
       sendMTN, stopTimerTyped, InChat
  <1>28. CASE timeDone
    BY <1>28, PresenceSame DEF timeDone, others, reader, bounds, mesTyped, sendMTN
  <1>29. CASE slotClearChat
    BY <1>29, PresenceSame DEF slotClearChat, server, others, reader, bounds, Save
  <1>30. CASE Exit
    BY <1>30, PresenceSame DEF Exit, server, others, reader, bounds, Save
  <1>31. CASE sendMessange
    BY <1>31, PresenceSame DEF sendMessange, server, others, reader, bounds, mesTextChanged,
       mesTyped, sendMTN, sendMessage
  <1>32. CASE ClearList
    BY <1>32, PresenceSame DEF ClearList, server, others, reader, bounds
  <1>33. CASE Gets
    BY <1>33, PresenceSame DEF Gets, others, reader
  <1> QED
    BY <1>1, <1>2, <1>3, <1>4, <1>5, <1>6, <1>7, <1>8, <1>9, <1>10, <1>11, <1>12, <1>13, <1>14,
       <1>15, <1>16, <1>17, <1>18, <1>19, <1>20, <1>21, <1>22, <1>23, <1>24, <1>25, <1>26,
       <1>27, <1>28, <1>29, <1>30, <1>31, <1>32, <1>33 DEF Next, Reader, getOfflineMessages, User

LEMMA PresenceInit == Init => PresenceInv
  <1> SUFFICES ASSUME Init PROVE PresenceInv
    OBVIOUS
  <1>1. phase = "off" /\ wire = <<>> /\ requests = <<>>
    BY DEF Init
  <1>2. ~Listens /\ ~NothingNew
    BY <1>1 DEF Listens, NothingNew
  <1>3. LastNotice
    BY <1>1, EmptySeq DEF LastNotice
  <1> QED
    BY <1>1, <1>2, <1>3 DEF PresenceInv, Before, LookSeen, XSeen

LEMMA PresenceStep == TypeInv /\ TypeInv' /\ DeliveryInv /\ PresenceInv /\ [Next]_vars => PresenceInv'
  BY PresenceNext, PresenceSame DEF vars, server, others, reader, DeliveryInv

LEMMA Present == Spec => []PresenceInv
  BY PresenceInit, PresenceStep, Typed, Delivered, PTL DEF Spec

LEMMA SendOnly == ASSUME TypeInv, Next, Len(outgoing') > Len(outgoing) PROVE sendMessange
  <1> USE DEF server, ours, others, reader, offline, kept, form, busy, bounds
  <1>1. Changes \/ Writes \/ Serves \/ Login \/ sendReady \/ activateSSI => UNCHANGED outgoing
    BY DEF Changes, Writes, Serves, Login, sendReady, activateSSI, Send, Listens
  <1>2. sendStatus \/ Cache \/ slot_onIncomingMsg \/ AddEntry \/ parseXtrazResponse => UNCHANGED outgoing
    BY DEF sendStatus, Cache, slot_onIncomingMsg, AddEntry, parseXtrazResponse, Received, Packet
  <1>3. OfflineNotify \/ parseOnlineNotify \/ ReadCapabilities \/ OnlineNotify \/ AskStored \/ getOfflMsg => UNCHANGED outgoing
    BY DEF OfflineNotify, parseOnlineNotify, ReadCapabilities, OnlineNotify, AskStored,
           getOfflMsg, Received, Packet, sendXtrazRequest, askOfflMsgAction
  <1>4. GiveUp \/ DeleteStored \/ ShowStored \/ openChat \/ Type \/ closeChat => UNCHANGED outgoing
    BY DEF GiveUp, DeleteStored, ShowStored, openChat, Type, closeChat, askOfflMsgAction,
           mesTextChanged, mesTyped, sendMTN
  <1>5. sendClick \/ slotClearChat \/ Exit \/ timeDone \/ ClearList => UNCHANGED outgoing
    BY DEF sendClick, slotClearChat, Exit, timeDone, ClearList, mesTextChanged, mesTyped,
           sendMTN, stopTimerTyped, InChat, Save
  <1>6. outgoing \in Seq(Mine) /\ Len(outgoing) \in Nat
    BY LenProperties DEF TypeInv, FaultsT
  <1>7. Drop \/ Quit \/ Crash => outgoing' = <<>>
    BY DEF Drop, Quit, Crash, Restarted, Dropped
  <1>8. ~(Drop \/ Quit \/ Crash)
    BY <1>6, <1>7, EmptySeq
  <1>9. ASSUME Gets PROVE FALSE
    BY <1>6, <1>9, HeadTailProperties DEF Gets
  <1> QED
    BY <1>1, <1>2, <1>3, <1>4, <1>5, <1>6, <1>8, <1>9 DEF Next, Reader, getOfflineMessages, User

LEMMA NothingUnderWay ==
  ASSUME TypeInv, PresenceInv, Listens, wire = <<>>, reading.step = "no", "missed" \notin faults
  PROVE  NothingNew /\ Alike(contact, peer)
  BY ToSetEmpty DEF PresenceInv, LookSeen, NothingNew, NoNotice, None

LEMMA AlikeIsSame ==
  ASSUME NEW v \in Views, NEW w \in Views, Alike(v, w)
  PROVE  [v EXCEPT !.x = 0] = [w EXCEPT !.x = 0]
  BY DEF Alike, Views

\* When everything sent has been read, the contact is shown as it is: whatever order its
\* notices, the requests for its x-status and their answers come in.
THEOREM PresenceTheorem == Spec => []PresenceTrue
  <1>1. TypeInv /\ PresenceInv => PresenceTrue
    <2> SUFFICES ASSUME TypeInv, PresenceInv, connected, wire = <<>>, requests = <<>>,
                        reading.step = "no", "missed" \notin faults
                 PROVE  /\ [contact EXCEPT !.x = 0] = [peer EXCEPT !.x = 0]
                        /\ peer.online /\ peer.x < X_STATUS_MAX_BOUND => contact.x = peer.x
      BY DEF PresenceTrue
    <2>1. NothingNew /\ Alike(contact, peer)
      BY NothingUnderWay DEF connected, Listens
    <2>2. peer.online /\ peer.x < X_STATUS_MAX_BOUND => contact.x = peer.x
      BY <2>1, ToSetEmpty DEF PresenceInv, XSeen
    <2> QED
      BY <2>1, <2>2, Looking, AlikeIsSame
  <1> QED
    BY <1>1, Typed, Present, PTL

\* No step sends UTF-8 to a client that has said it does not read it, or not said that it does.
THEOREM UTF8Theorem == Spec => UTF8Understood
  <1>1. ASSUME TypeInv, PresenceInv, [Next]_vars
        PROVE  [Len(outgoing') > Len(outgoing) /\ gui = "UTF8" /\ wire = <<>>
                  /\ reading.step = "no" /\ "missed" \notin faults => peer.utf8 /\ peer.relay]_vars
    <2> SUFFICES ASSUME Next, Len(outgoing') > Len(outgoing), gui = "UTF8", wire = <<>>,
                        reading.step = "no", "missed" \notin faults
                 PROVE  peer.utf8 /\ peer.relay
      <3>1. UNCHANGED vars => outgoing' = outgoing
        BY DEF vars, server, ours
      <3>2. Len(outgoing) \in Nat
        BY <1>1, LenProperties DEF TypeInv, FaultsT
      <3> QED
        BY <1>1, <3>1, <3>2
    <2>1. sendMessange
      BY <1>1, SendOnly
    <2>2. Len(outgoing) \in Nat
      BY <1>1, LenProperties DEF TypeInv, FaultsT
    <2>3. contact.online /\ contact.utf8 /\ contact.relay /\ phase # "off"
      BY <2>1, <2>2 DEF sendMessange, sendMessage, MaySend, ours
    <2>4. Listens
      BY <1>1, <2>3, AreViews DEF PresenceInv, Before, Listens, TypeInv, PhaseT, Phases
    <2> QED
      BY <1>1, <2>3, <2>4, NothingUnderWay DEF Alike
  <1> QED
    BY <1>1, Typed, Present, PTL DEF Spec, UTF8Understood

-----------------------------------------------------------------------------
(* No message is shown twice, or before an older one *)

IsMessage(p) == p.kind = "message"

\* m comes after every message of the contact in S.
After(m, S) == \A n \in S : n \in Theirs => n < m

Clearing == gui \in {"clear", "exit"}

Deleting == "OFFLINE_DELETE" \in ToSet(requests)

\* Messages get their numbers as they are sent: what waits is in order.
Numbered ==
  /\ \A m \in ToSet(stored) \cup ToSet(offl_vec) : m <= sent
  /\ \A m \in Kept : m \in Theirs => m <= sent
  /\ \A m \in Kept : m \in Mine => m <= MaxTheirs + written
  /\ \A p \in ToSet(wire) : IsMessage(p) => p.m <= sent

Sorted(s) == \A i, j \in DOMAIN s : i < j /\ s[i] \in Theirs /\ s[j] \in Theirs => s[i] < s[j]

WireSorted ==
  \A i, j \in DOMAIN wire :
    i < j /\ IsMessage(wire[i]) /\ IsMessage(wire[j]) => wire[i].m < wire[j].m

Queued == Sorted(stored) /\ (fetch = "show" => Sorted(offl_vec)) /\ WireSorted

\* What waits is not shown yet; what the server is told to delete may be.
NotYet ==
  None({"undeleted"}) =>
    /\ \A p \in ToSet(wire) :
         IsMessage(p) => p.m \notin ToSet(stored) \cup ToSet(offl_vec) \cup Kept
    /\ fetch = "show" => ToSet(offl_vec) \cap Kept = {}
    /\ ~Deleting => ToSet(stored) \cap Kept = {}
    /\ ~Deleting /\ fetch = "show" => ToSet(stored) \cap ToSet(offl_vec) = {}

\* Nor is anything shown that has come after it.
Older ==
  None({"undeleted", "overtaken"}) =>
    /\ \A p \in ToSet(wire) :
         IsMessage(p) => ToSet(stored) = {} /\ ToSet(offl_vec) = {} /\ After(p.m, Kept)
    /\ fetch = "show" => \A m \in ToSet(offl_vec) : After(m, Kept)
    /\ ~Deleting => \A m \in ToSet(stored) : After(m, Kept)
    /\ ~Deleting /\ fetch = "show" => \A m \in ToSet(stored) : After(m, ToSet(offl_vec))

\* The two lists, the one saved last coming first unless it is being cleared.
Lists ==
  /\ None({"undeleted"}) =>
       /\ IsInjective(history) /\ IsInjective(messageList)
       /\ ~Clearing => ToSet(history) \cap ToSet(messageList) = {}
  /\ None({"undeleted", "overtaken"}) =>
       /\ Sorted(history) /\ Sorted(messageList)
       /\ ~Clearing => \A m \in ToSet(messageList) : m \in Theirs => After(m, ToSet(history))

OrderInv == Numbered /\ Queued /\ NotYet /\ Older /\ Lists

LEMMA TheirsAreNumbers ==
  Theirs \subseteq Nat /\ (\A m \in Mine : m \in Nat) /\ \A m \in Theirs : m \notin Mine /\ m < MaxTheirs + 1
  BY MessagesAssumption DEF Theirs, Mine

LEMMA SortedAppend ==
  ASSUME NEW S, NEW s \in Seq(S), NEW m \in S, Sorted(s), m \in Theirs => After(m, ToSet(s))
  PROVE  Sorted(Append(s, m))
  <1> DEFINE t == Append(s, m)
  <1>1. /\ t \in Seq(S) /\ Len(s) \in Nat /\ Len(t) = Len(s) + 1
        /\ \A i \in 1 .. Len(s) : t[i] = s[i]
        /\ t[Len(s) + 1] = m
    BY AppendProperties, LenProperties
  <1> HIDE DEF t
  <1>2. DOMAIN t = 1 .. Len(s) + 1 /\ DOMAIN s = 1 .. Len(s)
    BY <1>1, LenProperties
  <1>3. \A i \in 1 .. Len(s) : s[i] \in ToSet(s)
    BY ToSetMember
  <1> SUFFICES ASSUME NEW i \in DOMAIN t, NEW j \in DOMAIN t, i < j, t[i] \in Theirs, t[j] \in Theirs
               PROVE  t[i] < t[j]
    BY DEF t, Sorted
  <1>4. i \in 1 .. Len(s) /\ t[i] = s[i]
    BY <1>1, <1>2
  <1>5. CASE j \in 1 .. Len(s)
    BY <1>1, <1>2, <1>4, <1>5 DEF Sorted
  <1>6. CASE j = Len(s) + 1
    BY <1>1, <1>3, <1>4, <1>6 DEF After
  <1> QED
    BY <1>1, <1>2, <1>5, <1>6

LEMMA SortedTail ==
  ASSUME NEW s \in Seq(Theirs), s # <<>>, Sorted(s)
  PROVE  Sorted(Tail(s)) /\ \A n \in ToSet(Tail(s)) : Head(s) < n
  <1> DEFINE t == Tail(s)
  <1>1. /\ t \in Seq(Theirs) /\ Len(s) \in Nat \ {0} /\ Len(t) = Len(s) - 1
        /\ \A i \in 1 .. Len(t) : t[i] = s[i + 1]
        /\ Head(s) = s[1]
    BY HeadTailProperties, EmptySeq
  <1> HIDE DEF t
  <1>2. DOMAIN t = 1 .. Len(s) - 1 /\ DOMAIN s = 1 .. Len(s)
    BY <1>1, LenProperties
  <1>3. \A i \in DOMAIN s : s[i] \in Theirs
    BY <1>2, ElementOfSeq
  <1>4. ASSUME NEW i \in DOMAIN t, NEW j \in DOMAIN t, i < j PROVE t[i] < t[j]
    <2>1. i + 1 \in DOMAIN s /\ j + 1 \in DOMAIN s /\ i + 1 < j + 1
      BY <1>1, <1>2, <1>4
    <2>2. s[i + 1] < s[j + 1]
      BY <1>3, <2>1 DEF Sorted
    <2> QED
      BY <1>1, <1>2, <2>2
  <1>5. ASSUME NEW n \in ToSet(t) PROVE Head(s) < n
    <2>1. PICK i \in 1 .. Len(t) : t[i] = n
      BY <1>1, ToSetMember
    <2>2. 1 \in DOMAIN s /\ i + 1 \in DOMAIN s /\ 1 < i + 1 /\ n = s[i + 1]
      BY <1>1, <1>2, <2>1
    <2> QED
      BY <1>1, <1>3, <2>2 DEF Sorted
  <1> QED
    BY <1>4, <1>5 DEF t, Sorted

LEMMA SortedConcat ==
  ASSUME NEW S, NEW s \in Seq(S), NEW t \in Seq(S), Sorted(s), Sorted(t),
         \A m \in ToSet(t) : m \in Theirs => After(m, ToSet(s))
  PROVE  Sorted(s \o t)
  <1> DEFINE u == s \o t
  <1>1. /\ u \in Seq(S) /\ Len(s) \in Nat /\ Len(t) \in Nat /\ Len(u) = Len(s) + Len(t)
        /\ \A i \in 1 .. Len(s) + Len(t) : u[i] = IF i <= Len(s) THEN s[i] ELSE t[i - Len(s)]
    BY ConcatProperties, LenProperties
  <1> HIDE DEF u
  <1>2. DOMAIN u = 1 .. Len(s) + Len(t) /\ DOMAIN s = 1 .. Len(s) /\ DOMAIN t = 1 .. Len(t)
    BY <1>1, LenProperties
  <1>3. /\ \A i \in 1 .. Len(s) : s[i] \in ToSet(s)
        /\ \A i \in 1 .. Len(t) : t[i] \in ToSet(t)
    BY ToSetMember
  <1>4. \A i \in DOMAIN u : i <= Len(s) => u[i] = s[i] /\ i \in 1 .. Len(s)
    BY <1>1, <1>2
  <1>5. \A i \in DOMAIN u : ~(i <= Len(s)) => u[i] = t[i - Len(s)] /\ i - Len(s) \in 1 .. Len(t)
    BY <1>1, <1>2
  <1> SUFFICES ASSUME NEW i \in DOMAIN u, NEW j \in DOMAIN u, i < j, u[i] \in Theirs, u[j] \in Theirs
               PROVE  u[i] < u[j]
    BY DEF u, Sorted
  <1>6. CASE i <= Len(s) /\ j <= Len(s)
    BY <1>2, <1>4, <1>6 DEF Sorted
  <1>7. CASE i <= Len(s) /\ ~(j <= Len(s))
    BY <1>3, <1>4, <1>5, <1>7 DEF After
  <1>8. CASE ~(i <= Len(s)) /\ ~(j <= Len(s))
    <2>1. i - Len(s) < j - Len(s)
      BY <1>1, <1>2
    <2> QED
      BY <1>2, <1>5, <1>8, <2>1 DEF Sorted
  <1>9. ~(~(i <= Len(s)) /\ j <= Len(s))
    BY <1>1, <1>2
  <1> QED
    BY <1>6, <1>7, <1>8, <1>9

\* Nothing that comes or goes but a message changes the order of the messages under way.
LEMMA WireQuiet ==
  ASSUME TypeInv, WireSorted,
         \/ \E p \in Packets : ~IsMessage(p) /\ Send(p)
         \/ Received
         \/ wire' = <<>>
         \/ wire' = wire
  PROVE  /\ WireSorted'
         /\ \A p \in ToSet(wire') : IsMessage(p) => p \in ToSet(wire)
  <1>1. CASE \E p \in Packets : ~IsMessage(p) /\ Send(p)
    <2>1. PICK p \in Packets : ~IsMessage(p) /\ Send(p)
      BY <1>1
    <2>2. /\ Len(wire) \in Nat /\ DOMAIN wire = 1 .. Len(wire) /\ DOMAIN wire' = 1 .. Len(wire) + 1
          /\ \A i \in 1 .. Len(wire) : wire'[i] = wire[i]
          /\ wire'[Len(wire) + 1] = p
      BY <2>1, AppendProperties, LenProperties, WireSent DEF TypeInv, WireT, Send
    <2>3. \A i \in DOMAIN wire' : IsMessage(wire'[i]) => i \in DOMAIN wire /\ wire'[i] = wire[i]
      BY <2>1, <2>2
    <2>4. WireSorted'
      BY <2>3 DEF WireSorted
    <2> QED
      BY <2>1, <2>4, WireSent
  <1>2. CASE Received
    <2>1. /\ wire \in Seq(Packets) /\ Len(wire) \in Nat \ {0}
          /\ DOMAIN wire = 1 .. Len(wire) /\ DOMAIN wire' = 1 .. Len(wire) - 1
          /\ \A i \in 1 .. Len(wire) - 1 : wire'[i] = wire[i + 1]
      BY <1>2, HeadTailProperties, LenProperties, EmptySeq DEF TypeInv, WireT, Received
    <2>2. ASSUME NEW i \in DOMAIN wire', NEW j \in DOMAIN wire', i < j,
                 IsMessage(wire'[i]), IsMessage(wire'[j])
          PROVE  wire'[i].m < wire'[j].m
      <3>1. /\ i + 1 \in DOMAIN wire /\ j + 1 \in DOMAIN wire /\ i + 1 < j + 1
            /\ wire'[i] = wire[i + 1] /\ wire'[j] = wire[j + 1]
        BY <2>1, <2>2
      <3> QED
        BY <2>2, <3>1 DEF WireSorted
    <2>3. WireSorted'
      BY <2>2 DEF WireSorted
    <2> QED
      BY <1>2, <2>3, WireRead
  <1>3. CASE wire' = <<>>
    BY <1>3, ToSetEmpty, EmptySeq DEF WireSorted
  <1>4. CASE wire' = wire
    BY <1>4 DEF WireSorted
  <1> QED
    BY <1>1, <1>2, <1>3, <1>4

\* A message is sent after all those before it, and read before all those after it.
LEMMA MessageSent ==
  ASSUME TypeInv, Numbered, WireSorted, NEW p \in Packets, Send(p), IsMessage(p), sent < p.m
  PROVE  WireSorted'
  <1>1. /\ Len(wire) \in Nat /\ DOMAIN wire = 1 .. Len(wire) /\ DOMAIN wire' = 1 .. Len(wire) + 1
        /\ \A i \in 1 .. Len(wire) : wire'[i] = wire[i]
        /\ wire'[Len(wire) + 1] = p
    BY AppendProperties, LenProperties, WireSent DEF TypeInv, WireT, Send
  <1>2. \A i \in DOMAIN wire : IsMessage(wire[i]) => wire[i].m < p.m
    <2> SUFFICES ASSUME NEW i \in DOMAIN wire, IsMessage(wire[i]) PROVE wire[i].m < p.m
      OBVIOUS
    <2>1. wire[i] \in ToSet(wire) /\ wire[i] \in Packets
      BY ToSetType DEF ToSet, TypeInv, WireT
    <2>2. wire[i].m \in Theirs /\ p.m \in Theirs /\ wire[i].m <= sent
      BY <2>1, OfPackets DEF IsMessage, Numbered
    <2>3. sent \in Nat
      BY DEF TypeInv, CountT
    <2>4. wire[i].m \in Nat /\ p.m \in Nat
      BY <2>2, TheirsAreNumbers
    <2> QED
      BY <2>2, <2>3, <2>4
  <1> QED
    BY <1>1, <1>2 DEF WireSorted

LEMMA MessageRead ==
  ASSUME TypeInv, WireSorted, Received, IsMessage(Packet)
  PROVE  \A p \in ToSet(wire') : IsMessage(p) => Packet.m < p.m
  <1>1. /\ wire \in Seq(Packets) /\ Packet = wire[1] /\ Len(wire) \in Nat \ {0}
        /\ DOMAIN wire = 1 .. Len(wire) /\ DOMAIN wire' = 1 .. Len(wire) - 1
        /\ \A i \in 1 .. Len(wire) - 1 : wire'[i] = wire[i + 1]
    BY HeadTailProperties, LenProperties, EmptySeq DEF TypeInv, WireT, Received, Packet
  <1> SUFFICES ASSUME NEW i \in DOMAIN wire', IsMessage(wire'[i]) PROVE Packet.m < wire'[i].m
    BY DEF ToSet
  <1>2. 1 \in DOMAIN wire /\ i + 1 \in DOMAIN wire /\ 1 < i + 1 /\ wire'[i] = wire[i + 1]
    BY <1>1
  <1> QED
    BY <1>1, <1>2 DEF WireSorted

LEMMA ListAppended ==
  ASSUME TypeInv, Lists, NEW m \in Theirs \cup Mine, messageList' = Append(messageList, m),
         history' = history, (Clearing' <=> Clearing), faults \subseteq faults',
         None({"undeleted"}) => m \notin Kept,
         None({"undeleted", "overtaken"}) /\ m \in Theirs => After(m, Kept)
  PROVE  Lists'
  <1>1. ToSet(messageList') = ToSet(messageList) \cup {m}
    BY ListGrows
  <1>2. messageList \in Seq(Theirs \cup Mine)
    BY DEF TypeInv, KeptT
  <1>3. /\ None({"undeleted"})' => None({"undeleted"})
        /\ None({"undeleted", "overtaken"})' => None({"undeleted", "overtaken"})
    BY DEF None
  <1>4. IsInjective(messageList) /\ m \notin ToSet(messageList) => IsInjective(messageList')
    BY <1>2, OnceAppend
  <1>5. Sorted(messageList) /\ (m \in Theirs => After(m, ToSet(messageList))) => Sorted(messageList')
    BY <1>2, SortedAppend
  <1>6. ASSUME None({"undeleted"})'
        PROVE  /\ IsInjective(history') /\ IsInjective(messageList')
               /\ ~Clearing' => ToSet(history') \cap ToSet(messageList') = {}
    <2>1. m \notin ToSet(messageList) /\ m \notin ToSet(history)
      BY <1>3, <1>6 DEF Kept
    <2> QED
      BY <1>1, <1>3, <1>4, <1>6, <2>1 DEF Lists
  <1>7. ASSUME None({"undeleted", "overtaken"})'
        PROVE  /\ Sorted(history') /\ Sorted(messageList')
               /\ ~Clearing' => \A n \in ToSet(messageList') : n \in Theirs => After(n, ToSet(history'))
    <2>1. m \in Theirs => After(m, ToSet(messageList)) /\ After(m, ToSet(history))
      BY <1>3, <1>7 DEF Kept, After
    <2> QED
      BY <1>1, <1>3, <1>5, <1>7, <2>1 DEF Lists
  <1> QED
    BY <1>6, <1>7 DEF Lists

\* The lists stay as they are, and so does what waits, but for what is lost.
LEMMA OrderSame ==
  ASSUME TypeInv, OrderInv,
         UNCHANGED <<stored, offl_vec, messageList, history, sent, written>>,
         (Clearing' <=> Clearing), faults \subseteq faults', fetch' = "show" => fetch = "show",
         Deleting => Deleting' \/ "undeleted" \in faults',
         \/ \E p \in Packets : ~IsMessage(p) /\ Send(p)
         \/ Received
         \/ wire' = <<>>
         \/ wire' = wire
  PROVE  OrderInv'
  <1> USE DEF OrderInv
  <1>1. /\ WireSorted'
        /\ \A p \in ToSet(wire') : IsMessage(p) => p \in ToSet(wire)
    BY WireQuiet DEF Queued
  <1>2. Numbered'
    BY <1>1 DEF Numbered, Kept
  <1>3. Queued'
    BY <1>1 DEF Queued, Sorted
  <1>4. NotYet'
    BY <1>1 DEF NotYet, None, Kept
  <1>5. Older'
    BY <1>1 DEF Older, None, Kept
  <1>6. Lists'
    BY DEF Lists, None, Sorted
  <1> QED
    BY <1>2, <1>3, <1>4, <1>5, <1>6

\* What waits is the contact's.
LEMMA Waiting ==
  ASSUME TypeInv
  PROVE  /\ \A m \in ToSet(stored) \cup ToSet(offl_vec) : m \in Theirs
         /\ \A p \in ToSet(wire) : IsMessage(p) => p.m \in Theirs
         /\ \A m \in Kept : m \in Theirs \cup Mine
         /\ sent \in Nat /\ written \in Nat
  <1>1. \A p \in ToSet(wire) : p \in Packets
    BY ToSetType DEF TypeInv, WireT
  <1>2. \A m \in ToSet(stored) \cup ToSet(offl_vec) : m \in Theirs
    BY ToSetType DEF TypeInv, StoredT
  <1>3. \A m \in Kept : m \in Theirs \cup Mine
    BY ToSetType DEF TypeInv, KeptT, Kept
  <1> QED
    BY <1>1, <1>2, <1>3, OfPackets DEF IsMessage, TypeInv, CountT, KeptT

\* The chat's list goes, and perhaps what waits with it.
LEMMA Emptied ==
  ASSUME TypeInv, OrderInv, messageList' = <<>>, UNCHANGED <<stored, history, sent, written>>,
         faults \subseteq faults',
         \/ offl_vec' = <<>> /\ wire' = <<>> /\ fetch' = "no" /\ (Deleting => "undeleted" \in faults')
         \/ UNCHANGED <<wire, requests, fetch, offl_vec>>
  PROVE  OrderInv'
  <1> USE DEF OrderInv
  <1>1. ToSet(messageList') = {} /\ IsInjective(messageList') /\ Sorted(messageList')
    BY ToSetEmpty, EmptySeq DEF IsInjective, Sorted
  <1>2. Kept' \subseteq Kept
    BY <1>1 DEF Kept
  <1>3. Lists'
    BY <1>1 DEF Lists, None, Sorted
  <1>4. CASE offl_vec' = <<>> /\ wire' = <<>> /\ fetch' = "no" /\ (Deleting => "undeleted" \in faults')
    <2>1. ToSet(offl_vec') = {} /\ ToSet(wire') = {}
      BY <1>4, ToSetEmpty
    <2>2. WireSorted'
      BY <1>4, EmptySeq DEF WireSorted
    <2>3. Numbered' /\ Queued'
      BY <1>2, <1>4, <2>1, <2>2 DEF Numbered, Queued, Sorted
    <2>4. NotYet' /\ Older'
      BY <1>2, <1>4, <2>1 DEF NotYet, Older, None, After
    <2> QED
      BY <1>3, <2>3, <2>4
  <1>5. CASE UNCHANGED <<wire, requests, fetch, offl_vec>>
    <2>1. Numbered' /\ Queued'
      BY <1>2, <1>5 DEF Numbered, Queued, WireSorted, Sorted
    <2>2. NotYet' /\ Older'
      BY <1>2, <1>5 DEF NotYet, Older, None, After, Deleting
    <2> QED
      BY <1>3, <2>1, <2>2
  <1> QED
    BY <1>4, <1>5

LEMMA OrderNext == ASSUME TypeInv, TypeInv', Flow, Before, OrderInv, Next PROVE OrderInv'
  <1> USE DEF OrderInv
  <1>1. CASE Changes
    <2>1. PICK look \in Looks \cup {Offline} :
            IF Listens THEN Send([kind |-> "look", look |-> look]) ELSE UNCHANGED wire
      BY <1>1 DEF Changes
    <2>2. (\E p \in Packets : ~IsMessage(p) /\ Send(p)) \/ wire' = wire
      BY <2>1, ArePackets DEF IsMessage
    <2>3. /\ UNCHANGED <<stored, offl_vec, messageList, history, sent, written>> /\ faults \subseteq faults'
          /\ (Clearing' <=> Clearing) /\ fetch' = fetch /\ (Deleting' <=> Deleting)
      BY <1>1 DEF Changes, Clearing, Deleting, offline, kept, bounds, busy
    <2> QED
      BY <2>2, <2>3, OrderSame
  <1>2. CASE Writes
    <2>1. /\ sent' \in Theirs /\ sent' = sent + 1 /\ sent \in Nat
          /\ UNCHANGED <<fetch, offl_vec, messageList, history, written, gui, requests>>
      BY <1>2, NextTheirs DEF Writes, offline, kept, bounds, TypeInv, CountT, busy
    <2>2. faults \subseteq faults' /\ (Listens /\ stored \o offl_vec # <<>> => "overtaken" \in faults')
      BY <1>2 DEF Writes
    <2>3. /\ \A m \in ToSet(stored) \cup ToSet(offl_vec) : m < sent'
          /\ After(sent', Kept) /\ After(sent', ToSet(offl_vec)) /\ After(sent', ToSet(stored))
          /\ sent' \notin ToSet(stored) \cup ToSet(offl_vec) \cup Kept
      <3> HIDE DEF OrderInv
      <3>1. \A n \in Nat : n <= sent => n < sent'
        BY <2>1
      <3>2. \A m \in ToSet(stored) \cup ToSet(offl_vec) : m \in Theirs /\ m \in Nat /\ m < sent'
        BY <3>1, Waiting, TheirsAreNumbers DEF OrderInv, Numbered
      <3>3. \A m \in Kept : m \in Theirs => m \in Nat /\ m < sent'
        BY <3>1, TheirsAreNumbers DEF OrderInv, Numbered
      <3>4. sent' \in Nat
        BY <2>1
      <3> QED
        BY <2>1, <3>2, <3>3, <3>4 DEF After
    <2>4. Lists'
      BY <2>1, <2>2 DEF Lists, None, Sorted, Clearing
    <2>5. CASE Listens
      <3> DEFINE p == [kind |-> "message", m |-> sent']
      <3>1. p \in Packets /\ Send(p) /\ IsMessage(p) /\ p.m = sent' /\ stored' = stored
        BY <1>2, <2>1, <2>5, ArePackets DEF Writes, IsMessage
      <3> HIDE DEF p
      <3>2. WireSorted' /\ ToSet(wire') = ToSet(wire) \cup {p}
        BY <2>1, <3>1, MessageSent, WireSent DEF Queued
      <3>3. Numbered'
        BY <2>1, <3>1, <3>2, Waiting, TheirsAreNumbers DEF Numbered, Kept
      <3>4. Queued'
        BY <2>1, <3>1, <3>2 DEF Queued, Sorted
      <3>5. NotYet'
        BY <2>1, <2>2, <2>3, <3>1, <3>2 DEF NotYet, None, Kept, Deleting
      <3>6. None({"overtaken"})' => ToSet(stored) = {} /\ ToSet(offl_vec) = {}
        <4>1. stored \in Seq(Theirs) /\ offl_vec \in Seq(Theirs)
          BY DEF TypeInv, StoredT
        <4>2. "overtaken" \notin faults' => stored = <<>> /\ offl_vec = <<>>
          BY <2>2, <2>5, <4>1, ConcatEqualIffEmpty
        <4> QED
          BY <4>2, ToSetEmpty DEF None
      <3>7. Older'
        BY <2>1, <2>2, <2>3, <3>1, <3>2, <3>6 DEF Older, None, Kept, Deleting
      <3> QED
        BY <2>4, <3>3, <3>4, <3>5, <3>7
    <2>6. CASE ~Listens
      <3>1. stored' = Append(stored, sent') /\ wire' = wire /\ stored \in Seq(Theirs)
        BY <1>2, <2>6 DEF Writes, TypeInv, StoredT
      <3>2. ToSet(stored') = ToSet(stored) \cup {sent'}
        BY <2>1, <3>1, StoredGrows
      <3>3. Sorted(stored')
        BY <2>1, <2>3, <3>1, SortedAppend DEF Queued
      <3>4. wire = <<>> /\ ToSet(wire') = {}
        BY <2>6, <3>1, ToSetEmpty DEF Before
      <3>5. Numbered'
        <4>1. sent' <= sent' /\ \A n \in Theirs : n <= sent => n <= sent'
          BY <2>1, TheirsAreNumbers
        <4>2. Kept' = Kept
          BY <2>1 DEF Kept
        <4> QED
          BY <2>1, <3>2, <3>4, <4>1, <4>2, Waiting DEF Numbered
      <3>6. Queued'
        BY <2>1, <3>1, <3>3 DEF Queued, WireSorted, Sorted
      <3>7. NotYet'
        BY <2>1, <2>2, <2>3, <3>2, <3>4 DEF NotYet, None, Kept, Deleting
      <3>8. Older'
        BY <2>1, <2>2, <2>3, <3>2, <3>4 DEF Older, None, Kept, Deleting
      <3> QED
        BY <2>4, <3>5, <3>6, <3>7, <3>8
    <2> QED
      BY <2>5, <2>6
  <1>3. CASE Serves
    <2>1. /\ UNCHANGED <<fetch, offl_vec, messageList, history, sent, written, faults>>
          /\ (Clearing' <=> Clearing)
      BY <1>3 DEF Serves, Clearing, others, offline, kept, bounds, busy
    <2>2. ToSet(requests) = {Head(requests)} \cup ToSet(requests')
      BY <1>3, RequestServed DEF Serves
    <2>3. CASE Head(requests) = "OFFLINE_DELETE"
      <3>1. stored' = <<>> /\ wire' = wire
        BY <1>3, <2>3 DEF Serves
      <3>2. ToSet(stored') = {} /\ Sorted(stored')
        BY <3>1, ToSetEmpty, EmptySeq DEF Sorted
      <3>3. Numbered' /\ Queued'
        BY <2>1, <3>1, <3>2 DEF Numbered, Queued, Kept, WireSorted, Sorted
      <3>4. NotYet' /\ Older' /\ Lists'
        BY <2>1, <3>1, <3>2 DEF NotYet, Older, Lists, None, Kept, Sorted
      <3> QED
        BY <3>3, <3>4
    <2>4. CASE Head(requests) # "OFFLINE_DELETE"
      <3>1. stored' = stored /\ (Deleting' <=> Deleting)
        BY <1>3, <2>2, <2>4 DEF Serves, Deleting
      <3>2. stored \in Seq(Theirs) /\ peer.x \in 0 .. X_STATUS_MAX_BOUND
        BY Looking DEF TypeInv, StoredT
      <3>3. (\E p \in Packets : ~IsMessage(p) /\ Send(p)) \/ wire' = wire
        BY <1>3, <2>4, <3>2, ArePackets DEF Serves, IsMessage
      <3> QED
        BY <2>1, <3>1, <3>3, OrderSame
    <2> QED
      BY <2>3, <2>4
  <1>4. CASE Login
    <2>1. /\ UNCHANGED <<stored, offl_vec, messageList, history, sent, written>> /\ faults \subseteq faults'
          /\ (Clearing' <=> Clearing) /\ (fetch' = "show" => fetch = "show")
      BY <1>4 DEF Login, Clearing, server, others, offline, kept, bounds, busy
    <2>2. Deleting => Deleting' \/ "undeleted" \in faults'
      BY <1>4 DEF Login, Deleting, server, others, offline, kept, bounds
    <2>3. wire' = wire
      BY <1>4 DEF Login, server
    <2> QED
      BY <2>1, <2>2, <2>3, OrderSame
  <1>5. CASE sendReady
    <2>1. /\ UNCHANGED <<stored, offl_vec, messageList, history, sent, written>> /\ faults \subseteq faults'
          /\ (Clearing' <=> Clearing) /\ (fetch' = "show" => fetch = "show")
      BY <1>5 DEF sendReady, Clearing, others, offline, kept, bounds, Send, busy
    <2>2. Deleting => Deleting' \/ "undeleted" \in faults'
      BY <1>5 DEF sendReady, Deleting, others, offline, kept, bounds, Send
    <2>3. (\E p \in Packets : ~IsMessage(p) /\ Send(p)) \/ wire' = wire
      BY <1>5, ArePackets DEF sendReady, IsMessage, TypeInv, LookT
    <2> QED
      BY <2>1, <2>2, <2>3, OrderSame
  <1>6. CASE activateSSI
    <2>1. /\ UNCHANGED <<stored, offl_vec, messageList, history, sent, written>> /\ faults \subseteq faults'
          /\ (Clearing' <=> Clearing) /\ (fetch' = "show" => fetch = "show")
      BY <1>6 DEF activateSSI, Clearing, server, others, offline, kept, bounds, busy
    <2>2. Deleting => Deleting' \/ "undeleted" \in faults'
      BY <1>6 DEF activateSSI, Deleting, server, others, offline, kept, bounds
    <2>3. wire' = wire
      BY <1>6 DEF activateSSI, server
    <2> QED
      BY <2>1, <2>2, <2>3, OrderSame
  <1>7. CASE sendStatus
    <2>1. /\ UNCHANGED <<stored, offl_vec, messageList, history, sent, written>> /\ faults \subseteq faults'
          /\ (Clearing' <=> Clearing) /\ (fetch' = "show" => fetch = "show")
      BY <1>7 DEF sendStatus, Clearing, server, others, kept, bounds, busy
    <2>2. Deleting => Deleting' \/ "undeleted" \in faults'
      BY <1>7 DEF sendStatus, Deleting, server, others, kept, bounds
    <2>3. wire' = wire
      BY <1>7 DEF sendStatus, server
    <2> QED
      BY <2>1, <2>2, <2>3, OrderSame
  <1>8. CASE Drop
    <2>1. /\ UNCHANGED <<stored, offl_vec, messageList, history, sent, written>> /\ faults \subseteq faults'
          /\ (Clearing' <=> Clearing) /\ (fetch' = "show" => fetch = "show")
      BY <1>8 DEF Drop, Clearing, others, offline, kept, bounds, Dropped, Lost, busy
    <2>2. Deleting => Deleting' \/ "undeleted" \in faults'
      BY <1>8 DEF Drop, Lost, Deleting
    <2>3. wire' = <<>>
      BY <1>8 DEF Drop, Dropped
    <2> QED
      BY <2>1, <2>2, <2>3, OrderSame
  <1>9. CASE Cache
    <2>1. /\ UNCHANGED <<stored, offl_vec, messageList, history, sent, written>> /\ faults \subseteq faults'
          /\ (Clearing' <=> Clearing) /\ (fetch' = "show" => fetch = "show")
      BY <1>9 DEF Cache, Clearing, others, offline, kept, bounds, Received, Packet, busy
    <2>2. Deleting => Deleting' \/ "undeleted" \in faults'
      BY <1>9 DEF Cache, Deleting, others, offline, kept, bounds, Received, Packet
    <2>3. Received
      BY <1>9 DEF Cache
    <2> QED
      BY <2>1, <2>2, <2>3, OrderSame
  <1>10. CASE slot_onIncomingMsg
    <2>1. /\ Received /\ IsMessage(Packet) /\ messageList' = Append(messageList, Packet.m)
          /\ UNCHANGED <<requests, stored, fetch, offl_vec, history, sent, written, gui, faults>>
      BY <1>10 DEF slot_onIncomingMsg, IsMessage, others, offline, bounds, busy
    <2>2. /\ Packet \in Packets /\ Packet.m \in Theirs
          /\ ToSet(wire) = {Packet} \cup ToSet(wire')
      BY <2>1, WireRead, OfPackets DEF IsMessage
    <2>3. ToSet(messageList') = ToSet(messageList) \cup {Packet.m}
      BY <2>1, <2>2, ListGrows
    <2>4. /\ WireSorted' /\ \A p \in ToSet(wire') : IsMessage(p) => Packet.m < p.m
      BY <2>1, WireQuiet, MessageRead DEF Queued
    <2>5. Lists'
      BY <2>1, <2>2, ListAppended DEF NotYet, Older, Clearing, None
    <2>6. Numbered'
      BY <2>1, <2>2, <2>3, TheirsAreNumbers DEF Numbered, Kept
    <2>7. Queued'
      BY <2>1, <2>4 DEF Queued, Sorted
    <2>8. NotYet'
      <3>1. \A p \in ToSet(wire') : IsMessage(p) => p.m # Packet.m
        <4>1. Packet.m \in Nat
          BY <2>2, TheirsAreNumbers
        <4>2. \A n : Packet.m < n => n # Packet.m
          BY <4>1
        <4> QED
          BY <2>4, <4>2
      <3> QED
        BY <2>1, <2>2, <2>3, <3>1 DEF NotYet, None, Kept, Deleting
    <2>9. Older'
      BY <2>1, <2>2, <2>3, <2>4 DEF Older, None, Kept, Deleting, After
    <2> QED
      BY <2>5, <2>6, <2>7, <2>8, <2>9
  <1>11. CASE AddEntry
    <2>1. /\ UNCHANGED <<stored, offl_vec, messageList, history, sent, written>> /\ faults \subseteq faults'
          /\ (Clearing' <=> Clearing) /\ (fetch' = "show" => fetch = "show")
      BY <1>11 DEF AddEntry, Clearing, others, kept, bounds, Received, Packet, busy
    <2>2. Deleting => Deleting' \/ "undeleted" \in faults'
      BY <1>11 DEF AddEntry, Deleting, kept, bounds, Received, Packet
    <2>3. Received
      BY <1>11 DEF AddEntry
    <2> QED
      BY <2>1, <2>2, <2>3, OrderSame
  <1>12. CASE parseXtrazResponse
    <2>1. /\ UNCHANGED <<stored, offl_vec, messageList, history, sent, written>> /\ faults \subseteq faults'
          /\ (Clearing' <=> Clearing) /\ (fetch' = "show" => fetch = "show")
      BY <1>12 DEF parseXtrazResponse, Clearing, others, offline, kept, bounds, Received, Packet,
         busy
    <2>2. Deleting => Deleting' \/ "undeleted" \in faults'
      BY <1>12 DEF parseXtrazResponse, Deleting, bounds, Received, Packet
    <2>3. Received
      BY <1>12 DEF parseXtrazResponse
    <2> QED
      BY <2>1, <2>2, <2>3, OrderSame
  <1>13. CASE OfflineNotify
    <2>1. /\ UNCHANGED <<stored, offl_vec, messageList, history, sent, written>> /\ faults \subseteq faults'
          /\ (Clearing' <=> Clearing) /\ (fetch' = "show" => fetch = "show")
      BY <1>13 DEF OfflineNotify, Clearing, others, offline, kept, bounds, Received, Packet, busy
    <2>2. Deleting => Deleting' \/ "undeleted" \in faults'
      BY <1>13 DEF OfflineNotify, Deleting, offline, kept, bounds, Received, Packet
    <2>3. Received
      BY <1>13 DEF OfflineNotify
    <2> QED
      BY <2>1, <2>2, <2>3, OrderSame
  <1>14. CASE parseOnlineNotify
    <2>1. /\ UNCHANGED <<stored, offl_vec, messageList, history, sent, written>> /\ faults \subseteq faults'
          /\ (Clearing' <=> Clearing) /\ (fetch' = "show" => fetch = "show")
      BY <1>14 DEF parseOnlineNotify, Clearing, others, offline, kept, bounds, Received, Packet,
         busy
    <2>2. Deleting => Deleting' \/ "undeleted" \in faults'
      BY <1>14 DEF parseOnlineNotify, Deleting, bounds, Received, Packet
    <2>3. Received
      BY <1>14 DEF parseOnlineNotify
    <2> QED
      BY <2>1, <2>2, <2>3, OrderSame
  <1>15. CASE ReadCapabilities
    <2>1. /\ UNCHANGED <<stored, offl_vec, messageList, history, sent, written>> /\ faults \subseteq faults'
          /\ (Clearing' <=> Clearing) /\ (fetch' = "show" => fetch = "show")
      BY <1>15 DEF ReadCapabilities, Clearing, others, offline, kept, bounds, sendXtrazRequest,
         busy
    <2>2. Deleting => Deleting' \/ "undeleted" \in faults'
      BY <1>15, RequestSent DEF ReadCapabilities, sendXtrazRequest, Deleting
    <2>3. wire' = wire
      BY <1>15 DEF ReadCapabilities, sendXtrazRequest
    <2> QED
      BY <2>1, <2>2, <2>3, OrderSame
  <1>16. CASE OnlineNotify
    <2>1. /\ UNCHANGED <<stored, offl_vec, messageList, history, sent, written>> /\ faults \subseteq faults'
          /\ (Clearing' <=> Clearing) /\ (fetch' = "show" => fetch = "show")
      BY <1>16 DEF OnlineNotify, Clearing, server, others, offline, kept, bounds, busy
    <2>2. Deleting => Deleting' \/ "undeleted" \in faults'
      BY <1>16 DEF OnlineNotify, Deleting, server, others, offline, kept, bounds
    <2>3. wire' = wire
      BY <1>16 DEF OnlineNotify, server
    <2> QED
      BY <2>1, <2>2, <2>3, OrderSame
  <1>17. CASE AskStored
    <2>1. /\ UNCHANGED <<stored, offl_vec, messageList, history, sent, written>> /\ faults \subseteq faults'
          /\ (Clearing' <=> Clearing) /\ (fetch' = "show" => fetch = "show")
      BY <1>17 DEF AskStored, Clearing, others, kept, bounds, askOfflMsgAction, busy
    <2>2. Deleting => Deleting' \/ "undeleted" \in faults'
      BY <1>17, RequestSent DEF AskStored, askOfflMsgAction, Deleting
    <2>3. wire' = wire
      BY <1>17 DEF AskStored, askOfflMsgAction
    <2> QED
      BY <2>1, <2>2, <2>3, OrderSame
  <1>18. CASE getOfflMsg
    <2>1. /\ ToSet(offl_vec') \subseteq ToSet(stored) /\ ToSet(offl_vec) = {} /\ fetch' = "delete"
          /\ UNCHANGED <<wire, requests, stored, messageList, history, sent, written, gui, faults>>
      BY <1>18, ToSetEmpty DEF getOfflMsg, Flow, server, others, kept, bounds, busy
    <2>2. Numbered' /\ Queued' /\ Lists'
      BY <2>1 DEF Numbered, Queued, Lists, Kept, WireSorted, None, Sorted, Clearing
    <2>3. NotYet' /\ Older'
      BY <2>1 DEF NotYet, Older, None, Kept, Deleting
    <2> QED
      BY <2>2, <2>3
  <1>19. CASE GiveUp
    <2>1. /\ UNCHANGED <<stored, offl_vec, messageList, history, sent, written>> /\ faults \subseteq faults'
          /\ (Clearing' <=> Clearing) /\ (fetch' = "show" => fetch = "show")
      BY <1>19 DEF GiveUp, Clearing, server, others, kept, bounds, busy
    <2>2. Deleting => Deleting' \/ "undeleted" \in faults'
      BY <1>19 DEF GiveUp, Deleting, server, others, kept, bounds
    <2>3. wire' = wire
      BY <1>19 DEF GiveUp, server
    <2> QED
      BY <2>1, <2>2, <2>3, OrderSame
  <1>20. CASE DeleteStored
    <2>1. /\ fetch = "delete"
          /\ UNCHANGED <<wire, stored, messageList, history, sent, written, gui, faults>>
      BY <1>20 DEF DeleteStored, others, kept, bounds, busy
    <2>2. CASE phase # "off"
      <3>1. /\ fetch' = "show" /\ offl_vec' = offl_vec /\ offl_vec = stored /\ ~Deleting /\ Deleting'
        BY <1>20, <2>1, <2>2, RequestSent DEF DeleteStored, askOfflMsgAction, Flow, Deleting
      <3>2. Numbered' /\ Queued' /\ Lists'
        BY <2>1, <3>1 DEF Numbered, Queued, Lists, Kept, WireSorted, None, Sorted, Clearing
      <3>3. NotYet' /\ Older'
        BY <2>1, <3>1 DEF NotYet, Older, None, Kept
      <3> QED
        BY <3>2, <3>3
    <2>3. CASE phase = "off"
      <3>1. fetch' = "no" /\ ToSet(offl_vec') = {} /\ requests' = requests
        BY <1>20, <2>3, ToSetEmpty DEF DeleteStored, askOfflMsgAction
      <3>2. Numbered' /\ Queued' /\ Lists'
        BY <2>1, <3>1 DEF Numbered, Queued, Lists, Kept, WireSorted, None, Sorted, Clearing
      <3>3. NotYet' /\ Older'
        BY <2>1, <3>1 DEF NotYet, Older, None, Kept, Deleting
      <3> QED
        BY <3>2, <3>3
    <2> QED
      BY <2>2, <2>3
  <1>21. CASE ShowStored
    <2>1. fetch = "show" /\ UNCHANGED <<wire, requests, stored, history, sent, written, gui, faults>>
      BY <1>21 DEF ShowStored, server, others, bounds, busy
    <2>2. CASE offl_vec = <<>>
      <3>1. fetch' = "no" /\ UNCHANGED <<offl_vec, messageList>>
        BY <1>21, <2>2 DEF ShowStored
      <3> QED
        BY <2>1, <3>1, OrderSame DEF Clearing, Deleting
    <2>3. CASE offl_vec # <<>>
      <3> DEFINE m == Head(offl_vec)
      <3>1. messageList' = Append(messageList, m) /\ offl_vec' = Tail(offl_vec) /\ fetch' = fetch
        BY <1>21, <2>3 DEF ShowStored
      <3>2. m \in Theirs /\ ToSet(offl_vec) = {m} \cup ToSet(offl_vec')
        BY <2>3, <3>1, OneTaken
      <3>3. Sorted(offl_vec') /\ \A n \in ToSet(offl_vec') : m < n
        BY <2>1, <2>3, <3>1, SortedTail DEF Queued, TypeInv, StoredT
      <3> HIDE DEF m
      <3>4. ToSet(messageList') = ToSet(messageList) \cup {m}
        BY <3>1, <3>2, ListGrows
      <3>5. Lists'
        BY <2>1, <3>1, <3>2, ListAppended DEF NotYet, Older, Clearing, None
      <3>6. Numbered'
        BY <2>1, <3>2, <3>4, TheirsAreNumbers DEF Numbered, Kept
      <3>7. Queued'
        BY <2>1, <3>1, <3>3 DEF Queued, WireSorted, Sorted
      <3>8. NotYet'
        <4>1. m \notin ToSet(offl_vec')
          BY <3>2, <3>3, TheirsAreNumbers
        <4> QED
          BY <2>1, <3>1, <3>2, <3>4, <4>1 DEF NotYet, None, Kept, Deleting
      <3>9. Older'
        BY <2>1, <3>1, <3>2, <3>3, <3>4 DEF Older, None, Kept, Deleting, After
      <3> QED
        BY <3>5, <3>6, <3>7, <3>8, <3>9
    <2> QED
      BY <2>2, <2>3
  <1>22. CASE openChat
    <2>1. /\ UNCHANGED <<stored, offl_vec, messageList, history, sent, written>> /\ faults \subseteq faults'
          /\ (Clearing' <=> Clearing) /\ (fetch' = "show" => fetch = "show")
      BY <1>22 DEF openChat, Clearing, server, others, offline, kept, bounds, busy
    <2>2. Deleting => Deleting' \/ "undeleted" \in faults'
      BY <1>22 DEF openChat, Deleting, server, others, offline, kept, bounds
    <2>3. wire' = wire
      BY <1>22 DEF openChat, server
    <2> QED
      BY <2>1, <2>2, <2>3, OrderSame
  <1>23. CASE Type
    <2>1. /\ UNCHANGED <<stored, offl_vec, messageList, history, sent, written>> /\ faults \subseteq faults'
          /\ (Clearing' <=> Clearing) /\ (fetch' = "show" => fetch = "show")
      BY <1>23 DEF Type, Clearing, others, offline, kept, bounds, mesTextChanged, mesTyped,
         sendMTN, busy
    <2>2. Deleting => Deleting' \/ "undeleted" \in faults'
      BY <1>23 DEF Type, Deleting, bounds, mesTextChanged, mesTyped, sendMTN
    <2>3. wire' = wire
      BY <1>23 DEF Type, mesTextChanged, mesTyped, sendMTN
    <2> QED
      BY <2>1, <2>2, <2>3, OrderSame
  <1>24. CASE closeChat
    <2>1. /\ UNCHANGED <<stored, offl_vec, messageList, history, sent, written>> /\ faults \subseteq faults'
          /\ (Clearing' <=> Clearing) /\ (fetch' = "show" => fetch = "show")
      BY <1>24 DEF closeChat, Clearing, others, offline, kept, bounds, busy
    <2>2. Deleting => Deleting' \/ "undeleted" \in faults'
      BY <1>24 DEF closeChat, Deleting, others, offline, kept, bounds
    <2>3. wire' = wire
      BY <1>24 DEF closeChat
    <2> QED
      BY <2>1, <2>2, <2>3, OrderSame
  <1>25. CASE sendClick
    <2>1. /\ UNCHANGED <<stored, offl_vec, messageList, history, sent, written>> /\ faults \subseteq faults'
          /\ (Clearing' <=> Clearing) /\ (fetch' = "show" => fetch = "show")
      BY <1>25 DEF sendClick, Clearing, others, offline, kept, bounds, mesTextChanged, mesTyped,
         sendMTN, stopTimerTyped, InChat
    <2>2. Deleting => Deleting' \/ "undeleted" \in faults'
      BY <1>25 DEF sendClick, Deleting, bounds, mesTextChanged, mesTyped, sendMTN,
         stopTimerTyped, InChat
    <2>3. wire' = wire
      BY <1>25 DEF sendClick, mesTextChanged, mesTyped, sendMTN, stopTimerTyped, InChat
    <2> QED
      BY <2>1, <2>2, <2>3, OrderSame
  <1>26. CASE slotClearChat
    <2>1. /\ ~Clearing /\ Clearing' /\ faults \subseteq faults'
          /\ history' = history \o messageList \/ history' = history
          /\ UNCHANGED <<wire, requests, stored, fetch, offl_vec, messageList, sent, written>>
      BY <1>26 DEF slotClearChat, Save, Clearing, server, others, offline, bounds
    <2>2. /\ Kept' = Kept /\ messageList \in Seq(Theirs \cup Mine) /\ history \in Seq(Theirs \cup Mine)
      BY <2>1, HistoryGrows DEF Kept, TypeInv, KeptT
    <2>3. Numbered' /\ Queued' /\ NotYet' /\ Older'
      BY <2>1, <2>2 DEF Numbered, Queued, WireSorted, Sorted, NotYet, Older, None, Deleting
    <2>4. None({"undeleted"})' => IsInjective(history')
      BY <2>1, <2>2, OnceConcat DEF Lists, None
    <2>5. None({"undeleted", "overtaken"})' => Sorted(history')
      BY <2>1, <2>2, SortedConcat DEF Lists, None
    <2>6. Lists'
      BY <2>1, <2>4, <2>5 DEF Lists, None, Sorted
    <2> QED
      BY <2>3, <2>6
  <1>27. CASE Exit
    <2>1. /\ ~Clearing /\ Clearing' /\ faults \subseteq faults'
          /\ history' = history \o messageList \/ history' = history
          /\ UNCHANGED <<wire, requests, stored, fetch, offl_vec, messageList, sent, written>>
      BY <1>27 DEF Exit, Save, Clearing, server, others, offline, bounds
    <2>2. /\ Kept' = Kept /\ messageList \in Seq(Theirs \cup Mine) /\ history \in Seq(Theirs \cup Mine)
      BY <2>1, HistoryGrows DEF Kept, TypeInv, KeptT
    <2>3. Numbered' /\ Queued' /\ NotYet' /\ Older'
      BY <2>1, <2>2 DEF Numbered, Queued, WireSorted, Sorted, NotYet, Older, None, Deleting
    <2>4. None({"undeleted"})' => IsInjective(history')
      BY <2>1, <2>2, OnceConcat DEF Lists, None
    <2>5. None({"undeleted", "overtaken"})' => Sorted(history')
      BY <2>1, <2>2, SortedConcat DEF Lists, None
    <2>6. Lists'
      BY <2>1, <2>4, <2>5 DEF Lists, None, Sorted
    <2> QED
      BY <2>3, <2>6
  <1>28. CASE timeDone
    <2>1. /\ UNCHANGED <<stored, offl_vec, messageList, history, sent, written>> /\ faults \subseteq faults'
          /\ (Clearing' <=> Clearing) /\ (fetch' = "show" => fetch = "show")
      BY <1>28 DEF timeDone, Clearing, others, offline, kept, bounds, mesTyped, sendMTN, busy
    <2>2. Deleting => Deleting' \/ "undeleted" \in faults'
      BY <1>28 DEF timeDone, Deleting, offline, kept, bounds, mesTyped, sendMTN
    <2>3. wire' = wire
      BY <1>28 DEF timeDone, mesTyped, sendMTN
    <2> QED
      BY <2>1, <2>2, <2>3, OrderSame
  <1>29. CASE sendMessange
    <2> DEFINE m == MaxTheirs + 1 + written
    <2>1. /\ messageList' = Append(messageList, m) /\ written' = written + 1 /\ ~Clearing /\ ~Clearing'
          /\ faults \subseteq faults'
          /\ UNCHANGED <<wire, requests, stored, fetch, offl_vec, history, sent>>
      BY <1>29 DEF sendMessange, sendMessage, Clearing, others, offline
    <2>2. m \in Mine /\ m \notin Theirs /\ m \in Nat /\ ~(m <= MaxTheirs + written) /\ m <= MaxTheirs + written'
      <3>1. written \in 0 .. MaxMine - 1 /\ MaxTheirs \in Nat /\ MaxMine \in Nat
        BY <1>29, MessagesAssumption DEF sendMessange, TypeInv, KeptT
      <3> QED
        BY <2>1, <3>1 DEF Mine, Theirs
    <2> HIDE DEF m
    <2>3. ToSet(messageList') = ToSet(messageList) \cup {m}
      BY <2>1, <2>2, ListGrows
    <2>4. m \notin Kept
      BY <2>2 DEF Numbered
    <2>5. Lists'
      BY <2>1, <2>2, <2>4, ListAppended
    <2>6. Numbered'
      <3>1. \A n \in Mine : n <= MaxTheirs + written => n <= MaxTheirs + written'
        BY <2>1, MessagesAssumption, TheirsAreNumbers DEF TypeInv, KeptT
      <3> QED
        BY <2>1, <2>2, <2>3, <3>1 DEF Numbered, Kept
    <2>7. Queued'
      BY <2>1 DEF Queued, WireSorted, Sorted
    <2>8. NotYet'
      <3>1. /\ \A p \in ToSet(wire) : IsMessage(p) => p.m # m
            /\ \A n \in ToSet(offl_vec) \cup ToSet(stored) : n # m
        BY <2>2, Waiting
      <3> QED
        BY <2>1, <2>3, <3>1 DEF NotYet, None, Kept, Deleting
    <2>9. Older'
      BY <2>1, <2>2, <2>3 DEF Older, None, Kept, Deleting, After
    <2> QED
      BY <2>5, <2>6, <2>7, <2>8, <2>9
  <1>30. CASE ClearList
    <2>1. /\ messageList' = <<>> /\ Clearing /\ ~Clearing' /\ faults \subseteq faults'
          /\ UNCHANGED <<wire, requests, stored, fetch, offl_vec, history, sent, written>>
      BY <1>30 DEF ClearList, Clearing, server, others, offline, bounds
    <2> QED
      BY <2>1, Emptied
  <1>31. CASE Quit
    <2>1. Restarted /\ faults \subseteq faults' /\ (Deleting => "undeleted" \in faults')
      BY <1>31 DEF Quit, Lost, Deleting
    <2>2. /\ messageList' = <<>> /\ offl_vec' = <<>> /\ wire' = <<>> /\ fetch' = "no"
          /\ UNCHANGED <<stored, history, sent, written>>
      BY <2>1 DEF Restarted, Dropped, others
    <2> QED
      BY <2>1, <2>2, Emptied
  <1>32. CASE Crash
    <2>1. Restarted /\ faults \subseteq faults' /\ (Deleting => "undeleted" \in faults')
      BY <1>32 DEF Crash, Lost, Deleting
    <2>2. /\ messageList' = <<>> /\ offl_vec' = <<>> /\ wire' = <<>> /\ fetch' = "no"
          /\ UNCHANGED <<stored, history, sent, written>>
      BY <2>1 DEF Restarted, Dropped, others
    <2> QED
      BY <2>1, <2>2, Emptied
  <1>33. CASE Gets
    <2>1. /\ UNCHANGED <<stored, offl_vec, messageList, history, sent, written, fetch, faults>>
          /\ UNCHANGED <<wire, gui, requests>>
      BY <1>33 DEF Gets, others, offline, kept, busy, bounds
    <2> QED
      BY <2>1, OrderSame DEF Clearing, Deleting
  <1> QED
    BY <1>1, <1>2, <1>3, <1>4, <1>5, <1>6, <1>7, <1>8, <1>9, <1>10, <1>11, <1>12, <1>13, <1>14,
       <1>15, <1>16, <1>17, <1>18, <1>19, <1>20, <1>21, <1>22, <1>23, <1>24, <1>25, <1>26,
       <1>27, <1>28, <1>29, <1>30, <1>31, <1>32, <1>33 DEF Next, Reader, getOfflineMessages, User

LEMMA OrderInit == Init => OrderInv
  <1> SUFFICES ASSUME Init PROVE OrderInv
    OBVIOUS
  <1>1. /\ wire = <<>> /\ stored = <<>> /\ offl_vec = <<>> /\ messageList = <<>> /\ history = <<>>
        /\ fetch = "no"
    BY DEF Init
  <1>2. /\ ToSet(wire) = {} /\ ToSet(stored) = {} /\ ToSet(offl_vec) = {}
        /\ ToSet(messageList) = {} /\ ToSet(history) = {}
    BY <1>1, ToSetEmpty
  <1>3. /\ Sorted(stored) /\ Sorted(messageList) /\ Sorted(history) /\ WireSorted
        /\ IsInjective(messageList) /\ IsInjective(history)
    BY <1>1, EmptySeq DEF Sorted, WireSorted, IsInjective
  <1>4. Numbered /\ Queued /\ NotYet /\ Older
    BY <1>1, <1>2, <1>3 DEF Numbered, Queued, NotYet, Older, Kept
  <1>5. Lists
    BY <1>2, <1>3 DEF Lists
  <1> QED
    BY <1>4, <1>5 DEF OrderInv

LEMMA OrderStep ==
  TypeInv /\ TypeInv' /\ DeliveryInv /\ PresenceInv /\ OrderInv /\ [Next]_vars => OrderInv'
  BY OrderNext, OrderSame DEF vars, server, others, offline, kept, bounds, DeliveryInv,
     PresenceInv, Clearing, Deleting, busy

LEMMA Ordered == Spec => []OrderInv
  BY OrderInit, OrderStep, Typed, Delivered, Present, PTL DEF Spec

\* However many messages come on the wire, from the server's store and from the user, and
\* whenever lists are saved, cleared and fetched: none is shown twice, and none of the contact
\* before one it sent earlier, but for the two ways of the code that do it.
THEOREM OrderTheorem == Spec => []OnceInOrder
  <1>1. TypeInv /\ OrderInv => OnceInOrder
    <2> SUFFICES ASSUME TypeInv, OrderInv PROVE OnceInOrder
      OBVIOUS
    <2>1. history \in Seq(Theirs \cup Mine) /\ messageList \in Seq(Theirs \cup Mine)
      BY DEF TypeInv, KeptT
    <2>2. ShownOnce
      BY <2>1, OnceConcat DEF ShownOnce, Shown, OrderInv, Lists, None, Clearing
    <2>3. InOrder
      <3> SUFFICES ASSUME faults \cap {"overtaken", "undeleted"} = {}, ~Clearing PROVE Sorted(Shown)
        BY DEF InOrder, Clearing, Sorted
      <3>1. None({"undeleted", "overtaken"})
        BY DEF None
      <3> QED
        BY <2>1, <3>1, SortedConcat DEF Shown, OrderInv, Lists
    <2> QED
      BY <2>2, <2>3 DEF OnceInOrder
  <1> QED
    BY <1>1, Typed, Ordered, PTL

-----------------------------------------------------------------------------
(* The typing note *)

Told == mtn = "BEGIN" => connected /\ startTyped /\ chat

LEMMA ToldNext == ASSUME TypeInv, Told, Next PROVE Told'
  <1> USE DEF Told, connected
  <1>1. CASE openChat
    BY <1>1 DEF openChat, server, TypeInv, FormT
  <1>2. CASE Type
    BY <1>2 DEF Type, mesTextChanged, mesTyped, sendMTN, InChat, TypeInv, FormT
  <1>3. CASE closeChat
    BY <1>3 DEF closeChat, TypeInv, FormT
  <1>4. CASE sendClick
    BY <1>4 DEF sendClick, mesTextChanged, mesTyped, sendMTN, stopTimerTyped, InChat, TypeInv,
       FormT
  <1>5. CASE timeDone
    BY <1>5 DEF timeDone, mesTyped, sendMTN, InChat, TypeInv, FormT
  <1>6. CASE sendMessange
    BY <1>6 DEF sendMessange, mesTextChanged, mesTyped, sendMTN, sendMessage, TypeInv, FormT
  <1>7. CASE Drop
    BY <1>7 DEF Drop, Dropped
  <1>8. CASE Quit
    BY <1>8 DEF Quit, Restarted, Dropped
  <1>9. CASE Crash
    BY <1>9 DEF Crash, Restarted, Dropped
  <1>10. CASE Changes \/ Writes \/ Serves \/ Login \/ sendReady \/ activateSSI
    <2>1. UNCHANGED <<mtn, chat, startTyped>> /\ (phase' = phase \/ phase # "on")
      BY <1>10 DEF Changes, Writes, Serves, Login, sendReady, activateSSI, Send, server, form,
         bounds
    <2> QED
      BY <2>1
  <1>11. CASE sendStatus \/ Cache \/ slot_onIncomingMsg \/ AddEntry \/ parseXtrazResponse \/
            OfflineNotify
    <2>1. UNCHANGED <<mtn, chat, startTyped>> /\ (phase' = phase \/ phase # "on")
      BY <1>11 DEF sendStatus, Cache, slot_onIncomingMsg, AddEntry, parseXtrazResponse,
         OfflineNotify, Received, Packet, server, form, bounds
    <2> QED
      BY <2>1
  <1>12. CASE parseOnlineNotify \/ ReadCapabilities \/ OnlineNotify \/ AskStored \/ getOfflMsg \/
            GiveUp
    <2>1. UNCHANGED <<mtn, chat, startTyped>> /\ (phase' = phase \/ phase # "on")
      BY <1>12 DEF parseOnlineNotify, ReadCapabilities, OnlineNotify, AskStored, getOfflMsg,
         GiveUp, Received, Packet, sendXtrazRequest, askOfflMsgAction, server, form, bounds
    <2> QED
      BY <2>1
  <1>13. CASE DeleteStored \/ ShowStored \/ slotClearChat \/ Exit \/ ClearList
    <2>1. UNCHANGED <<mtn, chat, startTyped>> /\ (phase' = phase \/ phase # "on")
      BY <1>13 DEF DeleteStored, ShowStored, slotClearChat, Exit, ClearList, askOfflMsgAction,
         Save, server, form, bounds
    <2> QED
      BY <2>1
  <1>14. CASE Gets
    BY <1>14 DEF Gets, form
  <1> QED
    BY <1>1, <1>2, <1>3, <1>4, <1>5, <1>6, <1>7, <1>8, <1>9, <1>10, <1>11, <1>12, <1>13, <1>14
       DEF Next, Reader, getOfflineMessages, User

LEMMA ToldStep == TypeInv /\ Told /\ [Next]_vars => Told'
  BY ToldNext DEF Told, connected, vars, server, form

\* No contact is left with a note of a user whose chat is closed, whatever has become of the
\* connection in the meantime.
THEOREM TypingTheorem == Spec => [](~chat => mtn = "FINISH")
  <1>1. Init => Told
    BY DEF Init, Told
  <1>2. TypeInv /\ Told => (~chat => mtn = "FINISH")
    BY DEF Told, TypeInv, FormT
  <1> QED
    BY <1>1, <1>2, ToldStep, Typed, PTL DEF Spec
=============================================================================
