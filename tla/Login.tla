-------------------------------- MODULE Login --------------------------------
(***************************************************************************)
(* What is said when an account goes online: doConnect at the authorizer,  *)
(* doConnect_phase2 at the server it names, and zICQ::Connect around them. *)
(*                                                                         *)
(* Script is what the connect thread calls, in order.  The reader thread   *)
(* puts the replies in snac_cache, from which the calls take them, often   *)
(* long after they came; neither the cache nor the numbers of the requests *)
(* are reset for another attempt.  The server is external: it answers what *)
(* it gets, in order, and is modelled from what the client does with the   *)
(* answers.  Threads that overlap, of two attempts, are in Session.        *)
(***************************************************************************)
EXTENDS Payloads

CONSTANTS
  Servers,       \* what the server may have for the account
  Refusals,      \* codes it may refuse a login with
  MaxAttempts    \* bound: attempts to go online

ASSUME LoginAssumption ==
  /\ \A s \in Servers : s.parts # <<>> /\ DOMAIN s.families \subseteq Nat
  /\ Refusals \subseteq 1 .. 65535
  /\ MaxAttempts \in Nat

VARIABLES
  at,                  \* where the attempt is in Script, 0 for no attempt
  attempts,
  server,              \* what the server has during this attempt
  sock,                \* whom the socket connects to
  queue,               \* packets that were sent to the client and not read
  reader,              \* the reader thread runs
  network_break_flag,
  snac_cache,          \* what was read, with the attempt it was read in
  snac_seq_number,
  sync_id,             \* the number of the last request of each kind
  icq,                 \* what ICQKid2 has learnt, see Nothing
  connected,
  told,                \* the error the user was told of in this attempt, if any
  heard,               \* history: the requests the server has had in this connection
  refused,             \* history: the code it has refused this attempt with, or 0
  faults               \* history: what has come between in this attempt, see below

network == <<sock, queue, reader, network_break_flag>>
numbers == <<snac_seq_number, sync_id>>
history == <<heard, refused, faults>>
vars    == <<at, attempts, server, network, snac_cache, numbers, icq, connected, told, history>>

\* "lost"       a connection could not be made, or has broken
\* "timeout"    a reply has not come in 50 seconds
\* "cancelled"  the user has broken it off
\* "stale"      a reply of an earlier attempt was taken
Faults == {"lost", "timeout", "cancelled", "stale"}

-----------------------------------------------------------------------------
(* What doConnect calls *)

Phase1 ==
  <<"directConnect", "waitHello", "sendSignOn0", "sendMD5saltrequest", "startReadSNAC",
    "getMD5salt", "sendMD5authorize", "getBOSSparams", "sendSignOff">>

Phase2 ==
  <<"directConnect", "waitHello", "startReadSNAC", "sendSignOn2", "getServiceList",
    "askServices", "getServices", "askRateLimits", "getRateLimits", "sendRateLimits">>

\* sendICBMParams is a request for each of the channels.
Phase3 ==
  <<"askSelfInfo", "askSSILimit", "askSSICopy", "askLocationLimit", "askBLMLimit",
    "askICBMParams", "askPRMLimit", "getLocationLimit", "getBLMLimit", "getICBMParams",
    "getPRMLimit", "getSSILimit", "getSSICopy", "sendLocationInfo", "getSelfInfo",
    "sendICBMParams1", "sendICBMParams2", "sendICBMParams4", "sendStatus">>

Phase4 == <<"sendReady", "activateSSI", "sendStatus">>

Script == Phase1 \o Phase2 \o Phase3 \o Phase4
Online == Len(Script) + 1
Report == Len(Script) + 2

Doing(step) == at \in DOMAIN Script /\ Script[at] = step

\* The replies that are waited for: family, subtype, and the request they are for.
Waits ==
  [getMD5salt       |-> <<23, 0, <<23, 6>>>>, getBOSSparams    |-> <<23, 3, <<23, 2>>>>,
   getServiceList   |-> <<1, 3, <<0, 0>>>>,   getServices      |-> <<1, 24, <<0, 0>>>>,
   getRateLimits    |-> <<1, 7, <<1, 6>>>>,   getSelfInfo      |-> <<1, 15, <<1, 14>>>>,
   getLocationLimit |-> <<2, 3, <<2, 2>>>>,   getBLMLimit      |-> <<3, 3, <<3, 2>>>>,
   getICBMParams    |-> <<4, 5, <<4, 4>>>>,   getPRMLimit      |-> <<9, 3, <<9, 2>>>>,
   getSSILimit      |-> <<19, 3, <<19, 2>>>>, getSSICopy       |-> <<19, 6, <<19, 4>>>>]

\* getServiceList and getServices take any reply of their kind.
Requests == {Waits[step][3] : step \in DOMAIN Waits}

-----------------------------------------------------------------------------
(* The server *)

LoginHost == [host |-> <<300>>, port |-> 5190]
BOSS == [host |-> <<301>>, port |-> 5191]
Port == <<53, 49, 57, 49>>
url == <<302>>

Salt   == <<400 + attempts, 401, 402>>
Cookie == <<500 + attempts>>
MD5(salt, password) == <<600 + salt[1]>>

\* Some servers put something before the data of their replies.
Reply(fam, sub, more, req_id, data) ==
  SNACBytes([service_id |-> fam, subtype_id |-> sub, req_id |-> req_id,
             flags |-> (IF server.trash THEN 32768 ELSE 0) + (IF more THEN 1 ELSE 0),
             data |-> IF server.trash THEN Word(2) \o <<7, 7>> \o data ELSE data])

Families(fams) == FlattenSeq([i \in DOMAIN fams |-> Word(fams[i])])

\* The families and versions that were asked for, and are granted.
Asked(data) == [i \in 1 .. Len(data) \div 4 |-> <<WordAt(data, 4 * i - 4), WordAt(data, 4 * i - 2)>>]
Granted(pair) == IF pair[2] < server.families[pair[1]] THEN pair[2] ELSE server.families[pair[1]]

RateGroup(group_id) == Word(group_id) \o Word(2) \o Fill(8, 0)

RefusalBytes(code) == PackBytes(<<TLV(8, Word(code)), TLV(4, url)>>)

\* What it may answer a request with: the packets, and the code of a refusal.
Answers(fam, sub, req_id, data) ==
  LET one(s, d) == {[snacs |-> <<Reply(fam, s, FALSE, req_id, d)>>, code |-> 0]}
      no == {[snacs |-> <<Reply(23, 3, FALSE, req_id, RefusalBytes(c))>>, code |-> c] : c \in Refusals}
  IN  CASE <<fam, sub>> = <<23, 6>> -> one(7, Word(Len(Salt)) \o Salt) \cup no
        [] <<fam, sub>> = <<23, 2>> ->
             no \cup UNION {UNION {
               IF tlv.data = MD5(Salt, "password")
               THEN one(3, PackBytes(<<TLV(5, BOSS.host \o <<58>> \o Port), TLV(6, Cookie)>>)) ELSE {}
                 : tlv \in findTLV(tlvs, 37)} : tlvs \in TLVPack(data, 0)}
        [] <<fam, sub>> = <<1, 23>> ->
             LET served == SelectSeq(Asked(data), LAMBDA pair : pair[1] \in DOMAIN server.families)
             IN  one(24, FlattenSeq([i \in DOMAIN served |-> Word(served[i][1]) \o Word(Granted(served[i]))]))
        [] <<fam, sub>> = <<1, 6>> ->
             one(7, Word(server.classes) \o Fill(35 * server.classes, 1)
                      \o FlattenSeq([i \in DOMAIN server.rates |-> RateGroup(server.rates[i])]))
        [] <<fam, sub>> = <<4, 4>> -> one(5, ICBMBytes(0, 3))
        [] <<fam, sub>> = <<19, 4>> ->
             LET last == Len(server.parts)
             IN  {[snacs |-> [i \in 1 .. last |->
                                Reply(19, 6, i < last, req_id, SSIListBytes(server.parts[i]))],
                   code |-> 0]}
        [] <<fam, sub>> \in {<<1, 14>>, <<2, 2>>, <<3, 2>>, <<9, 2>>, <<19, 2>>} -> one(sub + 1, <<>>)
        [] OTHER -> {[snacs |-> <<>>, code |-> 0]}

-----------------------------------------------------------------------------
(* The contact list as the program keeps it *)

\* The last TLV of a type, or a default.
LastTLV(item, type, default) ==
  LET i == SelectLastInSeq(item.payload, LAMBDA tlv : tlv.type = type)
  IN  IF i = 0 THEN default ELSE item.payload[i].data

Entry(item) ==
  [uin |-> item.name, group |-> item.group_id, item |-> item.item_id,
   nick |-> LastTLV(item, 305, <<>>)]

OfType(items, type) == SelectSeq(items, LAMBDA item : item.type = type)
Entries(items, type) == [i \in DOMAIN OfType(items, type) |-> Entry(OfType(items, type)[i])]

Master(item) == item.group_id = 0

Privacy(status, tlv) == IF tlv.type = 202 /\ tlv.data # <<>> THEN tlv.data[1] ELSE status

\* Contacts (type 0), groups (1), the visible (2), invisible (3) and ignore (14) lists, and
\* the privacy (4), which stays what it was if the list says nothing of it.  Icons
\* (20) are passed over, the ids of all others kept.
NewList(items, old) ==
  LET groups == SelectSeq(OfType(items, 1), LAMBDA item : ~Master(item))
      buddies == OfType(items, 0)
      privacy == OfType(items, 4)
      group_of(item) == SelectInSeq(groups, LAMBDA g : g.group_id = item.group_id)
      group_name(item) == IF group_of(item) = 0 THEN <<>> ELSE groups[group_of(item)].name
  IN  [uins |-> [i \in DOMAIN buddies |->
                   [entry |-> Entry(buddies[i]), groupname |-> group_name(buddies[i]),
                    waitauth |-> \E j \in DOMAIN buddies[i].payload : buddies[i].payload[j].type = 102]],
       groups |-> [i \in DOMAIN groups |-> [id |-> groups[i].group_id, name |-> groups[i].name]],
       visible |-> Entries(items, 2), invisible |-> Entries(items, 3), ignore |-> Entries(items, 14),
       unknown |-> old.unknown \cup
         {items[i].item_id : i \in {j \in DOMAIN items : items[j].type \notin {0, 1, 2, 3, 4, 14, 20}}},
       privacy |-> FoldLeft(LAMBDA p, item : [item |-> item.item_id,
                                              status |-> FoldLeft(Privacy, p.status, item.payload)],
                            old.privacy, privacy)]

NoList ==
  [uins |-> <<>>, groups |-> <<>>, visible |-> <<>>, invisible |-> <<>>, ignore |-> <<>>,
   unknown |-> {}, privacy |-> [item |-> 0, status |-> 1]]

NoError == [code |-> 0, url |-> <<>>]

Nothing ==
  [connect_error |-> NoError, md5_salt |-> <<>>, boss |-> LoginHost, cookie |-> <<>>,
   server_services_list |-> <<>>, server_rate_groups |-> <<>>, items |-> <<>>, list |-> NoList]

-----------------------------------------------------------------------------
Init ==
  /\ at = 0 /\ attempts = 0 /\ server \in Servers
  /\ sock = "none" /\ queue = <<>> /\ reader = FALSE /\ network_break_flag = FALSE
  /\ snac_cache = <<>> /\ snac_seq_number = 1 /\ sync_id = [r \in Requests |-> 0]
  /\ icq = Nothing /\ connected = FALSE /\ told = {}
  /\ heard = <<>> /\ refused = 0 /\ faults = {}

Succeed == at' = at + 1

\* CLOSE_SOCK(sock); return false
Fail == at' = Report /\ sock' = "none"

-----------------------------------------------------------------------------
(* Connecting *)

\* Mutant: the error of the last attempt is kept.
Forget_KeepsError(i) == i

Forget(i) == [i EXCEPT !.connect_error = NoError]

\* The variables of the last attempt's calls are no more.
Anew(i) == [i EXCEPT !.md5_salt = <<>>, !.boss = LoginHost, !.cookie = <<>>, !.items = <<>>]

\* zICQ::Connect and the start of doConnect.  The first wait clears what has been
\* in the cache for too long.
Connect ==
  /\ at = 0 /\ ~reader /\ attempts < MaxAttempts
  /\ attempts' = attempts + 1
  /\ at' = 1 /\ network_break_flag' = FALSE
  /\ icq' = Anew(Forget(icq)) /\ told' = {}
  /\ snac_cache' \in {snac_cache, <<>>}
  /\ server' \in Servers
  /\ heard' = <<>> /\ refused' = 0 /\ faults' = {}
  /\ UNCHANGED <<sock, queue, reader, numbers, connected>>

Address == IF at < Len(Phase1) THEN LoginHost ELSE icq.boss

directConnect ==
  /\ Doing("directConnect")
  /\ \/ /\ Address \in {LoginHost, BOSS}
        /\ sock' = IF Address = BOSS THEN "BOSS" ELSE "login"
        /\ queue' = <<>> /\ heard' = <<>>
        /\ Succeed
        /\ UNCHANGED faults
     \/ Fail /\ faults' = faults \cup {"lost"} /\ UNCHANGED <<queue, heard>>
  /\ UNCHANGED <<attempts, server, reader, network_break_flag, snac_cache, numbers, icq, connected,
                 told, refused>>

\* Calls that exchange packets which are no SNACs, and others that need the socket only.
Exchange(packets) ==
  /\ \/ /\ sock # "none"
        /\ queue' = queue \o packets
        /\ Succeed /\ UNCHANGED sock
     \/ sock = "none" /\ Fail /\ UNCHANGED queue
  /\ UNCHANGED <<attempts, server, reader, network_break_flag, snac_cache, numbers, icq, connected,
                 told, history>>

\* The connect thread reads this packet itself.
waitHello == Doing("waitHello") /\ SignOnPacket(SignOnBytes(<<>>)) # {} /\ Exchange(<<>>)

sendSignOn0 == Doing("sendSignOn0") /\ Exchange(<<>>)

\* With the cookie the server knows who it is and names its families.
sendSignOn2 ==
  /\ Doing("sendSignOn2")
  /\ LET tlvs == SignOnPacket(SignOnBytes(<<TLV(6, icq.cookie)>>))
         known == tlvs = {<<TLV(6, Cookie)>>}
         families == SetToSortSeq(DOMAIN server.families, <)
     IN  Exchange(IF known THEN <<Reply(1, 3, FALSE, 0, Families(families))>> ELSE <<>>)

startReadSNAC ==
  /\ Doing("startReadSNAC")
  /\ reader' = TRUE
  /\ Succeed
  /\ UNCHANGED <<attempts, server, sock, queue, network_break_flag, snac_cache, numbers, icq,
                 connected, told, history>>

\* The first connection is closed and its reader cancelled.
sendSignOff ==
  /\ Doing("sendSignOff")
  /\ sock' = "none" /\ reader' = FALSE
  /\ Succeed
  /\ UNCHANGED <<attempts, server, queue, network_break_flag, snac_cache, numbers, icq, connected,
                 told, history>>

-----------------------------------------------------------------------------
(* Asking *)

sendSNAC(fam, sub, data) ==
  /\ network_break_flag' = FALSE
  /\ snac_seq_number' = snac_seq_number + 1
  /\ sync_id' = IF <<fam, sub>> \in Requests THEN [sync_id EXCEPT ![<<fam, sub>>] = snac_seq_number]
                ELSE sync_id
  /\ \/ /\ ~network_break_flag /\ sock # "none"
        /\ heard' = Append(heard, [fam |-> fam, sub |-> sub, data |-> data])
        /\ \E answer \in Answers(fam, sub, snac_seq_number, data) :
             /\ queue' = queue \o answer.snacs
             /\ refused' = IF answer.code = 0 THEN refused ELSE answer.code
        /\ Succeed /\ UNCHANGED sock
     \/ (network_break_flag \/ sock = "none") /\ Fail /\ UNCHANGED <<queue, heard, refused>>
  /\ UNCHANGED <<attempts, server, reader, snac_cache, icq, connected, told, faults>>

myuin == <<49, 50>>

sendMD5saltrequest ==
  /\ Doing("sendMD5saltrequest")
  /\ sendSNAC(23, 6, PackBytes(<<TLV(1, myuin), TLV(75, <<>>), TLV(90, <<>>)>>))

\* Name and version of the client, which follow, are left out.
sendMD5authorize ==
  /\ Doing("sendMD5authorize")
  /\ sendSNAC(23, 2, PackBytes(<<TLV(1, myuin), TLV(3, <<303>>),
                                 TLV(37, MD5(icq.md5_salt, "password"))>>))

\* Asked for if the server has the family.
AskedFamilies ==
  <<<<1, 4>>, <<19, 4>>, <<2, 1>>, <<3, 1>>, <<21, 1>>, <<4, 1>>, <<9, 1>>, <<16, 1>>>>

Has(services, fam) == \E i \in DOMAIN services : services[i][1] = fam

AskedOf(services) ==
  LET ask == SelectSeq(AskedFamilies, LAMBDA pair : Has(services, pair[1]))
  IN  FlattenSeq([i \in DOMAIN ask |-> Word(ask[i][1]) \o Word(ask[i][2])])

askServices ==
  Doing("askServices") /\ \E data \in {AskedOf(icq.server_services_list)} : sendSNAC(1, 23, data)

askRateLimits    == Doing("askRateLimits") /\ sendSNAC(1, 6, <<>>)
askSelfInfo      == Doing("askSelfInfo") /\ sendSNAC(1, 14, <<>>)
askSSILimit      == Doing("askSSILimit") /\ sendSNAC(19, 2, <<>>)
askSSICopy       == Doing("askSSICopy") /\ sendSNAC(19, 4, <<>>)
askLocationLimit == Doing("askLocationLimit") /\ sendSNAC(2, 2, <<>>)
askBLMLimit      == Doing("askBLMLimit") /\ sendSNAC(3, 2, <<>>)
askICBMParams    == Doing("askICBMParams") /\ sendSNAC(4, 4, <<>>)
askPRMLimit      == Doing("askPRMLimit") /\ sendSNAC(9, 2, <<>>)
activateSSI      == Doing("activateSSI") /\ sendSNAC(19, 7, <<>>)

sendRateLimits ==
  Doing("sendRateLimits") /\ sendSNAC(1, 8, FlattenSeq([i \in DOMAIN icq.server_rate_groups |->
                                                         Word(icq.server_rate_groups[i])]))

\* What the client can do: one symbol each, the x-status is left out.
Capabilities == <<304, 305, 306, 307, 308, 309, 310>>
sendLocationInfo == Doing("sendLocationInfo") /\ sendSNAC(2, 4, TLVBytes(TLV(5, Capabilities)))

sendICBMParams ==
  \/ Doing("sendICBMParams1") /\ sendSNAC(4, 2, ICBMBytes(1, 11))
  \/ Doing("sendICBMParams2") /\ sendSNAC(4, 2, ICBMBytes(2, 3))
  \/ Doing("sendICBMParams4") /\ sendSNAC(4, 2, ICBMBytes(4, 3))

\* The status is 0, online.
sendStatus == Doing("sendStatus") /\ sendSNAC(1, 30, PackBytes(<<TLV(6, DWord(0))>>))

ReadyFamilies == <<1, 19, 2, 3, 21, 4, 9>>

\* The first version in the list, of which one byte is sent.
Version(services, fam) == services[SelectInSeq(services, LAMBDA pair : pair[1] = fam)][2] % 256

sendReady ==
  LET ready == SelectSeq(ReadyFamilies, LAMBDA fam : Has(icq.server_services_list, fam))
  IN  /\ Doing("sendReady")
      /\ sendSNAC(1, 2, FlattenSeq([i \in DOMAIN ready |->
           <<0, ready[i], 0, Version(icq.server_services_list, ready[i]), 1, 16, 8, 228>>]))

-----------------------------------------------------------------------------
(* Getting *)

\* The oldest reply in the cache that a wait accepts, or 0.
Cached(fam, sub, req_id) ==
  SelectInSeq(snac_cache, LAMBDA e : /\ e.snd.service_id = fam
                                     /\ sub \in {0, e.snd.subtype_id}
                                     /\ req_id \in {0, e.snd.req_id})

Read(i) == [ok |-> TRUE, icq |-> i]
NotRead(i) == [ok |-> FALSE, icq |-> i]

\* Where the reply that a step waits for is in the cache, 0 if it is not, and the reply.
Found(step) ==
  LET wait == Waits[step]
  IN  Cached(wait[1], wait[2], IF wait[3] = <<0, 0>> THEN 0 ELSE sync_id[wait[3]])
Taken(step) == snac_cache[Found(step)].snd

\* A reply is taken from the cache; what is read of it tells what ICQKid2 knows then,
\* and whether the call succeeds.
waitSNAC(step, read) ==
  LET i == Found(step)
  IN  /\ Doing(step) /\ i # 0
      /\ snac_cache' = RemoveAt(snac_cache, i)
      /\ \E reading \in {read} :
           /\ icq' = reading.icq
           /\ IF reading.ok THEN Succeed /\ UNCHANGED sock ELSE Fail
      /\ faults' = IF snac_cache[i].attempt = attempts THEN faults ELSE faults \cup {"stale"}
      /\ UNCHANGED <<attempts, server, queue, reader, network_break_flag, numbers, connected, told,
                     heard, refused>>

\* The code and the url of a refusal, each kept if there is none.
Refused(tlvs) ==
  LET e == icq.connect_error
  IN  NotRead([icq EXCEPT !.connect_error =
        [code |-> FoldSet(LAMBDA tlv, n : WordAt(tlv.data, 0), e.code, findTLV(tlvs, 8)),
         url  |-> FoldSet(LAMBDA tlv, u : tlv.data, e.url, findTLV(tlvs, 4))]])

\* What all that is read has in common: no pack, no value.
The(S, Op(_)) == IF S = {} THEN NotRead(icq) ELSE Op(CHOOSE x \in S : TRUE)

getMD5salt ==
  LET snd == Taken("getMD5salt") IN waitSNAC("getMD5salt",
    CASE snd.subtype_id = 3 -> The(TLVPack(snd.data, 0), Refused)
      [] snd.subtype_id = 7 /\ Len(snd.data) >= 5 /\ Len(snd.data) >= 2 + WordAt(snd.data, 0) ->
           Read([icq EXCEPT !.md5_salt = Cut(snd.data, 2, WordAt(snd.data, 0))])
      [] OTHER -> NotRead(icq))

\* host:port, a colon being 58.
Boss(tlvs) ==
  LET address == UNION {{[tlv |-> tlv, colon |-> SelectInSeq(tlv.data, LAMBDA c : c = 58)]
                           : tlv \in findTLV(tlvs, 5)}}
      usable == {a \in address : a.colon \notin {0, Len(a.tlv.data)}}
  IN  IF usable = {} \/ findTLV(tlvs, 6) = {} THEN NotRead(icq)
      ELSE LET a == CHOOSE x \in usable : TRUE
           IN  Read([icq EXCEPT
                 !.boss = [host |-> SubSeq(a.tlv.data, 1, a.colon - 1),
                           port |-> atoi(SubSeq(a.tlv.data, a.colon + 1, Len(a.tlv.data)))],
                 !.cookie = (CHOOSE tlv \in findTLV(tlvs, 6) : TRUE).data])

getBOSSparams ==
  LET snd == Taken("getBOSSparams") IN waitSNAC("getBOSSparams",
    The(TLVPack(snd.data, 0), LAMBDA tlvs : IF findTLV(tlvs, 8) # {} THEN Refused(tlvs) ELSE Boss(tlvs)))

Words(v) == [i \in 1 .. Len(v) \div 2 |-> WordAt(v, 2 * i - 2)]

\* Until it is asked the version of each family is 1.
getServiceList ==
  LET snd == Taken("getServiceList") IN waitSNAC("getServiceList",
    Read([icq EXCEPT !.server_services_list = [i \in DOMAIN Words(snd.data) |-> <<Words(snd.data)[i], 1>>]]))

\* Mutant: the versions are added to the list of the families.
NewServices_Added(services) == icq.server_services_list \o services

NewServices(services) == services

getServices ==
  LET snd == Taken("getServices") IN waitSNAC("getServices",
    Read([icq EXCEPT !.server_services_list = NewServices(Asked(snd.data))]))

\* The groups' ids, each with a number of pairs, from a position on.
Groups(v, pos) ==
  LET groups[p \in Nat] ==
        IF p >= Len(v) THEN <<>> ELSE <<WordAt(v, p)>> \o groups[p + 4 + 4 * WordAt(v, p + 2)]
  IN  groups[pos]

getRateLimits ==
  LET snd == Taken("getRateLimits") IN waitSNAC("getRateLimits",
    Read([icq EXCEPT !.server_rate_groups = Groups(snd.data, 2 + 35 * WordAt(snd.data, 0))]))

\* Of these it only matters that they come.
getSelfInfo      == waitSNAC("getSelfInfo", Read(icq))
getLocationLimit == waitSNAC("getLocationLimit", Read(icq))
getBLMLimit      == waitSNAC("getBLMLimit", Read(icq))
getPRMLimit      == waitSNAC("getPRMLimit", Read(icq))
getSSILimit      == waitSNAC("getSSILimit", Read(icq))

getICBMParams ==
  LET snd == Taken("getICBMParams") IN waitSNAC("getICBMParams", The(ICBMParameters(snd.data), LAMBDA p : Read(icq)))

\* Mutant: what has come so far is the list.
PartsRead_Each(i, items, last) == [i EXCEPT !.items = items, !.list = NewList(items, i.list)]

\* The list is replaced when its last part has come.
PartsRead(i, items, last) ==
  IF last THEN [i EXCEPT !.items = <<>>, !.list = NewList(items, i.list)]
  ELSE [i EXCEPT !.items = items]

\* One part, or the last; an incomplete list is left behind when the call fails.
getSSICopy ==
  LET more(e) == e.snd.flags % 2 = 1
      wait == Waits["getSSICopy"]
      i == Cached(wait[1], wait[2], sync_id[wait[3]])
      parts == SSIContactList(snac_cache[i].snd.data)
  IN  /\ Doing("getSSICopy") /\ i # 0
      /\ snac_cache' = RemoveAt(snac_cache, i)
      /\ \/ /\ parts = {}
            /\ Fail /\ UNCHANGED icq
         \/ /\ \E items \in parts : icq' = PartsRead(icq, icq.items \o items, ~more(snac_cache[i]))
            /\ at' = IF more(snac_cache[i]) THEN at ELSE at + 1
            /\ UNCHANGED sock
      /\ faults' = IF snac_cache[i].attempt = attempts THEN faults ELSE faults \cup {"stale"}
      /\ UNCHANGED <<attempts, server, queue, reader, network_break_flag, numbers, connected, told,
                     heard, refused>>

\* Mutant: a wait ends for the user's flag only.
Timeout_Never == FALSE

Timeout == ~network_break_flag

\* A wait ends by the flag or after 50 seconds; it takes the last look at the cache
\* before those, and what comes at that moment stays there.
giveUp ==
  /\ at \in DOMAIN Script /\ Script[at] \in DOMAIN Waits
  /\ network_break_flag \/ Timeout
  /\ Fail
  /\ faults' = IF network_break_flag THEN faults ELSE faults \cup {"timeout"}
  /\ UNCHANGED <<attempts, server, queue, reader, network_break_flag, snac_cache, numbers, icq,
                 connected, told, heard, refused>>

-----------------------------------------------------------------------------
(* The reader thread, the network, and the end *)

\* What was put before the data is cut off.
Stripped(snd) ==
  IF snd.flags >= 32768 /\ Len(snd.data) >= 2 /\ Len(snd.data) >= 2 + WordAt(snd.data, 0)
  THEN [snd EXCEPT !.data = SubSeq(snd.data, 3 + WordAt(snd.data, 0), Len(snd.data))]
  ELSE snd

readSNAC ==
  /\ reader /\ sock # "none" /\ queue # <<>> /\ ~network_break_flag
  /\ queue' = Tail(queue)
  /\ snac_cache' = snac_cache \o SetToSeq({[snd |-> Stripped(snd), attempt |-> attempts]
                                             : snd \in SNACData(Head(queue))})
  /\ UNCHANGED <<at, attempts, server, sock, reader, network_break_flag, numbers, icq, connected,
                 told, history>>

readerEnds ==
  /\ reader /\ network_break_flag
  /\ reader' = FALSE
  /\ UNCHANGED <<at, attempts, server, sock, queue, network_break_flag, snac_cache, numbers, icq,
                 connected, told, history>>

\* The connection breaks: neither side gets anything more.
Break ==
  /\ sock # "none" /\ at \in DOMAIN Script
  /\ sock' = "none" /\ faults' = faults \cup {"lost"}
  /\ UNCHANGED <<at, attempts, server, queue, reader, network_break_flag, snac_cache, numbers, icq,
                 connected, told, heard, refused>>

\* The rest of zICQ::Connect.
Connected ==
  /\ at = Online /\ ~connected
  /\ connected' = TRUE
  /\ UNCHANGED <<at, attempts, server, network, snac_cache, numbers, icq, told, history>>

\* Three codes have a name, every other is told as none.
Reason(code) ==
  CASE code = 4  -> "CONN_ERR_BAD_LOGIN"
    [] code = 5  -> "CONN_ERR_BAD_PASSWORD"
    [] code = 24 -> "CONN_ERR_RATE_LIMIT"
    [] OTHER     -> "UNKNOWN"

\* The user is told the reason and the url, but not if the flag says that it was
\* the user.
Failed ==
  /\ at = Report
  /\ at' = 0 /\ connected' = FALSE
  /\ IF network_break_flag THEN UNCHANGED <<sock, reader, told>>
     ELSE /\ sock' = "none" /\ reader' = FALSE
          /\ told' = {[reason |-> Reason(icq.connect_error.code), url |-> icq.connect_error.url]}
  /\ UNCHANGED <<attempts, server, queue, network_break_flag, snac_cache, numbers, icq, history>>

\* The user cancels the attempt.
breakNetworkOperation ==
  /\ at \in DOMAIN Script /\ "cancelled" \notin faults
  /\ network_break_flag' = TRUE /\ faults' = faults \cup {"cancelled"}
  /\ connected' = FALSE /\ reader' = FALSE /\ sock' = "none"
  /\ UNCHANGED <<at, attempts, server, queue, snac_cache, numbers, icq, told, heard, refused>>

\* Mutant: the account still counts as connected.
Disconnect_StaysConnected ==
  /\ connected
  /\ at' = 0 /\ reader' = FALSE /\ sock' = "none"
  /\ UNCHANGED <<attempts, server, queue, network_break_flag, snac_cache, numbers, icq, connected, told,
                 history>>

Disconnect ==
  /\ connected
  /\ at' = 0 /\ connected' = FALSE /\ reader' = FALSE /\ sock' = "none"
  /\ UNCHANGED <<attempts, server, queue, network_break_flag, snac_cache, numbers, icq, told, history>>

\* What is called for each step but waiting for the hello.
doConnect ==
  \/ giveUp \/ directConnect \/ sendSignOn0 \/ sendSignOn2 \/ startReadSNAC \/ sendSignOff
  \/ sendMD5saltrequest \/ sendMD5authorize \/ askServices \/ askRateLimits \/ askSelfInfo
  \/ askSSILimit \/ askSSICopy \/ askLocationLimit \/ askBLMLimit \/ askICBMParams \/ askPRMLimit
  \/ activateSSI \/ sendRateLimits \/ sendLocationInfo \/ sendICBMParams \/ sendStatus \/ sendReady
  \/ getMD5salt \/ getBOSSparams \/ getServiceList \/ getServices \/ getRateLimits \/ getSelfInfo
  \/ getLocationLimit \/ getBLMLimit \/ getPRMLimit \/ getSSILimit \/ getICBMParams \/ getSSICopy
  \/ Connected \/ Failed

Next ==
  \/ Connect \/ waitHello \/ doConnect
  \/ readSNAC \/ readerEnds \/ Break
  \/ breakNetworkOperation \/ Disconnect

Spec == Init /\ [][Next]_vars

\* The threads go on, and waits end by the clock; the server need not say hello, and is
\* waited for without end.
FairSpec == Spec /\ WF_vars(doConnect) /\ WF_vars(readSNAC) /\ WF_vars(readerEnds)

-----------------------------------------------------------------------------
(* Properties *)

\* The state has the shape the actions expect; a socket, an error to tell and a
\* connected account belong to the states they should.
TypeOK ==
  /\ at \in 0 .. Report /\ attempts \in 0 .. MaxAttempts /\ server \in Servers
  /\ sock \in {"none", "login", "BOSS"} /\ reader \in BOOLEAN /\ network_break_flag \in BOOLEAN
  /\ \A i \in DOMAIN queue : queue[i] \in Seq(Nat)
  /\ \A i \in DOMAIN snac_cache : snac_cache[i].attempt \in 1 .. attempts
  /\ \A r \in Requests : sync_id[r] \in 0 .. snac_seq_number - 1
  /\ connected \in BOOLEAN /\ refused \in Refusals \cup {0} /\ faults \subseteq Faults
  /\ connected => at = Online
  /\ at > 0 => told = {}

\* What an account that is online has told the server, if no answer to an earlier
\* attempt was taken for one of this: it has acknowledged the server's rate groups, and
\* declared ready the families it knows, in the versions it was granted
\* (getServiceList to sendReady).
Known == (1 :> 4) @@ (19 :> 4) @@ (2 :> 1) @@ (3 :> 1) @@ (21 :> 1) @@ (4 :> 1) @@ (9 :> 1)

Lesser(m, n) == IF m < n THEN m ELSE n

Negotiated ==
  connected /\ "stale" \notin faults =>
    LET said(fam, sub) == {r.data : r \in {q \in ToSet(heard) : q.fam = fam /\ q.sub = sub}}
        fams == DOMAIN Known \cap DOMAIN server.families
    IN  /\ \A data \in said(1, 8) : Words(data) = server.rates
        /\ \A data \in said(1, 2) :
             /\ Len(data) = 8 * Cardinality(fams)
             /\ {<<WordAt(data, 8 * i), WordAt(data, 8 * i + 2)>> : i \in 0 .. Len(data) \div 8 - 1}
                  = {<<fam, Lesser(Known[fam], server.families[fam])>> : fam \in fams}
        /\ said(1, 8) # {} /\ said(1, 2) # {} /\ said(19, 7) # {}

\* The list is one the server has had, whole: every contact with its nick and the name of
\* its group, every group but the master's, the privacy if there is one; never the parts
\* that came before a failure, nor some of an older list (getSSICopy).
Whole(list, s) ==
  LET items == ToSet(FlattenSeq(s.parts))
      of(type) == {item \in items : item.type = type}
      nick(item) == IF \E tlv \in ToSet(item.payload) : tlv.type = 305
                    THEN (CHOOSE tlv \in ToSet(item.payload) : tlv.type = 305).data ELSE <<>>
      shown(item) == [uin |-> item.name, group |-> item.group_id, item |-> item.item_id,
                      nick |-> nick(item)]
  IN  /\ Len(list.uins) = Cardinality(of(0))
      /\ \A item \in of(0) : \E c \in ToSet(list.uins) :
           /\ c.entry = shown(item)
           /\ \E g \in of(1) : g.group_id = item.group_id /\ g.name = c.groupname
      /\ ToSet(list.groups) = {[id |-> g.group_id, name |-> g.name] : g \in {h \in of(1) : h.group_id # 0}}
      /\ ToSet(list.visible) = {shown(item) : item \in of(2)}
      /\ ToSet(list.invisible) = {shown(item) : item \in of(3)}
      /\ ToSet(list.ignore) = {shown(item) : item \in of(14)}
      /\ \A item \in of(4) : list.privacy.item = item.item_id

RosterWhole ==
  /\ icq.list = NoList \/ \E s \in Servers : Whole(icq.list, s)
  /\ connected => Whole(icq.list, server)

LoginRight == Negotiated /\ RosterWhole

\* An attempt fails only if it was refused or something came between.  A refusal is
\* told with the url the server gave in this attempt, and by name if it is a wrong
\* login, a wrong password or too many attempts: of any other the user learns the url
\* only.  What is told with no url is no refusal (zICQ::Connect).
ReasonTold ==
  at = 0 /\ attempts > 0 =>
    \A t \in told :
      /\ refused # 0 \/ faults # {}
      /\ t.url # <<>> => t.url = url /\ refused # 0 /\ t.reason = Reason(refused)
      /\ t.url = <<>> => t.reason = "UNKNOWN" /\ faults # {}

\* An attempt ends, unless the server never says hello (waitSNAC).
LoginEnds == at # 0 ~> connected \/ at = 0 \/ Doing("waitHello")
=============================================================================
