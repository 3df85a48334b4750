------------------------------ MODULE Searches ------------------------------
(***************************************************************************)
(* What the library sends to publish the user's own information, to search *)
(* for others and to change the password, and what the server makes of it. *)
(* No menu of the program calls these operations.                          *)
(*                                                                         *)
(* Here the TLVs have their numbers with the low byte first.  A row of a   *)
(* request is a type with the fields that are packed into it.              *)
(***************************************************************************)
EXTENDS Profiles

CONSTANT Online     \* the contacts that are online when they are searched for

-----------------------------------------------------------------------------
(* Packing *)

Row1(type, name) == <<type, <<name>>>>

\* With the fields that only a search has (ICQKidFullUserInfo).
SearchFields == {<<"Minage", 2>>, <<"Maxage", 2>>, <<"Searchkey", 0>>, <<"Searchonline", 1>>}
NoCriteria ==
  NoInfo @@ [name \in {field[1] : field \in SearchFields} |-> IF name = "Searchkey" THEN <<>> ELSE 0]

\* These are bytes that are packed as words.
Widened == {"Birthmonth", "Birthday", "Language1", "Language2", "Language3"}

FieldOf(name) ==
  IF name \in Widened THEN <<name, 2>>
  ELSE CHOOSE field \in AllFields \cup SearchFields : field[1] = name

LETLVBytes(type, data) == LE(Word(type)) \o LE(Word(Len(data))) \o data

PACK_TLV(row, info) ==
  LETLVBytes(row[1], FlattenSeq([i \in DOMAIN row[2] |-> Packed(FieldOf(row[2][i]), info)]))

PackRows(rows, info) == FlattenSeq([i \in DOMAIN rows |-> PACK_TLV(rows[i], info)])

\* Any request for the directory: its size, the user's number, and its kind.
MetaData(my_uin, subtype, data) ==
  TLVBytes(TLV(1, LE(Word(10 + Len(data))) \o LE(DWord(my_uin)) \o META_DATA_REQ \o LE(Word(2))
                    \o LE(Word(subtype)) \o data))

CLI_SET_FULLINFO        == 3130
CLI_WHITE_PAGES_SEARCH2 == 1375
META_SEARCH_BY_UIN_TLV  == 1385
META_SET_PASSWORD       == 1070

-----------------------------------------------------------------------------
(* The user's own information *)

\* Mutant: the first address is left out.
PersonalRows_NoEmail ==
  <<Row1(340, "Nickname"), Row1(320, "Firstname"), Row1(330, "Lastname")>>

PersonalRows ==
  <<Row1(340, "Nickname"), Row1(320, "Firstname"), Row1(330, "Lastname"),
    <<350, <<"Email", "Pubprimarymail">>>>>>

RestRows ==
  <<Row1(400, "Homecity"), Row1(410, "Homestate"), Row1(630, "Homephone"), Row1(640, "Homefax"),
    Row1(610, "Homeaddress"), Row1(650, "Cellphone"), Row1(621, "Homezip"),
    Row1(420, "Homecountry"), Row1(790, "GMToffset"), Row1(780, "Auth"), Row1(760, "Webaware"),
    Row1(370, "Age"), Row1(380, "Gender"), Row1(531, "Homepage"),
    <<570, <<"Birthyear", "Birthmonth", "Birthday">>>>,
    Row1(390, "Language1"), Row1(390, "Language2"), Row1(390, "Language3"),
    Row1(800, "Origcity"), Row1(810, "Origstate"), Row1(820, "Origcountry"),
    Row1(830, "Maritalstatus"), Row1(840, "Allowspam"), Row1(850, "Codepage"),
    Row1(670, "Workcity"), Row1(680, "Workstate"), Row1(710, "Workphone"), Row1(720, "Workfax"),
    Row1(660, "Workaddress"), Row1(701, "Workzip"), Row1(690, "Workcountry"),
    Row1(430, "Workcompany"), Row1(440, "Workdepartment"), Row1(450, "Workposition"),
    Row1(460, "Workoccupation"), Row1(730, "Workwebpage"), Row1(600, "Notes"),
    <<490, <<"Interest1category", "Interest1">>>>, <<490, <<"Interest2category", "Interest2">>>>,
    <<490, <<"Interest3category", "Interest3">>>>, <<490, <<"Interest4category", "Interest4">>>>,
    <<470, <<"Past1category", "Past1">>>>, <<470, <<"Past2category", "Past2">>>>,
    <<470, <<"Past3category", "Past3">>>>,
    <<510, <<"Affiliation1category", "Affiliation1">>>>,
    <<510, <<"Affiliation2category", "Affiliation2">>>>,
    <<510, <<"Affiliation3category", "Affiliation3">>>>>>

PublishedFields == UNION {ToSet(row[2]) : row \in ToSet(PersonalRows \o RestRows)} \cup {"Emails"}

publicMyInfo(my_uin, info) ==
  LET emails == FlattenSeq([i \in DOMAIN info.Emails |->
                  LETLVBytes(350, Asciiz(info.Emails[i][1]) \o <<info.Emails[i][2]>>)])
  IN  MetaData(my_uin, CLI_SET_FULLINFO,
               PackRows(PersonalRows, info) \o emails \o PackRows(RestRows, info))

-----------------------------------------------------------------------------
(* Searches *)

IsSet(info, name) == info[name] # NoCriteria[name]

\* What is not set is not searched by; the ages only if they are a range.
Wanted(row, info) ==
  CASE row[1] = 360 -> /\ info.Minage > 0 /\ info.Maxage > 0 /\ info.Minage <= info.Maxage
    [] row[1] = 560 -> TRUE
    [] OTHER        -> \E i \in DOMAIN row[2] : IsSet(info, row[2][i])

WhitePagesRows ==
  <<Row1(320, "Firstname"), Row1(330, "Lastname"), Row1(340, "Nickname"), Row1(350, "Email"),
    Row1(400, "Homecity"), Row1(410, "Homestate"), Row1(420, "Homecountry"),
    Row1(430, "Workcompany"), Row1(440, "Workdepartment"), Row1(450, "Workposition"),
    Row1(460, "Workoccupation"), Row1(550, "Searchkey"), <<360, <<"Minage", "Maxage">>>>,
    Row1(380, "Gender"), Row1(830, "Maritalstatus"), Row1(390, "Language1"),
    <<470, <<"Past1category", "Past1">>>>, <<490, <<"Interest1category", "Interest1">>>>,
    <<510, <<"Affiliation1category", "Affiliation1">>>>,
    <<530, <<"Homepagecategory", "Homepagekeywords">>>>, Row1(560, "Searchonline")>>

searchByWhitePages(my_uin, info) ==
  MetaData(my_uin, CLI_WHITE_PAGES_SEARCH2,
           PackRows(SelectSeq(WhitePagesRows, LAMBDA row : Wanted(row, info)), info))

searchByUIN(my_uin, uin) == MetaData(my_uin, META_SEARCH_BY_UIN_TLV, LETLVBytes(310, LE(DWord(uin))))

\* Mutant: the first string is thought to have no closing zero.
CutZero_No(value) == value

CutZero(value) == IF value = <<>> THEN value ELSE Front(value)

\* One of those found: the number, four strings, and what is behind them.
ReadFound(v) ==
  LET four[n \in Nat, pos \in Nat] ==
        IF n = 0 THEN {[strings |-> <<>>, after |-> pos]}
        ELSE IF Len(v) < pos + 2 \/ Len(v) < pos + 2 + LEWordAt(v, pos) THEN {}
        ELSE LET length == LEWordAt(v, pos)
             IN  {[strings |-> <<CutZero(Cut(v, pos + 2, length))>> \o r.strings, after |-> r.after]
                    : r \in four[n - 1, pos + 2 + length]}
  IN  IF Len(v) < 19 THEN {}
      ELSE {[Uin |-> LEDWordAt(v, 15), Nickname |-> r.strings[1], Firstname |-> r.strings[2],
             Lastname |-> r.strings[3], Email |-> r.strings[4],
             Needauth |-> Byte(v, r.after) = 1, online |-> Byte(v, r.after + 1) = 1,
             Gender |-> Byte(v, r.after + 3), Age |-> LEWordAt(v, r.after + 4)]
              : r \in {s \in four[4, 19] : Len(v) >= s.after + 6}}

More164 == 164
Last174 == 174

\* An answer as getSearchAnswer reads it: those found in it, none or one, and whether it
\* is the last.  Whether it is one of the two kinds is looked at after the contact.
ReadSearchAnswer(v) ==
  IF \/ Len(v) < 13 \/ Cut(v, 6, 2) # META_DATA \/ Byte(v, 11) # 1
     \/ Byte(v, 10) \notin {More164, Last174}
  THEN {}
  ELSE {[found |-> found, last |-> Byte(v, 10) = Last174]
          : found \in IF Byte(v, 12) = 10 THEN {<<f>> : f \in ReadFound(v)} ELSE {<<>>}}

-----------------------------------------------------------------------------
(* The password *)

changePassword(my_uin, new_password) == MetaData(my_uin, META_SET_PASSWORD, Asciiz(new_password))

SET_PASSWORD_ACK == <<170, 0>>
SET_FULLINFO_ACK == <<63, 12>>

\* The answers to a new password and to information; only the first must be to this request.
Acknowledged(v, my_uin, kind) ==
  /\ Len(v) >= 13 /\ Cut(v, 2, 4) = LE(DWord(my_uin)) /\ Cut(v, 6, 2) = META_DATA
  /\ kind = SET_PASSWORD_ACK => Cut(v, 8, 2) = LE(Word(2))
  /\ Cut(v, 10, 2) = kind /\ Byte(v, 12) = 10

-----------------------------------------------------------------------------
(* The server *)

\* What it understands by the types: strings, numbers with their sizes, and those that may
\* come several times.
StringTypes ==
  (320 :> "Firstname") @@ (330 :> "Lastname") @@ (340 :> "Nickname") @@ (400 :> "Homecity")
    @@ (410 :> "Homestate") @@ (630 :> "Homephone") @@ (640 :> "Homefax") @@ (610 :> "Homeaddress")
    @@ (650 :> "Cellphone") @@ (621 :> "Homezip") @@ (531 :> "Homepage") @@ (800 :> "Origcity")
    @@ (810 :> "Origstate") @@ (670 :> "Workcity") @@ (680 :> "Workstate") @@ (710 :> "Workphone")
    @@ (720 :> "Workfax") @@ (660 :> "Workaddress") @@ (701 :> "Workzip") @@ (430 :> "Workcompany")
    @@ (440 :> "Workdepartment") @@ (450 :> "Workposition") @@ (730 :> "Workwebpage")
    @@ (600 :> "Notes") @@ (550 :> "Searchkey")

NumberTypes ==
  (420 :> <<"Homecountry", 2>>) @@ (790 :> <<"GMToffset", -1>>) @@ (780 :> <<"Auth", 1>>)
    @@ (760 :> <<"Webaware", 1>>) @@ (370 :> <<"Age", 2>>) @@ (380 :> <<"Gender", 1>>)
    @@ (820 :> <<"Origcountry", 2>>) @@ (830 :> <<"Maritalstatus", 1>>)
    @@ (840 :> <<"Allowspam", 1>>) @@ (850 :> <<"Codepage", 2>>) @@ (690 :> <<"Workcountry", 2>>)
    @@ (460 :> <<"Workoccupation", 2>>) @@ (560 :> <<"Searchonline", 1>>)

Ranked(category, name) == <<<<category, 2>>, <<name, 0>>>>

ListTypes ==
  (390 :> <<<<<<"Language1", 2>>>>, <<<<"Language2", 2>>>>, <<<<"Language3", 2>>>>>>)
    @@ (490 :> <<Ranked("Interest1category", "Interest1"), Ranked("Interest2category", "Interest2"),
                 Ranked("Interest3category", "Interest3"), Ranked("Interest4category", "Interest4")>>)
    @@ (470 :> <<Ranked("Past1category", "Past1"), Ranked("Past2category", "Past2"),
                 Ranked("Past3category", "Past3")>>)
    @@ (510 :> <<Ranked("Affiliation1category", "Affiliation1"),
                 Ranked("Affiliation2category", "Affiliation2"),
                 Ranked("Affiliation3category", "Affiliation3")>>)
    @@ (350 :> <<<<<<"Email", 0>>, <<"Pubprimarymail", 1>>>>>>)
    @@ (530 :> <<Ranked("Homepagecategory", "Homepagekeywords")>>)
    @@ (360 :> <<<<<<"Minage", 2>>, <<"Maxage", 2>>>>>>)
    @@ (570 :> <<<<<<"Birthyear", 2>>, <<"Birthmonth", 2>>, <<"Birthday", 2>>>>>>)

\* The fields of a TLV that is the n-th of its type.
Understood(type, n) ==
  CASE type \in DOMAIN StringTypes -> <<<<StringTypes[type], 0>>>>
    [] type \in DOMAIN NumberTypes -> <<NumberTypes[type]>>
    [] type \in DOMAIN ListTypes /\ n <= Len(ListTypes[type]) -> ListTypes[type][n]
    [] OTHER -> <<>>

LETLVs(v) ==
  LET from[pos \in Nat] ==
        IF pos + 4 > Len(v) THEN <<>>
        ELSE <<TLV(LEWordAt(v, pos), Cut(v, pos + 4, LEWordAt(v, pos + 2)))>>
               \o from[pos + 4 + LEWordAt(v, pos + 2)]
  IN  from[0]

\* The values of some fields that come one after the other.
ReadFields(fields, v) ==
  LET from[i \in Nat, pos \in Nat] ==
        IF i > Len(fields) THEN <<>>
        ELSE LET found == Unpack(v, pos, fields[i][2])
                 value == CHOOSE u \in found : TRUE
             IN  IF found = {} THEN <<>> ELSE (fields[i][1] :> value.value) @@ from[i + 1, value.after]
  IN  from[1, 0]

\* The fields that are in a request, with all addresses after the first.
Received(v) ==
  LET tlvs == LETLVs(v)
      nth(i) == Cardinality({j \in 1 .. i : tlvs[j].type = tlvs[i].type})
      read[i \in 0 .. Len(tlvs)] ==
        IF i = 0 THEN <<>> ELSE ReadFields(Understood(tlvs[i].type, nth(i)), tlvs[i].data) @@ read[i - 1]
      more == SelectSeq([i \in DOMAIN tlvs |-> <<tlvs[i], nth(i)>>],
                        LAMBDA t : t[1].type = 350 /\ t[2] > 1)
      email(t) == ReadFields(<<<<"email", 0>>, <<"flag", 1>>>>, t[1].data)
  IN  ("Emails" :> [i \in DOMAIN more |-> <<email(more[i]).email, email(more[i]).flag>>])
        @@ read[Len(tlvs)]

\* The data of a request after its kind.
Body(v) == Cut(v, 16, Len(v) - 16)
KindOf(v) == LEWordAt(v, 14)

\* Whether one who tells this is found by what has been received.
Fits(c, info, received) ==
  \A name \in DOMAIN received :
    CASE name = "Minage"       -> info.Age >= received.Minage
      [] name = "Maxage"       -> info.Age <= received.Maxage
      [] name = "Searchonline" -> received.Searchonline = 1 => c \in Online
      [] name \in {"Searchkey", "Emails", "Pubprimarymail"} -> TRUE
      [] name = "Language1"    -> received.Language1 \in {info.Language1, info.Language2, info.Language3}
      [] OTHER -> received[name] \in {info[name], NoCriteria[name]}

FoundBytes(c, info) ==
  LE(DWord(c)) \o Asciiz(info.Nickname) \o Asciiz(info.Firstname) \o Asciiz(info.Lastname)
    \o Asciiz(info.Email) \o <<info.Auth, IF c \in Online THEN 1 ELSE 0, 0, info.Gender>>
    \o LE(Word(info.Age)) \o <<0, 0>>

\* One of the answers to a search; nobody is found if there are no data.
SearchBytes(my_uin, last, data) ==
  TLVBytes(TLV(1, LE(Word(0)) \o LE(DWord(my_uin)) \o META_DATA \o LE(Word(2))
    \o <<IF last THEN Last174 ELSE More164, 1>>
    \o IF data = <<>> THEN <<50>> ELSE <<10>> \o LE(Word(Len(data))) \o data))

AckBytes(my_uin, kind, result) ==
  TLVBytes(TLV(1, LE(Word(0)) \o LE(DWord(my_uin)) \o META_DATA \o LE(Word(2)) \o kind \o <<result>>))
=============================================================================
