------------------------------ MODULE Profiles ------------------------------
(***************************************************************************)
(* What a contact tells about itself: how it comes from the server, part   *)
(* by part, and what of it the dialog shows.                               *)
(*                                                                         *)
(* A layout lists the fields of a part in the order in which the source    *)
(* unpacks them.  A field is its name and its size: 0 for a string that    *)
(* comes after its length, the closing zero counted, a number of bytes for *)
(* a number, -1 for a signed byte.  A field without a name is passed over. *)
(***************************************************************************)
EXTENDS Payloads, Functions

CONSTANTS Countries, Languages, Interests   \* the codes that have a name in the tables

-----------------------------------------------------------------------------
(* The layouts *)

Texts(names) == [i \in DOMAIN names |-> <<names[i], 0>>]

BasicUserInfo ==
  Texts(<<"Nickname", "Firstname", "Lastname", "Email", "Homecity", "Homestate", "Homephone",
          "Homefax", "Homeaddress", "Cellphone", "Homezip">>)
    \o <<<<"Homecountry", 2>>, <<"GMToffset", -1>>, <<"Auth", 1>>, <<"Webaware", 1>>,
         <<"DCpermissions", 1>>, <<"Pubprimarymail", 1>>>>

MoreUserInfo ==
  <<<<"Age", 2>>, <<"Gender", 1>>, <<"Homepage", 0>>, <<"Birthyear", 2>>, <<"Birthmonth", 1>>,
    <<"Birthday", 1>>, <<"Language1", 1>>, <<"Language2", 1>>, <<"Language3", 1>>, <<"", 2>>,
    <<"Origcity", 0>>, <<"Origstate", 0>>, <<"Origcountry", 2>>, <<"Maritalstatus", 1>>,
    <<"Allowspam", 1>>, <<"Codepage", 2>>>>

HpagecatUserInfo == <<<<"Homepageenabled", 1>>, <<"Homepagecategory", 2>>, <<"Homepagekeywords", 0>>>>

WorkUserInfo ==
  Texts(<<"Workcity", "Workstate", "Workphone", "Workfax", "Workaddress", "Workzip">>)
    \o <<<<"Workcountry", 2>>>> \o Texts(<<"Workcompany", "Workdepartment", "Workposition">>)
    \o <<<<"Workoccupation", 2>>, <<"Workwebpage", 0>>>>

NotesUserInfo == Texts(<<"Notes">>)

InterestsUserInfo ==
  <<<<"", 1>>, <<"Interest1category", 2>>, <<"Interest1", 0>>, <<"Interest2category", 2>>,
    <<"Interest2", 0>>, <<"Interest3category", 2>>, <<"Interest3", 0>>,
    <<"Interest4category", 2>>, <<"Interest4", 0>>>>

AffiliationsUserInfo ==
  <<<<"", 1>>, <<"Past1category", 2>>, <<"Past1", 0>>, <<"Past2category", 2>>, <<"Past2", 0>>,
    <<"Past3category", 2>>, <<"Past3", 0>>, <<"", 1>>, <<"Affiliation1category", 2>>,
    <<"Affiliation1", 0>>, <<"Affiliation2category", 2>>, <<"Affiliation2", 0>>,
    <<"Affiliation3category", 2>>, <<"Affiliation3", 0>>>>

EmailUserInfo == 235   \* a list, which has no layout

Layouts ==
  (200 :> BasicUserInfo) @@ (220 :> MoreUserInfo) @@ (270 :> HpagecatUserInfo)
    @@ (210 :> WorkUserInfo) @@ (230 :> NotesUserInfo) @@ (240 :> InterestsUserInfo)
    @@ (250 :> AffiliationsUserInfo)

Named(layout) == {field \in ToSet(layout) : field[1] # ""}
AllFields == UNION {Named(Layouts[subtype]) : subtype \in DOMAIN Layouts}

\* ICQKidFullUserInfo()
NoInfo ==
  [name \in {field[1] : field \in AllFields} |-> IF <<name, 0>> \in AllFields THEN <<>> ELSE 0]
    @@ ("Emails" :> <<>>)

-----------------------------------------------------------------------------
(* Unpacking *)

\* A value with the position after it, if the bytes last.
UnpackLE(v, pos, size) ==
  IF Len(v) < pos + size THEN {}
  ELSE {[value |-> IF size = 1 THEN Byte(v, pos) ELSE LEWordAt(v, pos), after |-> pos + size]}

UnpackAsciiz(v, pos) ==
  IF Len(v) < pos + 2 \/ Len(v) < pos + 2 + LEWordAt(v, pos) THEN {}
  ELSE LET strz_len == LEWordAt(v, pos)
       IN  {[value |-> IF strz_len > 1 THEN Cut(v, pos + 2, strz_len - 1) ELSE <<>>,
             after |-> pos + 2 + strz_len]}

Signed(byte) == IF byte > 127 THEN byte - 256 ELSE byte

Unpack(v, pos, size) ==
  CASE size = 0  -> UnpackAsciiz(v, pos)
    [] size = -1 -> {[u EXCEPT !.value = Signed(@)] : u \in UnpackLE(v, pos, 1)}
    [] OTHER     -> UnpackLE(v, pos, size)

Result == 16    \* the position of the result code, which is 10 if all is well

\* Fields are set up to the first that does not last; the bytes passed over are not checked.
parseUserInfo(layout, v, info) ==
  LET read[i \in Nat, pos \in Nat] ==
        IF i > Len(layout) THEN {}
        ELSE IF layout[i][1] = "" THEN read[i + 1, pos + layout[i][2]]
        ELSE UNION {{<<layout[i][1], u.value>>} \cup read[i + 1, u.after]
                      : u \in Unpack(v, pos, layout[i][2])}
      set(name, fields) == {f \in fields : f[1] = name}
  IN  IF Byte(v, Result) # 10 THEN {info}
      ELSE {[name \in DOMAIN info |-> IF set(name, fields) = {} THEN info[name]
                                      ELSE (CHOOSE f \in set(name, fields) : TRUE)[2]]
              : fields \in {read[1, Result + 1]}}

\* A number of addresses, each after a flag that says whether it is public.
parseEmailUserInfo(v, info) ==
  LET emails[n \in Nat, pos \in Nat] ==
        LET flag == UnpackLE(v, pos, 1)
            email == UnpackAsciiz(v, pos + 1)
        IN  IF n = 0 \/ flag = {} \/ email = {} THEN <<>>
            ELSE LET f == CHOOSE f \in flag : TRUE
                     e == CHOOSE e \in email : TRUE
                 IN  <<<<e.value, f.value>>>> \o emails[n - 1, e.after]
      count == UnpackLE(v, Result + 1, 1)
  IN  [info EXCEPT !.Emails =
         IF Byte(v, Result) # 10 \/ count = {} THEN <<>>
         ELSE LET c == CHOOSE c \in count : TRUE IN emails[c.value, c.after]]

META_DATA     == <<218, 7>>
META_DATA_REQ == <<208, 7>>

\* A part as getFullInfo reads it: its head must be right, its kind one that is known.
ReadPart(v, my_uin, info) ==
  IF \/ Len(v) < 17
     \/ Cut(v, 0, 2) # <<0, 1>>
     \/ Cut(v, 6, 4) # LE(DWord(my_uin))
     \/ Cut(v, 10, 2) # META_DATA
  THEN {}
  ELSE LET subtype == LEWordAt(v, 14)
       IN  CASE subtype \in DOMAIN Layouts -> parseUserInfo(Layouts[subtype], v, info)
             [] subtype = EmailUserInfo    -> {parseEmailUserInfo(v, info)}
             [] OTHER                      -> {info}

\* The data of a TLV 1, nothing of any other.
TLVData(v) == FoldSet(LAMBDA tlv, data : tlv.data, <<>>, {tlv \in TLVField(v, 0) : tlv.type = 1})

\* getShortInfo: four strings, none without its closing zero, and two bytes with one between.
ReadShort(v) ==
  LET four[n \in Nat, pos \in Nat] ==
        IF n = 0 THEN {[strings |-> <<>>, after |-> pos]}
        ELSE UNION {{[strings |-> <<u.value>> \o r.strings, after |-> r.after]
                       : r \in four[n - 1, u.after]}
                      : u \in {w \in UnpackAsciiz(v, pos) : w.after > pos + 2}}
  IN  IF Len(v) < 15 \/ Byte(v, 12) # 10 THEN {}
      ELSE {[Nickname |-> r.strings[1], Firstname |-> r.strings[2], Lastname |-> r.strings[3],
             Email |-> r.strings[4], Needauth |-> Byte(v, r.after) # 0,
             Gender |-> Byte(v, r.after + 2)]
              : r \in {s \in four[4, 13] : Len(v) >= s.after + 3}}

-----------------------------------------------------------------------------
(* Asking *)

askFullInfo(my_uin, uin) ==
  <<0, 1, 0, 16>> \o LE(Word(14)) \o LE(DWord(my_uin)) \o META_DATA_REQ \o LE(Word(1))
    \o (IF uin = my_uin THEN <<178, 4>> ELSE <<208, 4>>) \o LE(DWord(uin))

askShortInfo(my_uin, uin) ==
  TLVBytes(TLV(1, LE(Word(14)) \o LE(DWord(my_uin)) \o META_DATA_REQ \o LE(Word(1)) \o <<186, 4>>
                    \o LE(DWord(uin))))

-----------------------------------------------------------------------------
(* The server's answers *)

\* What a contact has told: values for some fields, the parts the server has of it, each with
\* the number of fields it sends, and the result it gives.
Known(told) == [name \in DOMAIN NoInfo |-> IF name \in DOMAIN told.values THEN told.values[name]
                                          ELSE NoInfo[name]]

Asciiz(text) == LE(Word(Len(text) + 1)) \o text \o <<0>>

Packed(field, info) ==
  CASE field[1] = "" -> Fill(field[2], 0)
    [] field[2] = 0  -> Asciiz(info[field[1]])
    [] field[2] = 2  -> LE(Word(info[field[1]]))
    [] OTHER         -> <<info[field[1]] % 256>>

PartBytes(part, result, my_uin, info) ==
  LET emails == info.Emails
      fields == IF part.subtype = EmailUserInfo
                THEN <<Len(emails)>>
                       \o FlattenSeq([i \in DOMAIN emails |-> <<emails[i][2]>> \o Asciiz(emails[i][1])])
                ELSE FlattenSeq([i \in 1 .. part.fields |-> Packed(Layouts[part.subtype][i], info)])
      chunk  == LE(DWord(my_uin)) \o META_DATA \o LE(Word(1)) \o LE(Word(part.subtype))
                  \o <<result>> \o fields
  IN  TLVBytes(TLV(1, LE(Word(Len(chunk))) \o chunk))

ShortBytes(result, my_uin, info) ==
  TLVBytes(TLV(1, LE(Word(0)) \o LE(DWord(my_uin)) \o META_DATA \o LE(Word(1)) \o LE(Word(250))
    \o <<result>> \o Asciiz(info.Nickname) \o Asciiz(info.Firstname) \o Asciiz(info.Lastname)
    \o Asciiz(info.Email) \o <<info.Auth, 0, info.Gender>>))

-----------------------------------------------------------------------------
(* What the dialog shows *)

Unknown == -1

\* A code stands for its name.  Language 0 and country 0 have an empty one.
map_index_to_string(ind, codes) == IF ind \in codes THEN ind ELSE Unknown
country2string(ind)  == map_index_to_string(ind, Countries)
lang2string(ind)     == map_index_to_string(ind, Languages)
interest2string(ind) == map_index_to_string(ind, Interests)

Row(label, values) == <<<<label>> \o values>>
OptionalRow(label, values, condition) == IF condition THEN Row(label, values) ELSE <<>>

Gender(info) == OptionalRow("Gender", <<info.Gender>>, info.Gender \in {1, 2})
Birth(info) == <<info.Birthday, info.Birthmonth, info.Birthyear>>

\* A row for each of some fields.
Fields(info, names) == [i \in DOMAIN names |-> <<names[i], info[names[i]]>>]

FullTab(info) ==
  Fields(info, <<"Nickname", "Firstname">>)
    \o OptionalRow("Age", <<info.Age>>, info.Age # 0)
    \o Gender(info)
    \o OptionalRow("Birthday", Birth(info), info.Birthmonth # 0 /\ info.Birthday # 0)
    \o Row("Home", <<country2string(info.Homecountry), info.Homecity>>)

Spoken(info) ==
  LET known == SelectSeq(<<info.Language1, info.Language2, info.Language3>>, LAMBDA l : l # 0)
  IN  IF known = <<>> THEN <<lang2string(0)>> ELSE [i \in DOMAIN known |-> lang2string(known[i])]

MainTab(info) ==
  Fields(info, <<"Nickname", "Firstname", "Lastname", "Uin">>) \o Gender(info)
    \o Fields(info, <<"Age">>) \o Row("Birthday", Birth(info)) \o Fields(info, <<"Email">>)
    \o Row("Language", Spoken(info)) \o Fields(info, <<"Homepage">>)
    \o Row("Interest1", <<interest2string(info.Interest1category), info.Interest1>>)
    \o Row("Interest2", <<interest2string(info.Interest2category), info.Interest2>>)
    \o Row("Interest3", <<interest2string(info.Interest3category), info.Interest3>>)
    \o Row("Interest4", <<interest2string(info.Interest4category), info.Interest4>>)

HomeTab(info) ==
  Row("Homecountry", <<country2string(info.Homecountry)>>)
    \o Fields(info, <<"Homecity", "Homestate", "Homezip", "Homeaddress", "Homephone", "Homefax",
                      "Cellphone">>)
    \o Row("Origcountry", <<country2string(info.Origcountry)>>)
    \o Fields(info, <<"Origcity", "Origstate">>)

\* The occupation is looked up among the countries.
WorkTab(info) ==
  Row("Workcountry", <<country2string(info.Workcountry)>>)
    \o Fields(info, <<"Workcity", "Workstate", "Workzip", "Workaddress", "Workposition", "Workphone",
                      "Workfax", "Workcompany">>)
    \o Row("Workoccupation", <<country2string(info.Workoccupation)>>)
    \o Fields(info, <<"Workwebpage">>)

showInfo(info) ==
  [full |-> FullTab(info), main |-> MainTab(info), home |-> HomeTab(info), work |-> WorkTab(info),
   notes |-> info.Notes]
=============================================================================
