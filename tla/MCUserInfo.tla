----------------------------- MODULE MCUserInfo -----------------------------
(* UserInfo on a small instance: a contact that changes what it tells, and *)
(* one that tells other parts and hides its nick.                          *)
EXTENDS UserInfo

Part(subtype, fields) == [subtype |-> subtype, fields |-> fields]
All(subtype) == Part(subtype, Len(Layouts[subtype]))

Ann ==
  [values |-> ("Nickname" :> <<65>>) @@ ("Firstname" :> <<65, 110>>) @@ ("Homecity" :> <<80>>)
               @@ ("Homecountry" :> 7) @@ ("GMToffset" :> -8) @@ ("Age" :> 300) @@ ("Gender" :> 1)
               @@ ("Birthyear" :> 1980) @@ ("Birthmonth" :> 2) @@ ("Birthday" :> 3)
               @@ ("Language2" :> 55) @@ ("Origcity" :> <<81>>)
               @@ ("Emails" :> <<<<<<97>>, 1>>, <<<<98>>, 0>>>>),
   parts |-> <<All(200), Part(235, 0)>>]

Ann_moved ==
  [values |-> ("Nickname" :> <<66>>) @@ ("Homecity" :> <<82>>) @@ ("Homecountry" :> 999)
               @@ ("Age" :> 31) @@ ("Gender" :> 2) @@ ("Notes" :> <<78, 10>>)
               @@ ("Homepagekeywords" :> <<75>>),
   parts |-> <<Part(220, 12), All(230), All(270)>>]

Bob ==
  [values |-> ("Workcity" :> <<83>>) @@ ("Workposition" :> <<84>>) @@ ("Workoccupation" :> 3)
               @@ ("Interest1category" :> 101) @@ ("Interest1" :> <<73>>) @@ ("Interest4" :> <<74>>)
               @@ ("Past3category" :> 300) @@ ("Affiliation3" :> <<76>>),
   parts |-> <<All(210), All(240), All(250)>>]

\* The user tells a bit of everything, and in each field something else.
Rows == PersonalRows \o RestRows
Names == FlattenSeq([i \in DOMAIN Rows |-> Rows[i][2]])
ValueOf(name) ==
  LET i == CHOOSE j \in DOMAIN Names : Names[j] = name
  IN  IF FieldOf(name)[2] = 0 THEN <<64 + i>> ELSE i
Myself ==
  [name \in DOMAIN NoCriteria |->
     CASE name = "Emails" -> <<<<<<97>>, 1>>, <<<<>>, 0>>>>
       [] name = "GMToffset" -> -8
       [] name \in ToSet(Names) \ {"GMToffset"} -> ValueOf(name)
       [] OTHER -> NoCriteria[name]]

Secret == <<83, 51>>

By(criteria) == criteria @@ NoCriteria
SomeCriteria ==
  {By("Homecity" :> <<80>> @@ "Minage" :> 200 @@ "Maxage" :> 300),
   By("Interest1category" :> 101 @@ "Interest1" :> <<73>> @@ "Minage" :> 9 @@ "Maxage" :> 3),
   By("Searchonline" :> 1), By("Language1" :> 55)}

People == 1 .. 2
WhatTheyTell == <<<<Ann, Ann_moved>>, <<Bob>>>>
=============================================================================
