SPECIFICATION FairSpec
CONSTANTS
  Countries = {0, 7}
  Languages = {0, 55}
  Interests = {0, 101}
  Contacts <- People
  Tells <- WhatTheyTell
  my_uin = 12
  Mine <- Myself
  Criteria <- SomeCriteria
  new_password <- Secret
  Online = {2}
  MaxDialogs = 2
  MaxActs = 2
INVARIANTS
  TypeOK
  InfoRight
PROPERTIES
  InfoEnds
CHECK_DEADLOCK FALSE
