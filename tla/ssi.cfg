\* Two edits one after the other, a change of the other client, and a reconnect; edits end.
SPECIFICATION FairSpec
CONSTANTS
  anna = anna
  boris = boris
  friends = friends
  work = work
  Uins = {anna, boris}
  Names = {friends, work}
  GroupIds = {1, 2}
  ItemIds = {1, 2, 3}
  IconItems = {}
  OtherItems = {3}
  Roster <- OneBuddy
  Directory <- OneGroup
  Privacies = {1, 2}
  PRIV_ALL_CAN_SEE = 1
  MaxCalls = 2
  MaxForeign = 1
  MaxLogins = 2
INVARIANTS
  TypeOK
  Mirror
  GroupsListMembers
  TransactionsEnd
PROPERTIES
  DropsOnlyDeleted
  EditEnds
CHECK_DEADLOCK FALSE
