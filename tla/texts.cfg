\* Three x-statuses, the last of which is never taken over.
SPECIFICATION FairSpec
CONSTANTS
  CodePage <- CP1251
  Letters <- Words
  Titles <- Names
  Russian <- Leading
  X_STATUS_MAX_BOUND = 3
  MaxActs = 3
  LetterActs = 2
INVARIANTS
  TextArrives
PROPERTIES
  XStatusArrives
CHECK_DEADLOCK FALSE
