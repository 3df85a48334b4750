\* Two messages each way.
SPECIFICATION FairSpec
CONSTANTS
  Looks <- SomeLooks
  X_STATUS_MAX_BOUND = 2
  MaxTheirs = 2
  MaxMine = 2
  MaxLooks = 2
  MaxKeys = 2
  MaxEnds = 1
  MaxActs = 3
INVARIANTS
  TypeOK
  NothingLost
  OnceInOrder
  SentIsShown
  PresenceTrue
PROPERTIES
  UTF8Understood
  TypingEnds
