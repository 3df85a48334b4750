\* The window has been put away, and a contact writes.
SPECIFICATION Spec
CONSTANTS
  Buddies <- OneBuddy
  GroupOf <- AllInOne
  GroupIds <- OneGroup
  Strangers = {}
  Online = {}
  Kept = {}
  Heard = {1}
  MaxEvents = 1
  MaxClicks = 1
  MaxActs = 2
INVARIANTS
  AwayIsSafe
CHECK_DEADLOCK FALSE
