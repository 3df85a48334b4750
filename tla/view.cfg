\* Three contacts in one group, which is followed by that of the others: it is sorted.
SPECIFICATION Spec
CONSTANTS
  Buddies <- ThreeBuddies
  GroupOf <- AllInOne
  GroupIds <- OneGroup
  Strangers = {}
  Online = {1}
  Kept = {1, 2}
  Heard = {1}
  MaxEvents = 2
  MaxClicks = 2
  MaxActs = 2
INVARIANTS
  TypeOK
  Layout
  ContactsTrue
PROPERTIES
  ChangeSorts
CHECK_DEADLOCK FALSE
