\* Two threads that send and wait side by side on one connection.
SPECIFICATION Spec
CONSTANTS
  Threads = {gui, click}
  Kinds = {self, info}
  WildKinds = {self}
  PostKinds = {self}
  MultiKinds = {info}
  WaitLimit = 1
  Lifetime = 2
  MaxReq = 2
  MaxParts = 2
  MaxConn = 1
  gui = gui
  click = click
  self = self
  info = info
SYMMETRY ThreadSymmetry
INVARIANTS
  OwnReplyUnlessRaced
  AtMostOnce
  PollSeesReply
PROPERTIES
  ClearSparesWaited
  PromiseSpec
CHECK_DEADLOCK FALSE
