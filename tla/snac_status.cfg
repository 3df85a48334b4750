\* The login's sendStatus and then the user's setStatus, on one thread.
SPECIFICATION Spec
CONSTANTS
  Threads = {connect}
  Kinds = {self}
  WildKinds = {self}
  PostKinds = {self}
  MultiKinds = {}
  WaitLimit = 1
  Lifetime = 2
  MaxReq = 2
  MaxParts = 1
  MaxConn = 1
  connect = connect
  self = self
INVARIANTS
  OwnStatusReply
CHECK_DEADLOCK FALSE
