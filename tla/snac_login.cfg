\* One sending thread, the connect thread: it pipelines its requests, collects
\* the replies in any order, and may lose the connection and log in again.
SPECIFICATION Spec
CONSTANTS
  Threads = {connect}
  Kinds = {self, copy}
  WildKinds = {self}
  PostKinds = {self}
  MultiKinds = {}
  WaitLimit = 1
  Lifetime = 2
  MaxReq = 3
  MaxParts = 1
  MaxConn = 2
  connect = connect
  self = self
  copy = copy
INVARIANTS
  TypeOK
  OwnReply
CHECK_DEADLOCK FALSE
