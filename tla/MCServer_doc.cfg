SPECIFICATION Spec
CONSTANTS
  q1 = q1
  q2 = q2
  sent1 = sent1
  uuid1 = uuid1
  uuid2 = uuid2
  NoId = NoId
  Requests = {q1, q2}
  Ids = {sent1}
  Minted <- MCMinted
INVARIANTS
  PoolClosedOnShutdown
CHECK_DEADLOCK FALSE
