SPECIFICATION Spec
CONSTANTS
  MunicipalityId = "roebel"
  AllowedAgents = {"mecky"}
  AllowedSigners = {"citizen"}
  ReceiptTtl = 3
  StatusMaxAge = 2
  MaxSkew = 1
  Processes = {p1, p2}
  Requests = {q1, q2}
  Actors = {a1, a2}
  Nonces = {1, 2}
  Bundle <- MCAll
  MaxCases = 1
  StartClock = 2
  MaxClock = 5
  Workloads <- MCWorkloads
  NoRequest = NoRequest
INVARIANTS OneCasePerRoot StoreStaysReadable WithdrawalTakesEffect
PROPERTIES RetriesAreIdentical LateHandlersWriteNothing
SYMMETRY MCSymmetry
CHECK_DEADLOCK FALSE
