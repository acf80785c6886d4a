SPECIFICATION Spec
CONSTANTS
  r1 = r1
  r2 = r2
  r3 = r3
  Callers = {r1, r2, r3}
  Calls <- PoolCalls
  MaxConns = 2
  NoResult = NoResult
  Accounts <- OneAccount
  Balances <- OneBalance
  Transactions <- NoTransactions
  Owner <- OneOwner
  Idents <- OneIdent
  Identification <- OneIdentification
  Interim <- OneBalance
  Bad <- OneBalance
INVARIANTS
  NoLeak
PROPERTIES
  CallReturns
