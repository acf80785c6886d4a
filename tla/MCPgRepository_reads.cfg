SPECIFICATION Spec
CONSTANTS
  r1 = r1
  r2 = r2
  r3 = r3
  Callers = {r1, r2}
  Calls <- Queries
  MaxConns = 1
  NoResult = NoResult
  Accounts <- MCAccounts
  Balances <- MCBalances
  Transactions <- MCTransactions
  Owner <- MCOwner
  Idents <- MCIdents
  Identification <- MCIdentification
  Interim <- MCInterim
  Bad <- MCBad
SYMMETRY CallerSymmetry
INVARIANTS
  TypeOK
PROPERTIES
  ImplementsPort
