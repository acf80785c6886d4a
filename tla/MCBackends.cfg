SPECIFICATION SeedSpec
CONSTANTS
  r1 = r1
  Callers = {r1}
  Calls <- Queries
  MaxConns = 1
  NoResult = NoResult
  Accounts <- MCAccounts
  Balances <- MCBalances
  Transactions <- MCTransactions
  Owner <- MCOwner
  Idents <- MCIdents
  Identification <- MCIdentification
  Interim <- MCInterim
  Bad <- MCBad
  Order <- MCOrder
  SeedBalances <- MCSeedBalances
  SeedTransactions <- MCSeedTransactions
INVARIANTS
  BackendsAgree
