SPECIFICATION Spec
CONSTANTS
  c1 = c1
  ConsentIds = {c1}
  Callers = {r1, r2}
  NoConsent = NoConsent
  BadCurrency = "??"
  Grants <- PairGrants
  Accounts <- PairAccountIds
  Balances <- PairBalances
  Transactions <- PairTransactions
  Owner <- PairOwner
  Idents <- PairIdents
  Identification <- PairIdentification
  Interim <- PairBalances
  Bad <- PairBad
  Entry <- PairEntry
  Seed <- PairSeed
  Currencies <- MCCurrencies
  Calls <- PairCalls
INVARIANTS
  ViewFresh
  RevocationHolds
  FundsConsistent
  BalancesAgreeWithFunds
