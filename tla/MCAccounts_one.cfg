SPECIFICATION Spec
CONSTANTS
  c1 = c1
  ConsentIds = {c1}
  Callers = {r1}
  NoConsent = NoConsent
  BadCurrency = "??"
  Grants <- AllGrants
  Accounts <- MCAccountIds
  Balances <- MCBalances
  Transactions <- MCTransactions
  Owner <- MCOwner
  Idents <- MCIdents
  Identification <- MCIdentification
  Interim <- MCInterim
  Bad <- MCBad
  Entry <- MCEntry
  Seed <- MCSeed
  Currencies <- MCCurrencies
  Calls <- AllCalls
INVARIANTS
  TypeOK
  ListComplete
  NotFoundHonest
  FundsAnswerExact
PROPERTIES
  GateSpec
  Answered
