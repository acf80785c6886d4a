SPECIFICATION Spec
CONSTANTS
  i1 = i1
  i2 = i2
  NoIdent = NoIdent
  NoRow = NoRow
  Currencies <- MCCurrencies
  Idents <- MCIdents
  Known <- MCKnown
  Asks <- MCAsks
  Stored <- MCStored
INVARIANTS
  ValidatedNonNegative
