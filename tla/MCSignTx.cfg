CONSTANTS
  c1 = c1
  c2 = c2
  a1 = a1
  a2 = a2
  Coins = {c1, c2}
  Accounts = {a1, a2}
  Other = other
  Claims <- MCClaims
  Truths <- MCTruths
  InputsCount = 2
  OutputsCount = 2
SPECIFICATION Spec
INVARIANTS ShownIsPaid SilentOutputsReturn
CONSTRAINT GivenMatters
