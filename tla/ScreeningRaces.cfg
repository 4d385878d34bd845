SPECIFICATION Spec

CONSTANTS
  r1 = r1   r2 = r2
  u1 = u1   u2 = u2   u3 = u3
  usd = usd   eur = eur   jpy = jpy
  Nil = Nil
  Members = {u1, u2, u3}
  Registered <- MCRegistered
  Profiles <- MCProfiles
  History <- MCHistory
  Intents <- MCIntents
  Requests = {r1, r2}
  Usd = usd
  Priced = {eur, jpy}
  Precision = 3
  MaxInt = 10000000
  DefaultUSDRates <- MCRates
  UsdRates = {2, 7}
  MaxEvents = 1

SYMMETRY MCSymmetry

INVARIANTS TypeOK LoneAssessmentIsRight QuotesAreFair

CHECK_DEADLOCK FALSE
