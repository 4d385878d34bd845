SPECIFICATION Spec

CONSTANTS
  r1 = r1   r2 = r2   r3 = r3
  o1 = o1   o2 = o2   c1 = c1   c2 = c2
  usd = usd   eur = eur   xxx = xxx
  Owners = {o1, o2}
  CardIds = {c1}
  Currencies = {usd, eur, xxx}
  Priced = {usd, eur}
  Precision = 2
  UsdRates = {2, 3}
  Opening <- MCOpening
  Amounts <- MCAmounts
  PaymentAmounts <- MCPaymentAmounts
  SingleTxLimit = 3
  CardLimit = 1
  FixedFee = 1
  Requests = {r1, r2}
  MaxMoves = 2
  MaxMishaps = 1
  TotalLength = 4

SYMMETRY MCSymmetry

INVARIANTS TypeOK FreezesAreExplained AnswersTellAuthorizations
  InactiveCardPaysNothing WrongDigitIsRefused

CHECK_DEADLOCK FALSE
