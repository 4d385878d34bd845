SPECIFICATION Spec

CONSTANTS
  p1 = p1   p2 = p2   p3 = p3
  alice = alice   bob = bob   carol = carol
  feeUsd = feeUsd   settlementUsd = settlementUsd
  feeJpy = feeJpy   settlementJpy = settlementJpy
  usd = usd   jpy = jpy
  k1 = k1   k2 = k2   k3 = k3
  NoPayment = NoPayment
  Payments = {p1, p2, p3}
  Keys = {k1, k2, k3}
  Refunders = {r1}
  AccountIds <- MCAccounts
  Currencies <- MCCurrencies
  CurrencyOf <- MCCurrencyOf
  FeeAccountOf <- MCFeeAccountOf
  SettlementAccountOf <- MCSettlementAccountOf
  StartBalance <- MCStartBalance
  Order <- MCRetriedOrders
  OpenAtStart <- MCAccounts
  MaxFaults = 0
  MaxCrashes = 1

INVARIANTS SenderNeverGains AnswerStands

CHECK_DEADLOCK FALSE
