SPECIFICATION Spec

CONSTANTS
  r1 = r1   r2 = r2   r3 = r3
  u1 = u1   u2 = u2   l1 = l1   l2 = l2
  Users = {u1, u2}
  Links = {l1, l2}
  Quotes = {q1}
  Accounts = {a1}
  Amounts = {1}
  Requests = {r1, r2, r3}
  MaxFaults = 1
  MaxCrashes = 1

SYMMETRY MCSymmetry

INVARIANTS TypeOK PayersSawPayableLink OneOrderPerPayer PaidCountFollowsOrders
  AnswersTellOrders
PROPERTY LinkClosesForGood

CHECK_DEADLOCK FALSE
