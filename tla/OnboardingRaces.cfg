SPECIFICATION Spec

CONSTANTS
  r1 = r1   r2 = r2   r3 = r3
  u1 = u1   u2 = u2   u3 = u3
  n1 = n1   n2 = n2   n3 = n3   e1 = e1   e2 = e2   e3 = e3
  None = None
  Names = {n1, n2, n3}
  Emails = {e1, e2, e3}
  Identities <- MCIdentities
  UserIds = {u1, u2, u3}
  Prefix <- MCPrefix
  Registered <- MCRegistered
  Reviewing = {u1}
  Requests = {r1, r2, r3}
  MaxMishaps = 1

SYMMETRY MCSymmetry

INVARIANTS TypeOK RegistrationsAreHonest ReviewsStand

CHECK_DEADLOCK FALSE
