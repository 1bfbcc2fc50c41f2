CONSTANTS
  r = r
  a = a
  b = b
  r1 = r1
  a1 = a1
  a2 = a2
  b1 = b1
  n1 = n1
  n2 = n2
  t1 = t1
  t2 = t2
  Peers = {r, a, b}
  Networks = {n1, n2}
  DefaultNetwork = n1
  Tokens = {t1, t2}
  Procs = {r1, a1, a2, b1}
  Owner <- MCOwner
  None = None
  Settings = {None, n2}
  Inviters = {r, a}
  InviteTtl = 1
  CertTtl = 2
  MaxLaunches = 4
  MaxTime = 2
SPECIFICATION Spec
INVARIANT Inv
INVARIANT SingleUse
INVARIANT AdmittedOnly
INVARIANT JoinsMatch
INVARIANT AdmissionNotWasted
PROPERTY MembershipKept
CHECK_DEADLOCK FALSE
SYMMETRY Secrets
