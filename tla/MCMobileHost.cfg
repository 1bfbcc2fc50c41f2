CONSTANTS
  r = r
  phone = phone
  r1 = r1
  h1 = h1
  h2 = h2
  n1 = n1
  t1 = t1
  q1 = q1
  Peers = {r, phone}
  Networks = {n1}
  DefaultNetwork = n1
  Tokens = {t1}
  Procs = {r1, h1, h2}
  Owner <- MCOwner
  None = None
  Inviters = {r}
  Settings = {None}
  InviteTtl = 1
  CertTtl = 2
  MaxLaunches = 4
  MaxTime = 0
  Phone = phone
  Entered = {n1}
  Polls = {q1}
  User = User
SPECIFICATION FairHostSpec
INVARIANT HostInv
PROPERTY CallsEnd
CHECK_DEADLOCK FALSE
