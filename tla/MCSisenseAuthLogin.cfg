SPECIFICATION Spec
CONSTANTS
  acme = acme
  globex = globex
  withTarget = withTarget
  plain = plain
  Client = {claude}
  Resource <- MCResource
  NoResource = NoResource
  Domain = {acme, globex, initech}
  NoTarget = NoTarget
  TargetOf <- MCTargetOf
  AllowedOrigins = {acme, globex}
  User = {alice, bob}
  Ip = {ip1}
  Post = {p1, p2}
  LoginTtl = 1
  CodeTtl = 1
  AccessTtl = 1
  RefreshTtl = 2
  MaxPending = 2
  LoginAttempts = 2
  LoginWindow = 2
  LimiterKeys = 2
  MaxSecrets = 4
  MaxTime = 2
INVARIANTS TypeOK OneSessionPerLogin CredentialsAreConfined
PROPERTY AuthorizeAdmits
SYMMETRY Symmetry
CHECK_DEADLOCK FALSE
