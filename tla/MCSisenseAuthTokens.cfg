SPECIFICATION Spec
CONSTANTS
  acme = acme
  globex = globex
  withTarget = withTarget
  plain = plain
  Client = {claude}
  Resource = {withTarget}
  NoResource = NoResource
  Domain = {acme}
  NoTarget = NoTarget
  TargetOf <- MCTargetOf
  AllowedOrigins = {acme}
  User = {alice, bob}
  Ip = {ip1}
  Post = {p1}
  LoginTtl = 0
  CodeTtl = 0
  AccessTtl = 0
  RefreshTtl = 1
  MaxPending = 1
  LoginAttempts = 2
  LoginWindow = 1
  LimiterKeys = 2
  MaxSecrets = 8
  MaxTime = 2
INVARIANTS SessionsHoldTheirSignIn AudienceSurvives NoCredentialOutlivesRevocation
PROPERTIES SweepSparesLiveSessions ImplementsSessions
SYMMETRY Symmetry
CHECK_DEADLOCK FALSE
