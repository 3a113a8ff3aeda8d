SPECIFICATION FairSpec
CONSTANTS
  acme = acme
  globex = globex
  mcp = mcp
  alice = alice
  bob = bob
  Client = {claude}
  Resource = {}
  NoResource = NoResource
  Domain = {acme}
  NoTarget = NoTarget
  TargetOf <- MCTargetOf
  AllowedOrigins = {acme}
  Ip = {ip1}
  Post = {p1}
  LoginTtl = 0
  CodeTtl = 0
  AccessTtl = 1
  RefreshTtl = 1
  MaxPending = 1
  LoginAttempts = 1
  LoginWindow = 2
  LimiterKeys = 2
  MaxSecrets = 8
  MaxTime = 1
  SisenseToken = {alice}
  User <- MCUser
  OwnResource = {}
  RsOrigins = {acme}
  RsSslVerify = TRUE
  VerifyTtl = 1
  MaxEntries = 1
  Call = {c1}
PROPERTY DeadCredentialLeaves
CHECK_DEADLOCK FALSE
