SPECIFICATION Spec
CONSTANTS
  acme = acme
  globex = globex
  mcp = mcp
  alice = alice
  bob = bob
  Client = {claude}
  Resource = {mcp}
  NoResource = NoResource
  Domain = {acme, globex}
  NoTarget = NoTarget
  TargetOf <- MCTargetOf
  AllowedOrigins = {acme}
  Ip = {ip1}
  Post = {p1}
  LoginTtl = 0
  CodeTtl = 0
  AccessTtl = 1
  RefreshTtl = 1
  MaxPending = 1
  LoginAttempts = 1
  LoginWindow = 1
  LimiterKeys = 2
  MaxSecrets = 6
  MaxTime = 2
  SisenseToken = {alice}
  User <- MCUser
  OwnResource = {mcp}
  RsOrigins = {acme, globex}
  RsSslVerify = TRUE
  VerifyTtl = 1
  MaxEntries = 1
  Call = {c1}
INVARIANTS TypeOK ToolRunsAsSignedIn RevocationReachesTools
PROPERTY SessionLossIsEarned
CHECK_DEADLOCK FALSE
