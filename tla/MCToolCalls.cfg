SPECIFICATION Spec
CONSTANTS
  modern = modern
  legacy = legacy
  plain = plain
  alice = alice
  bob = bob
  acme = acme
  get = get
  delete = delete
  first = first
  second = second
  NoClient = NoClient
  Call = {c1, c2}
  Conn = {modern, legacy, plain}
  Modern = {modern}
  Renders = {modern, legacy}
  CredentialOf <- MCCredentialOf
  Tool = {get, delete}
  Mutates = {delete}
  Args = {first, second}
  Request <- MCRequest
  AllowMutations = TRUE
  MaxClients = 1
  PoolSizes = {1, 2}
INVARIANTS TypeOK MutationsAreApproved RunsWithOwnCredential
PROPERTY CallsAreAnswered
