SPECIFICATION Spec
CONSTANTS
  w1 = w1
  w2 = w2
  api = api
  rpc = rpc
  k1 = k1
  NoKey = NoKey
  Workers = {w1, w2}
  Routes = {api, rpc}
  KeyOf <- MCKeyOf
  Conf <- MCConf
  Registered <- MCRegistered
  Unparsable <- MCUnparsable
  ApisixTTL = 5
  MaxTokens = 2
  MaxTries = 3
  MaxRestarts = 1
  Deployments <- MCAll
SYMMETRY Symmetry
INVARIANTS
  TypeOK
  TokensInv
  ManagedTokenMeansRoute
  PromptConfOutlivesToken
  KeyNamesLiveToken
  RetrySucceeds
