SPECIFICATION TSpec
CONSTANTS
  MaxK = 2
  DefaultK = 1
  Store = {"v0", "s1"}
  TableOf <- TablesNamed
  Specs <- StoreSpecs
  Old = {"v0"}
  Starts <- AtStart
  Clients = {"c1", "c2"}
  Node = {"n1"}
  NodeStore <- NodesAt
  Keyed = {"n1"}
  Requests <- SomeRequests
  Distances = {100, 600}
  Backends = {"sqlite", "bare"}
  MaxDocs = 2
  MaxVectors = 2
  MaxCuts = 1
  Conn = {"g1", "g2"}
  Kept = {"g1"}
  Token = {"", "t"}
  Callers = {"k1", "k2"}
  Asks <- AllAsks
  Crowds = {TRUE, FALSE}
  MaxSaves = 2
  MaxBreaks = 1
  Servers = {"x1", "x2"}
  Lives <- SomeLives
  ExtBodies <- SomeExtBodies
  Builtins <- SomeBuiltins
  Retired = {"Void"}
  OldRows <- SomeOldRows
  Overlapping = {TRUE, FALSE}
  MaxRows = 6
  MaxWork <- WorkAllowed
  MaxCrashes = 1
  MaxUnread = 1
  Pid = {1, 2}
  Flavours = {"bash", "ps"}
  Runtimes = {"go", "node", "docker"}
  MaxRev = 2
  MaxCommands = 4
  MaxMishaps = 2
  Flow = {f1}
  OldFlows = {f1}
  Graph <- SomeGraphs
  Label = {gdpr}
  Editors = {e1, e2}
  Races = {TRUE, FALSE}
  MaxChanges <- TwoOrThree
  MaxStops = 1
  Launches = {l1}
  Forms <- SomeForms
  Givens <- SomeGivens
  Documents <- SomeDocuments
  Payload <- SomePayload
  Clashes = {TRUE, FALSE}
  MaxWrites = 2
  MaxBlinks = 1
  Hook = {h1, h2}
  Slug = {"", "given"}
  Secret = {"", "right"}
  Calls = {d1, d2}
  Savers = {s1}
  Jams = {TRUE, FALSE}
  MaxHits = 1
  MaxEdits <- TwoEach
INVARIANTS  GatewaysHold ExtensionsHold  WorkflowsHold  
PROPERTIES StepsKeep
CHECK_DEADLOCK FALSE
