\* Every part, each with its own actors.
CONSTANTS
  Unset = Unset
  Gone = Gone
\* StrategyContext
  Requests = {b1, b2}
  Kinds = {"a", "b", "c", "d"}
  Behaviour <- BehaviourOfKind
  Constructed = {"a", "b"}
  Destructed = {"a", "b", "c"}
  Nobody = None
\* ProviderRegistry
  Processes = {b1, b2}
  Versions = {v1}
  DifferKinds = {"k1", "k2"}
  Auths = {"a"}
  ApiCalls = {a1, a2, a3}
  Registrations <- RegisteredKinds
  NoProvider = None
  MaxIds = 2
\* SessionKeys
  SessionIds = {s1, s2}
  ServiceIds = {"service"}
  AdminKey = "admin"
  Callers = {a1, a2, a3}
  Rotations = {TRUE, FALSE}
  NoToken = None
  MaxTokens = 2
\* ProviderSdk
  KindNames = {b1, b2}
  Names = {"n"}
  NoKind = "provider"
  Unsent = None
  MaxRoutes = 2
\* BackgroundTask
  Calls = {a1, a2, a3}
  Ids = {1, 2}
  Fields = {"field"}
  Null = None
  Absent = Unset
SPECIFICATION Spec
SYMMETRY Symmetry
INVARIANTS TypeOK OwnProcedure OwnKindWithoutConstructor SharedByBehaviour
  SameKindsListed StaleIsExcused NoUseAfterEnd StoredIsAlive
  CallbackReachesHandler NoForgottenTask
PROPERTY ReportsTheState
\* Every actor makes one call.
CHECK_DEADLOCK FALSE
