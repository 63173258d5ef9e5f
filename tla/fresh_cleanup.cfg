\* Editing and deleting a ConfigSync with a copy, when the main worker
\* reads caches that are not behind, and with a crash at any point.
SPECIFICATION FreshSpec
CONSTANTS
  Namespaces = {"src", "t1"}
  SystemNamespaces = {}
  DefaultNamespace = "src"
  Names = {"a"}
  Kinds = {"ConfigMap"}
  Types = {"Opaque"}
  Labels = {}
  Versions <- OnePayload
  Syncs = {"c1"}
  Specs <- ListedOrAll
  EmptyValue = ""
  Second = 2
  MaxDuration = 1023
  EnableWebhook = TRUE
  None = None
  NoObj = NoObj
  Users = {"user"}
  UserKeys <- NoKeys
  UserNamespaces = {}
  MaxOps = 3
  MaxFaults = 0
  MaxRV = 12
  TickRV = 0
  InitNamespaces <- TwoNamespaces
  InitObjects <- BothSources
  MaxCrashes = 1
INVARIANTS
  NoCopyOutlivesItsSync
\* The system stops for good once the last ConfigSync is gone
CHECK_DEADLOCK FALSE
