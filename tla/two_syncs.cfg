\* Two ConfigSyncs with one source and one target, whose specs are edited before
\* they are deleted. The main worker reads caches that are not behind.
SPECIFICATION FreshSpec
CONSTANTS
  Namespaces = {"src", "t1"}
  SystemNamespaces = {}
  DefaultNamespace = "src"
  Names = {"a"}
  Kinds = {"Secret", "ConfigMap"}
  Types = {"Opaque"}
  Labels = {}
  Versions <- OnePayload
  Syncs = {c1, c2}
  c1 = c1
  c2 = c2
  Specs <- OnOrSecretsOff
  EmptyValue = ""
  Second = 2
  MaxDuration = 1023
  EnableWebhook = TRUE
  None = None
  NoObj = NoObj
  Users = {"user"}
  UserKeys <- NoKeys
  UserNamespaces = {}
  MaxOps = 3
  MaxFaults = 0
  MaxRV = 12
  TickRV = 0
  InitNamespaces <- TwoNamespaces
  InitObjects <- BothSources
  MaxCrashes = 0
PROPERTIES
  CleanupComplete
  CleanupSparesOthers
SYMMETRY Symmetry
\* The system stops for good once the last ConfigSync is gone
CHECK_DEADLOCK FALSE
