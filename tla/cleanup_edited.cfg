\* A ConfigSync stops copying Secrets and is deleted.
SPECIFICATION FreshSpec
CONSTANTS
  Namespaces = {"src", "t1"}
  SystemNamespaces = {}
  DefaultNamespace = "src"
  Names = {"a"}
  Kinds = {"Secret", "ConfigMap"}
  Types = {"Opaque"}
  Labels = {}
  Versions <- OnePayload
  Syncs = {"c1"}
  Specs <- OnOrSecretsOff
  EmptyValue = ""
  Second = 2
  MaxDuration = 1023
  EnableWebhook = TRUE
  None = None
  NoObj = NoObj
  Users = {"user"}
  UserKeys <- NoKeys
  UserNamespaces = {}
  MaxOps = 3
  MaxFaults = 0
  MaxRV = 12
  TickRV = 0
  InitNamespaces <- TwoNamespaces
  InitObjects <- BothSources
  MaxCrashes = 0
PROPERTIES
  CleanupTakesAll
\* The system stops for good once the last ConfigSync is gone
CHECK_DEADLOCK FALSE
