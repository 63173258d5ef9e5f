\* A ConfigSync is deleted while the cache is behind the copies just made.
SPECIFICATION Spec
CONSTANTS
  Namespaces = {"src", "t1"}
  SystemNamespaces = {}
  DefaultNamespace = "src"
  Names = {"a"}
  Kinds = {"Secret"}
  Types = {"Opaque"}
  Labels = {}
  Versions <- TwoPayloads
  Syncs = {"c1"}
  Specs <- OnlyT1
  EmptyValue = ""
  Second = 2
  MaxDuration = 1023
  EnableWebhook = TRUE
  None = None
  NoObj = NoObj
  Users = {"user"}
  UserKeys <- NoKeys
  UserNamespaces = {}
  MaxOps = 2
  MaxFaults = 0
  MaxRV = 12
  TickRV = 0
  InitNamespaces <- TwoNamespaces
  InitObjects <- OneSource
  MaxCrashes = 0
INVARIANTS
  NoCopyOutlivesItsSync
\* The system stops for good once the last ConfigSync is gone
CHECK_DEADLOCK FALSE
