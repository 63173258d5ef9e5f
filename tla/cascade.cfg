\* A source is deleted while the main worker is copying it.
SPECIFICATION Spec
CONSTANTS
  Namespaces = {"src", "t1"}
  SystemNamespaces = {}
  DefaultNamespace = "src"
  Names = {"a"}
  Kinds = {"Secret"}
  Types = {"Opaque"}
  Labels = {}
  Versions <- TwoPayloads
  Syncs = {"c1"}
  Specs <- OnlyT1
  EmptyValue = ""
  Second = 2
  MaxDuration = 1023
  EnableWebhook = TRUE
  None = None
  NoObj = NoObj
  Users = {"user"}
  UserKeys <- Sources
  UserNamespaces = {}
  MaxOps = 3
  MaxFaults = 0
  MaxRV = 12
  TickRV = 0
  InitNamespaces <- TwoNamespaces
  InitObjects <- OneSource
  MaxCrashes = 0
INVARIANTS
  CascadeDelete
\* The system stops for good once the last ConfigSync is gone
CHECK_DEADLOCK FALSE
