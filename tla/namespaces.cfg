\* A target namespace is created, terminated and created again while the operator
\* works.
SPECIFICATION FairHistSpec
CONSTANTS
  Namespaces = {"src", "t1"}
  SystemNamespaces = {}
  DefaultNamespace = "src"
  Names = {"a"}
  Kinds = {"Secret"}
  Types = {"Opaque"}
  Labels = {}
  Versions <- OnePayload
  Syncs = {"c1"}
  Specs <- OnOff
  EmptyValue = ""
  Second = 2
  MaxDuration = 1023
  EnableWebhook = TRUE
  None = None
  NoObj = NoObj
  Users = {"user"}
  UserKeys <- NoKeys
  UserNamespaces = {"t1"}
  MaxOps = 4
  MaxFaults = 0
  MaxRV = 18
  TickRV = 4
  InitNamespaces <- TwoNamespaces
  InitObjects <- OneSource
  MaxCrashes = 0
INVARIANTS
  NewNamespaceServed
PROPERTIES
  UserEditsSurvive
  EndingNamespaceFreed
  ComesToRest
\* The system stops for good once the last ConfigSync is gone
CHECK_DEADLOCK FALSE
