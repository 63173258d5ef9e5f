\* Two processes, and users who delete a ConfigSync or use a slot of its target.
SPECIFICATION TwoSpec
CONSTANTS
  Namespaces = {"src", "t1"}
  SystemNamespaces = {}
  DefaultNamespace = "src"
  Names = {"a"}
  Kinds = {"Secret"}
  Types = {"Opaque"}
  Labels = {}
  Versions <- OnePayload
  Syncs = {"c1"}
  Specs <- OnlyT1
  EmptyValue = ""
  Second = 2
  MaxDuration = 1023
  EnableWebhook = TRUE
  None = None
  NoObj = NoObj
  Users = {"user"}
  UserKeys <- Targets
  UserNamespaces = {}
  MaxOps = 2
  MaxFaults = 0
  MaxRV = 4
  TickRV = 0
  InitNamespaces <- TwoNamespaces
  InitObjects <- OneSource
  MaxCrashes = 0
PROPERTIES
  UserObjectNeverAdopted
  UserEditsSurvive
\* The system stops for good once the last ConfigSync is gone
CHECK_DEADLOCK FALSE
