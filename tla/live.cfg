\* The controllers under fairness: edits of the spec, of the labels of the source
\* and, by cluster-admins, of the copies, and a failing call.
SPECIFICATION FairSpec
CONSTANTS
  Namespaces = {"src", "t1"}
  SystemNamespaces = {}
  DefaultNamespace = "src"
  Names = {"a"}
  Kinds = {"Secret"}
  Types = {"Opaque"}
  Labels = {"x"}
  Versions <- OnePayload
  Syncs = {"c1"}
  Specs <- LabelledOnOff
  EmptyValue = ""
  Second = 2
  MaxDuration = 1023
  EnableWebhook = TRUE
  None = None
  NoObj = NoObj
  Users = {"masters"}
  UserKeys <- SourcesAndTargets
  UserNamespaces = {"t1"}
  MaxOps = 3
  MaxFaults = 1
  MaxRV = 16
  TickRV = 0
  InitNamespaces <- TwoNamespaces
  InitObjects <- OneSource
  MaxCrashes = 0
INVARIANTS
  PeriodicLoopAlive
PROPERTIES
  Converged
  EventuallyPruned
  DeletionCompletes
\* The system stops for good once the last ConfigSync is gone
CHECK_DEADLOCK FALSE
