\* Interleavings of the controllers, the informers and users who edit specs,
\* sources and copies, with stale caches.
SPECIFICATION Spec
CONSTANTS
  Namespaces = {"src", "t1", "sys"}
  SystemNamespaces = {"sys"}
  DefaultNamespace = "src"
  Names = {"a"}
  Kinds = {"Secret"}
  Types = {"Opaque"}
  Labels = {}
  Versions <- TwoPayloads
  Syncs = {"c1"}
  Specs <- ThereOrBack
  EmptyValue = ""
  Second = 2
  MaxDuration = 1023
  EnableWebhook = TRUE
  None = None
  NoObj = NoObj
  Users = {"user"}
  UserKeys <- SourcesAndTargets
  UserNamespaces = {}
  MaxOps = 3
  MaxFaults = 0
  MaxRV = 6
  TickRV = 0
  InitNamespaces <- SystemToo
  InitObjects <- OneSource
  MaxCrashes = 0
INVARIANTS
  TypeOK
  PeriodicLoopAlive
  CopyProvenance
PROPERTIES
  UserObjectNeverAdopted
  UserEditsSurvive
  CopiesMadeUnderFinalizer
  KeepsLifecycle
\* The system stops for good once the last ConfigSync is gone
CHECK_DEADLOCK FALSE
