--------------------------- MODULE ConfigSyncApi ---------------------------
(***************************************************************************)
(* The vocabulary of the config-sync operator: the Secrets and ConfigMaps  *)
(* it copies, the ConfigSync resource that tells it what to copy, and the  *)
(* decisions its controllers take from them without changing any state     *)
(* (api/v1/configsync_types.go and the pure parts of controllers/).        *)
(*                                                                         *)
(* Payloads, names and timestamps are abstracted to what the properties    *)
(* tell apart: a payload is the namespace it was written in and its data.  *)
(***************************************************************************)
EXTENDS Integers, FiniteSets

CONSTANTS
  Namespaces,        \* namespace names
  SystemNamespaces,  \* kube-system, kube-public, kube-node-lease
  DefaultNamespace,  \* the namespace called "default"
  Names,             \* names of Secrets and ConfigMaps
  Kinds,             \* the kinds in play, out of "Secret" and "ConfigMap"
  Types,             \* Secret types in play ("Opaque" is one)
  Labels,            \* user labels an object may carry
  Versions,          \* payloads users write: functions from data keys to values
  Syncs,             \* names of ConfigSync resources
  Specs,             \* ConfigSync specs users write
  Second,            \* time.Second, in the unit of a time.Duration
  MaxDuration,       \* the largest time.Duration
  EmptyValue,        \* the empty string, as a value in a payload
  None,              \* the label, name or namespace that is not there
  NoObj              \* the content of an empty slot of the API server

ConfigSyncKinds == {"Secret", "ConfigMap"}
ServiceAccountToken == "service-account-token"

\* matchLabels, matchExpressions (of the form "label does not exist") and
\* whether LabelSelectorAsSelector accepts it
Selector == [matchLabels : SUBSET Labels, without : SUBSET Labels,
             valid : BOOLEAN]

ConfigSyncSpec ==
  [source   : Namespaces \cup {None},  targets : SUBSET Namespaces,
   excluded : SUBSET Namespaces,       sync : [Kinds -> BOOLEAN],
   selector : [Kinds -> Selector],     interval : Nat \cup {None}]

ASSUME ApiAssumption ==
  /\ SystemNamespaces \subseteq Namespaces
  /\ DefaultNamespace \in Namespaces
  /\ Kinds \subseteq ConfigSyncKinds
  /\ "Opaque" \in Types
  /\ None \notin Namespaces /\ None \notin Syncs /\ None \notin Nat
  /\ Second \in Nat \ {0} /\ MaxDuration \in Nat /\ 300 * Second <= MaxDuration
  /\ Specs \subseteq ConfigSyncSpec

-----------------------------------------------------------------------------
\* Objects

Key == [kind : Kinds, ns : Namespaces, name : Names]
Payload == [at : Namespaces, v : Versions]

\* from, by: the labels synced-from and synced-by
Object ==
  [data : Payload, labels : SUBSET Labels, type : Types,
   from : Namespaces \cup {None}, by : Syncs \cup {None}]

\* NamespaceStatus: a namespace that is no target has status "None"
NamespaceStatus ==
  [status : {"None", "Success", "Failed"}, synced : [Kinds -> Nat]]
Status == [Namespaces -> NamespaceStatus]
NoStatus ==
  [n \in Namespaces |-> [status |-> "None", synced |-> [kd \in Kinds |-> 0]]]

ConfigSync ==
  [spec : ConfigSyncSpec, finalizer : BOOLEAN, deleting : BOOLEAN,
   status : Status]

\* A slot of the API server: what it holds and its resourceVersion
Cell(S) == [rv : Nat, obj : S \cup {NoObj}]

ASSUME NoObjAssumption ==
  NoObj \notin Object /\ NoObj \notin ConfigSync /\ NoObj # None

-----------------------------------------------------------------------------
\* Labels, types and selectors

HasSyncLabel(o) == o.from # None
SyncedBy(o, src, c) == o.from = src /\ o.by = c
IsToken(kd, o) == kd = "Secret" /\ o.type = ServiceAccountToken

\* secretDataEqual (and binaryDataEqual) compare maps. dataEqual looks a key
\* of the one up in the other, where a missing key reads as the empty string.
Lookup(m, key) == IF key \in DOMAIN m THEN m[key] ELSE EmptyValue
dataEqual(a, b) ==
  /\ Cardinality(DOMAIN a) = Cardinality(DOMAIN b)
  /\ \A key \in DOMAIN a : Lookup(b, key) = a[key]
SameData(kd, a, b) == IF kd = "ConfigMap" THEN dataEqual(a, b) ELSE a = b

SelectorMatches(sel, o) ==
  sel.matchLabels \subseteq o.labels /\ sel.without \cap o.labels = {}

\* The watchers consult the selector only when it has matchLabels, and pass
\* over a ConfigSync whose selector does not parse
WatchMatches(sel, o) ==
  sel.matchLabels = {} \/ (sel.valid /\ SelectorMatches(sel, o))

-----------------------------------------------------------------------------
\* Decisions taken from a spec

SourceNamespace(spec) ==
  IF spec.source = None THEN DefaultNamespace ELSE spec.source

EnabledKinds(spec) == {kd \in Kinds : spec.sync[kd]}

filterNamespaces(S, spec) ==
  S \ (spec.excluded \cup {SourceNamespace(spec)} \cup SystemNamespaces)

getTargetNamespaces(spec, existing) ==
  filterNamespaces(IF spec.targets # {} THEN spec.targets ELSE existing, spec)

\* Mutant: nothing is pruned for a ConfigSync without a list of targets
shouldDeleteFrom_listed(n, spec, targets) ==
  /\ n # SourceNamespace(spec)
  /\ n \notin SystemNamespaces
  /\ spec.targets # {} /\ n \notin targets

shouldDeleteFrom(n, spec, targets) ==
  /\ n # SourceNamespace(spec)
  /\ n \notin SystemNamespaces
  /\ n \notin targets

\* A product of durations, in the width of a time.Duration
Duration(n) == ((n + MaxDuration + 1) % (2 * (MaxDuration + 1))) - MaxDuration - 1

\* The interval is at least 60 seconds; a spec may also ask for more seconds
\* than a time.Duration holds
getSyncInterval(spec) ==
  LET seconds == IF spec.interval = None THEN 300
                 ELSE IF spec.interval < 60 THEN 60 ELSE spec.interval
  IN  Duration(seconds * Second)

\* The copy of a source object: its payload, type and labels, relabelled
CopyOf(o, src, c) == [o EXCEPT !.from = src, !.by = c]

\* Secrets are handled before ConfigMaps
FirstKind(S) == IF "Secret" \in S THEN "Secret" ELSE "ConfigMap"

\* The source objects of a kind, as an informer cache shows them
listSource(view, kd, spec) ==
  {k \in Key :
     /\ k.kind = kd /\ k.ns = SourceNamespace(spec)
     /\ view[k].obj # NoObj
     /\ SelectorMatches(spec.selector[kd], view[k].obj)
     /\ ~IsToken(kd, view[k].obj)
     /\ ~HasSyncLabel(view[k].obj)}

\* A new namespace wakes the ConfigSyncs that name it
NamespaceWakes(spec, n) == n \in spec.targets /\ n \notin spec.excluded

\* matchesAnyConfigSync and triggerConfigSyncReconciliation agree on this
ObjectWakes(spec, k, o) ==
  k.ns = SourceNamespace(spec) /\ WatchMatches(spec.selector[k.kind], o)

=============================================================================
