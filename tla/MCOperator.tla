----------------------------- MODULE MCOperator -----------------------------
(***************************************************************************)
(* Values of the constants for the runs of the operator.                   *)
(***************************************************************************)
EXTENDS OperatorProperties, TLC

All == [matchLabels |-> {}, without |-> {}, valid |-> TRUE]

\* From src to the namespaces given, every object of every kind
SpecTo(ns) ==
  [source |-> "src", targets |-> ns, excluded |-> {},
   sync |-> [kd \in Kinds |-> TRUE], selector |-> [kd \in Kinds |-> All],
   interval |-> None]

\* Two payloads that differ and that dataEqual takes for the same
V1 == [k1 |-> ""]
V2 == [k2 |-> "x"]
OnePayload == {V1}
TwoPayloads == {V1, V2}

Plain(n, v) == [data |-> [at |-> n, v |-> v], labels |-> {},
                type |-> "Opaque", from |-> None, by |-> None]

K(kd, n, nm) == [kind |-> kd, ns |-> n, name |-> nm]

\* Two namespaces: t1 can be targeted or excluded
TwoNamespaces == {"src", "t1"}
OneSource == [k \in {K("Secret", "src", "a")} |-> Plain("src", V1)]
BothSources ==
  [k \in {K(kd, "src", "a") : kd \in Kinds} |-> Plain("src", V1)]
Sources == {k \in Key : k.ns = "src"}
Targets == {k \in Key : k.ns = "t1"}
SourcesAndTargets == Sources \cup Targets
OnlyT1 == {SpecTo({"t1"})}
Excluding(ns) == [SpecTo({}) EXCEPT !.excluded = ns]
\* The other way round, with an interval whose nanoseconds do not fit
Back == [SpecTo({"src"}) EXCEPT !.source = "t1", !.interval = 600]
\* An operator outside the selector grammar: the API server takes it, the code
\* cannot parse it
Broken == [SpecTo({"t1"}) EXCEPT !.selector =
             [kd \in Kinds |-> [All EXCEPT !.valid = FALSE]]]
ThereOrBack == {SpecTo({"t1", "sys"}), Back, Broken}
OnOff == {SpecTo({"t1"}), Excluding({"t1"})}
SecretsOff == [SpecTo({"t1"}) EXCEPT !.sync = [kd \in Kinds |-> kd = "ConfigMap"]]
OnOrSecretsOff == {SpecTo({"t1"}), SecretsOff}
\* By name, or as one of all namespaces
ListedOrAll == {SpecTo({"t1"}), SpecTo({})}
\* Only objects with the label x
Labelled(spec) == [spec EXCEPT !.selector =
                     [kd \in Kinds |-> [All EXCEPT !.matchLabels = {"x"}]]]
LabelledOnOff == {Labelled(spec) : spec \in OnOff}
NoKeys == {}
SystemToo == {"src", "t1", "sys"}
Symmetry == Permutations(Syncs)
=============================================================================
