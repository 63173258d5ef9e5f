---------------------------- MODULE OperatorHistory ----------------------------
(***************************************************************************)
(* The operator with two history variables, for what it promises of things *)
(* that happened: a namespace that was created, the specs a ConfigSync has *)
(* had. They record what the steps of Operator do and restrain none.       *)
(***************************************************************************)
EXTENDS OperatorProperties

VARIABLES
  blank, \* slots that nobody has written since they were last seen empty
  given  \* per ConfigSync, every spec that users have given it so far

histVars == <<vars, blank, given>>

\* There is nothing in the slot, and the informer does not take it for filled
SeenEmpty(k) ==
  /\ store[k].obj = NoObj /\ cache[k].obj = NoObj
  /\ \A kd \in Kinds : \A i \in 1..Len(watch[kd]) : watch[kd][i].key # k

\* A slot becomes blank with its namespace, or when the process starts (again),
\* and is blank until it is written. One without versions left, a bound of the
\* model, is none.
Blank(k) == SeenEmpty(k) /\ store[k].rv < MaxRV
Opened(k) == k.ns \in nss' \ nss \/ crashes' # crashes

Records ==
  /\ blank' = {k \in Key : Blank(k)' /\ (k \in blank \/ Opened(k))}
  /\ given' = [c \in Syncs |-> given[c] \cup
                 (IF cs'[c].obj = NoObj THEN {} ELSE {cs'[c].obj.spec})]

HistInit ==
  /\ Init
  /\ blank = {k \in Key : Blank(k)}
  /\ given = [c \in Syncs |-> {}]

HistSpec == HistInit /\ [][Next /\ Records]_histVars

FairHistSpec == HistSpec /\ Fairness

\* With caches that are not behind when the main worker reads them
FreshHistSpec == HistInit /\ [][FreshNext /\ Records]_histVars

-----------------------------------------------------------------------------
\* A namespace that is created, or created again, is filled without waiting
\* for a period, and so is one that was found empty when the process started:
\* once everything is quiet, no slot that a ConfigSync asks for is still
\* blank. This is so for ConfigSyncs that list their targets; one for all
\* namespaces is woken by none. A slot that the cache still showed filled when
\* its namespace was created again is not blank, and may have to wait
\* (namespace_controller.go:26-100).
NewNamespaceServed ==
  Quiet => \A c \in Syncs : Live(c) /\ cs[c].obj.spec.targets # {} =>
             \A w \in Wanted(c) : w.to \notin blank

\* A copy that every spec its ConfigSync was ever given leads to does not
\* outlive it, wherever the specs of others lead: the cleanup goes by the last
\* spec, and finds it (configsync_controller.go:54-71, 418-506).
NothingLeftBehind ==
  \A k \in Copies :
    LET c == store[k].obj.by
    IN  (\A spec \in given[c] : LeadsTo(spec, k)) => Exists(c)

=============================================================================
