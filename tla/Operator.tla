------------------------------ MODULE Operator ------------------------------
(***************************************************************************)
(* The config-sync operator in its cluster: the main controller, the three *)
(* watchers, the informers that feed them, crashes of the process, and the *)
(* users of the cluster (main.go wires these together).                    *)
(***************************************************************************)
EXTENDS ConfigSyncReconciler, Watchers

CONSTANTS
  InitNamespaces, \* namespaces that exist when the operator is deployed
  InitObjects,    \* the objects that exist then: a partial [Key -> Object]
  MaxCrashes      \* bound: crashes of the operator

ASSUME InitAssumption ==
  /\ SystemNamespaces \cup {DefaultNamespace} \subseteq InitNamespaces
  /\ InitNamespaces \subseteq Namespaces
  /\ DOMAIN InitObjects \subseteq Key
  /\ \A k \in DOMAIN InitObjects :
       /\ InitObjects[k] \in Object /\ ~HasSyncLabel(InitObjects[k])
       /\ InitObjects[k].data.at = k.ns
       /\ k.ns \in InitNamespaces
  /\ MaxCrashes \in Nat

VARIABLE crashes  \* crashes that may still happen

vars == <<apiVars, queueVars, recVars, watchVars, crashes>>

TypeOK == ApiTypeOK /\ RecTypeOK /\ WatchTypeOK /\ crashes \in Nat

-----------------------------------------------------------------------------
\* The operator has been deployed and has looked at what exists; there is no
\* ConfigSync yet, so nothing came of it

InitStore ==
  [k \in Key |->
     IF k \in DOMAIN InitObjects THEN [rv |-> 1, obj |-> InitObjects[k]]
                                 ELSE [rv |-> 0, obj |-> NoObj]]

NoSyncs == [c \in Syncs |-> [rv |-> 0, obj |-> NoObj]]

Init ==
  /\ store = InitStore /\ cache = InitStore
  /\ watch = [kd \in Kinds |-> <<>>]
  /\ cs = NoSyncs /\ csCache = NoSyncs /\ csWatch = <<>>
  /\ nss = InitNamespaces /\ ending = {}
  /\ nsCache = InitNamespaces /\ nsWatch = <<>>
  /\ ops = MaxOps /\ faults = MaxFaults /\ crashes = MaxCrashes
  /\ csQueue = {} /\ timers = {} /\ objQueue = {} /\ nsQueue = {}
  /\ RecInit /\ WatchIdle

\* The process starts again with its caches filled and a create event for
\* every object that exists; CreateFunc then sees exactly what exists
Wakes(k, o) ==
  /\ ByKind(k.kind, o)
  /\ \E c \in Syncs : cs[c].obj # NoObj /\ ObjectWakes(cs[c].obj.spec, k, o)

\* What the process had in memory is gone, and so are the changes its
\* informers had not yet seen. Users act while it is down as they do while
\* its caches are behind.
Restart ==
  /\ crashes > 0 /\ crashes' = crashes - 1
  /\ cache' = store /\ watch' = [kd \in Kinds |-> <<>>]
  /\ csCache' = cs /\ csWatch' = <<>>
  /\ nsCache' = nss /\ nsWatch' = <<>>
  /\ csQueue' = {c \in Syncs : cs[c].obj # NoObj} /\ timers' = {}
  /\ objQueue' = {k \in Key : store[k].obj # NoObj /\ Wakes(k, store[k].obj)}
  /\ nsQueue' = {n \in nss : NamespaceCreateFunc(n)}
  /\ Return /\ WatchReset
  /\ UNCHANGED <<store, cs, nss, ending, ops, faults>>

-----------------------------------------------------------------------------
\* The informers: a change reaches the cache, and the queue if the filters
\* let it through

DeliverObj(kd) ==
  LET e == Head(watch[kd])
      old == cache[e.key].obj
      new == e.cell.obj
      created == old = NoObj /\ new # NoObj
  IN  /\ watch[kd] # <<>>
      /\ watch' = [watch EXCEPT ![kd] = Tail(@)]
      /\ cache' = [cache EXCEPT ![e.key] = e.cell]
      /\ \/ /\ objQueue' =
                  IF \/ created /\ CreateFunc(e.key, new)
                     \/ old # NoObj /\ new # NoObj /\ UpdateFunc(e.key, old, new)
                     \/ old # NoObj /\ new = NoObj /\ DeleteFunc(e.key, old)
                  THEN objQueue \cup {e.key} ELSE objQueue
            /\ UNCHANGED faults
         \/ \* the List of ConfigSyncs fails, and the new object wakes nobody
            /\ created /\ ByKind(kd, new) /\ Fail
            /\ UNCHANGED objQueue
      /\ UNCHANGED <<store, csVars, nsVars, ops, queueVars, recVars,
                     okey, odels, otrig, nsQueue, nkey, ntrig, crashes>>

\* The main controller filters no event
DeliverSync ==
  /\ csWatch # <<>> /\ csWatch' = Tail(csWatch)
  /\ csCache' = [csCache EXCEPT ![Head(csWatch).sync] = Head(csWatch).cell]
  /\ csQueue' = csQueue \cup {Head(csWatch).sync}
  /\ UNCHANGED <<objVars, cs, nsVars, ops, faults, timers, recVars, watchVars,
                 crashes>>

\* Only creations pass the filter of the namespace controller
DeliverNs ==
  LET e == Head(nsWatch)
  IN  /\ nsWatch # <<>> /\ nsWatch' = Tail(nsWatch)
      /\ nsCache' = IF e.exists THEN nsCache \cup {e.ns} ELSE nsCache \ {e.ns}
      /\ nsQueue' = IF e.exists /\ NamespaceCreateFunc(e.ns)
                    THEN nsQueue \cup {e.ns} ELSE nsQueue
      /\ UNCHANGED <<objVars, csVars, nss, ending, ops, faults, queueVars,
                     recVars, objQueue, okey, odels, otrig, nkey, ntrig, crashes>>

-----------------------------------------------------------------------------
MainWorker ==
  /\ (\E c \in Syncs : ReconcileStart(c)) \/ ReconcileStep
  /\ UNCHANGED <<watchVars, crashes>>

Timer(c) == TimerFires(c) /\ UNCHANGED <<watchVars, crashes>>

ObjWorker(kd) ==
  /\ (\E k \in Key : k.kind = kd /\ ObjStart(k)) \/ ObjStep(kd)
  /\ UNCHANGED <<queueVars, recVars, crashes>>

NsWorker ==
  /\ (\E n \in Namespaces : NsStart(n)) \/ NsStep
  /\ UNCHANGED <<queueVars, recVars, crashes>>

User == UserRequest /\ UNCHANGED <<queueVars, recVars, watchVars, crashes>>

Cluster ==
  NamespaceController /\ UNCHANGED <<queueVars, recVars, watchVars, crashes>>

Next ==
  \/ MainWorker
  \/ \E c \in Syncs : Timer(c)
  \/ \E kd \in Kinds : ObjWorker(kd) \/ DeliverObj(kd)
  \/ NsWorker \/ DeliverSync \/ DeliverNs
  \/ User \/ Cluster \/ Restart

Spec == Init /\ [][Next]_vars

-----------------------------------------------------------------------------
\* A step of another process leaves what this one has in memory, and its
\* watches bring it what the API server then has: the one object, ConfigSync
\* or namespace that the step writes.

memory == <<cache, csCache, nsCache, queueVars, recVars, watchVars>>

Told(S) == IF S = {} THEN <<>> ELSE <<CHOOSE e \in S : TRUE>>

ObjNews(kd) ==
  Told({[key |-> k, cell |-> store'[k]] :
          k \in {j \in Key : j.kind = kd /\ store'[j] # store[j]}})
CsNews ==
  Told({[sync |-> c, cell |-> cs'[c]] : c \in {d \in Syncs : cs'[d] # cs[d]}})
NsNews ==
  Told({[ns |-> n, exists |-> n \in nss'] :
          n \in (nss \ nss') \cup (nss' \ nss)})

Hears ==
  /\ UNCHANGED memory
  /\ watch' = [kd \in Kinds |-> watch[kd] \o ObjNews(kd)]
  /\ csWatch' = csWatch \o CsNews
  /\ nsWatch' = nsWatch \o NsNews

-----------------------------------------------------------------------------

\* Every goroutine of the process goes on while it has work: the informers,
\* the workers, the timers of the main queue. So does the namespace controller
\* of the cluster. Nobody has to make a request, nothing has to fail, and the
\* order in which a queue is served is open.
Fairness ==
  /\ WF_vars(MainWorker) /\ WF_vars(NsWorker)
  /\ WF_vars(DeliverSync) /\ WF_vars(DeliverNs)
  /\ \A kd \in Kinds : WF_vars(DeliverObj(kd)) /\ WF_vars(ObjWorker(kd))
  /\ \A c \in Syncs : WF_vars(Timer(c))
  /\ WF_vars(Cluster)

FairSpec == Spec /\ Fairness

=============================================================================
