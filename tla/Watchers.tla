------------------------------ MODULE Watchers ------------------------------
(***************************************************************************)
(* The controllers that watch and wake the main one.                       *)
(*                                                                         *)
(* SecretReconciler and ConfigMapReconciler (secret_controller.go,         *)
(* configmap_controller.go): one worker per kind. A change of a source     *)
(* makes it stamp every interested ConfigSync with a new annotation, which *)
(* is an event for the main controller; a deletion makes it delete the     *)
(* copies. NamespaceReconciler (namespace_controller.go): a new namespace  *)
(* makes it stamp the ConfigSyncs that name it.                            *)
(***************************************************************************)
EXTENDS ApiServer

VARIABLES
  objQueue, \* objects waiting for the worker of their kind
  okey,     \* per kind, the object its worker is at, or None
  odels,    \* per kind, the copies still to delete
  otrig,    \* per kind, the ConfigSyncs still to stamp, as listed
  nsQueue,  \* namespaces waiting for the namespace worker
  nkey,     \* the namespace that worker is at, or None
  ntrig     \* the ConfigSyncs it has still to stamp, as listed

watchVars == <<objQueue, okey, odels, otrig, nsQueue, nkey, ntrig>>

\* A ConfigSync to stamp, as it was listed
Stamp == [sync : Syncs, cell : Cell(ConfigSync)]
Stamps(S) == {[sync |-> c, cell |-> csCache[c]] : c \in S}

WatchTypeOK ==
  /\ objQueue \subseteq Key
  /\ okey \in [Kinds -> Key \cup {None}]
  /\ odels \in [Kinds -> SUBSET Key]
  /\ otrig \in [Kinds -> SUBSET Stamp]
  /\ nsQueue \subseteq Namespaces
  /\ nkey \in Namespaces \cup {None}
  /\ ntrig \subseteq Stamp

WatchIdle ==
  /\ okey = [kd \in Kinds |-> None]
  /\ odels = [kd \in Kinds |-> {}] /\ otrig = [kd \in Kinds |-> {}]
  /\ nkey = None /\ ntrig = {}

WatchReset ==
  /\ okey' = [kd \in Kinds |-> None]
  /\ odels' = [kd \in Kinds |-> {}] /\ otrig' = [kd \in Kinds |-> {}]
  /\ nkey' = None /\ ntrig' = {}

-----------------------------------------------------------------------------
\* The event filters

ByKind(kd, o) == ~IsToken(kd, o) /\ ~HasSyncLabel(o)

matchesAnyConfigSync(k, o) ==
  \E c \in Syncs : /\ csCache[c].obj # NoObj
                   /\ ObjectWakes(csCache[c].obj.spec, k, o)

CreateFunc(k, new) == ByKind(k.kind, new) /\ matchesAnyConfigSync(k, new)
UpdateFunc(k, old, new) ==
  ByKind(k.kind, new) /\ ~SameData(k.kind, old.data.v, new.data.v)
DeleteFunc(k, old) == ByKind(k.kind, old)

\* Mutant: the test is inverted
NamespaceCreateFunc_inverted(n) == n \in SystemNamespaces

NamespaceCreateFunc(n) == n \notin SystemNamespaces

-----------------------------------------------------------------------------
\* Secrets and ConfigMaps

Idle(kd) == okey[kd] = None

\* The worker of k's kind goes on with what is left to do for k
WorkOn(k, delsLeft, trigLeft) ==
  /\ okey' = [okey EXCEPT ![k.kind] =
                IF delsLeft = {} /\ trigLeft = {} THEN None ELSE k]
  /\ odels' = [odels EXCEPT ![k.kind] = delsLeft]
  /\ otrig' = [otrig EXCEPT ![k.kind] = trigLeft]

ObjTake(k) ==
  /\ k \in objQueue /\ Idle(k.kind)
  /\ objQueue' = objQueue \ {k}
  /\ UNCHANGED <<apiVars, nsQueue, nkey, ntrig>>

\* The Get, or the List of copies or ConfigSyncs, fails and is retried
ObjFails(k) ==
  /\ k \in objQueue /\ Idle(k.kind) /\ Fail
  /\ UNCHANGED <<objVars, csVars, nsVars, ops, watchVars>>

ObjSkip(k) ==
  /\ ObjTake(k)
  /\ cache[k].obj # NoObj /\ ~ByKind(k.kind, cache[k].obj)
  /\ UNCHANGED <<okey, odels, otrig>>

\* deleteSyncedSecrets, deleteSyncedConfigMaps
ObjDeleted(k) ==
  /\ ObjTake(k)
  /\ cache[k].obj = NoObj
  /\ WorkOn(k, {d \in Key : /\ d.kind = k.kind /\ d.name = k.name
                            /\ cache[d].obj # NoObj
                            /\ HasSyncLabel(cache[d].obj)
                            /\ cache[d].obj.from = k.ns}, {})

ObjChanged(k) ==
  /\ ObjTake(k)
  /\ cache[k].obj # NoObj /\ ByKind(k.kind, cache[k].obj)
  /\ WorkOn(k, {}, Stamps({c \in Syncs :
                             /\ csCache[c].obj # NoObj
                             /\ ObjectWakes(csCache[c].obj.spec, k,
                                            cache[k].obj)}))

ObjDeleteCopy(kd, d) ==
  /\ d \in odels[kd]
  /\ WorkOn(okey[kd], odels[kd] \ {d}, {})
  /\ \/ CanDelete(d) /\ Write(d, NoObj) /\ UNCHANGED faults
     \/ ~CanDelete(d) /\ UNCHANGED <<store, watch, faults>>
     \/ Fail /\ UNCHANGED <<store, watch>>   \* logged, and the loop goes on
  /\ UNCHANGED <<cache, csVars, nsVars, ops, objQueue, nsQueue, nkey, ntrig>>

\* Mutant: the write is forced over the version there is
StampWrite_forced(t) ==
  cs[t.sync].obj # NoObj /\ cs[t.sync].rv < MaxRV
  /\ CsWrite(t.sync, t.cell.obj)

\* The whole object goes back as it was listed, with a new annotation
StampWrite(t) == CsCanUpdate(t.sync, t.cell.rv) /\ CsWrite(t.sync, t.cell.obj)
StampFails(t) ==
  /\ \/ ~CsCanUpdate(t.sync, t.cell.rv) /\ UNCHANGED faults
     \/ Fail
  /\ UNCHANGED <<cs, csWatch>>

\* A refused update ends the reconcile with an error, which is retried
ObjStamp(kd, t) ==
  /\ t \in otrig[kd]
  /\ \/ /\ StampWrite(t)
        /\ WorkOn(okey[kd], {}, otrig[kd] \ {t})
        /\ UNCHANGED <<objQueue, faults>>
     \/ /\ StampFails(t)
        /\ WorkOn(okey[kd], {}, {})
        /\ objQueue' = objQueue \cup {okey[kd]}
  /\ UNCHANGED <<objVars, csCache, nsVars, ops, nsQueue, nkey, ntrig>>

-----------------------------------------------------------------------------
\* Namespaces

NsWorkOn(n, trigLeft) ==
  nkey' = (IF trigLeft = {} THEN None ELSE n) /\ ntrig' = trigLeft

NsFails(n) ==
  /\ n \in nsQueue /\ nkey = None /\ Fail
  /\ UNCHANGED <<objVars, csVars, nsVars, ops, watchVars>>

NsReconcile(n) ==
  /\ n \in nsQueue /\ nkey = None
  /\ nsQueue' = nsQueue \ {n}
  /\ NsWorkOn(n, Stamps({c \in Syncs :
                           /\ n \in nsCache /\ n \notin SystemNamespaces
                           /\ csCache[c].obj # NoObj
                           /\ NamespaceWakes(csCache[c].obj.spec, n)}))
  /\ UNCHANGED <<apiVars, objQueue, okey, odels, otrig>>

NsStamp(t) ==
  /\ t \in ntrig
  /\ \/ /\ StampWrite(t)
        /\ NsWorkOn(nkey, ntrig \ {t})
        /\ UNCHANGED <<nsQueue, faults>>
     \/ /\ StampFails(t)
        /\ NsWorkOn(nkey, {}) /\ nsQueue' = nsQueue \cup {nkey}
  /\ UNCHANGED <<objVars, csCache, nsVars, ops, objQueue, okey, odels, otrig>>

-----------------------------------------------------------------------------
ObjStart(k) == ObjFails(k) \/ ObjSkip(k) \/ ObjDeleted(k) \/ ObjChanged(k)
ObjStep(kd) ==
  \/ \E d \in odels[kd] : ObjDeleteCopy(kd, d)
  \/ \E t \in otrig[kd] : ObjStamp(kd, t)
NsStart(n) == NsFails(n) \/ NsReconcile(n)
NsStep == \E t \in ntrig : NsStamp(t)

=============================================================================
