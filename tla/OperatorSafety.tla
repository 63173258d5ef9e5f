--------------------------- MODULE OperatorSafety ---------------------------
(***************************************************************************)
(* Safety of the operator, for any cluster. Everything rests on one fact   *)
(* about versions: what a controller has read is either older than what    *)
(* the API server holds, or it is what the API server holds. A write that  *)
(* is checked against the version read is therefore a write to the object  *)
(* that was read.                                                          *)
(***************************************************************************)
EXTENDS OperatorProperties, OperatorTypes

\* A version read at some time, against the current one
VersionOf(cell, current) ==
  /\ cell.rv <= current.rv
  /\ cell.rv = current.rv => cell = current

-----------------------------------------------------------------------------
\* Secrets and ConfigMaps

\* The objects an informer has delivered or will deliver
ObjReads ==
  {[key |-> k, cell |-> cache[k]] : k \in Key}
    \cup UNION {{watch[kd][i] : i \in 1..Len(watch[kd])} : kd \in Kinds}
ObjNow == {[key |-> k, cell |-> store[k]] : k \in Key}

ObjVersions == \A r \in ObjReads : VersionOf(r.cell, store[r.key])

\* Only cluster-admins, or users of a cluster without the webhook, can change
\* a copy and leave it one
Protected == EnableWebhook /\ Users \subseteq {"user"}

\* A user's write puts data of the namespace there, where the namespace exists
\* or the object did. An object with the synced-from label it finds there and
\* leaves as it is.
UserWrite(k, o) ==
  /\ ops' # ops /\ k \in UserKeys /\ Write(k, o)
  /\ o # NoObj => o.data.at = k.ns /\ (store[k].obj # NoObj \/ k.ns \in nss)
  /\ o # NoObj /\ HasSyncLabel(o) =>
       /\ store[k].obj # NoObj
       /\ o.from = store[k].obj.from /\ o.by = store[k].obj.by
       /\ Protected => o.by = None

\* The copy the main worker writes
CopyWrite(i) ==
  /\ SyncItem(i) /\ Managed(cache[i.key].obj)
  /\ Accepted(i.key, cache[i.key], CopyFor(i))
  /\ Write(i.key, CopyFor(i))

\* What a step does to the objects: nothing, one write, or a delivery.
LEMMA ObjSteps ==
  ASSUME TypeInv, [Next]_vars
  PROVE  \/ UNCHANGED objVars
         \/ UNCHANGED <<cache, ops>> /\ \E k \in Key : Write(k, NoObj)
         \/ UNCHANGED <<cache, ops>> /\ \E i \in items : CopyWrite(i)
         \/ /\ cache' = cache
            /\ \E k \in Key, o \in Object \cup {NoObj} : UserWrite(k, o)
         \/ \E kd \in Kinds : DeliverObj(kd)
         \/ Restart
<1> DEFINE Goal ==
      \/ UNCHANGED objVars
      \/ UNCHANGED <<cache, ops>> /\ \E k \in Key : Write(k, NoObj)
      \/ UNCHANGED <<cache, ops>> /\ \E i \in items : CopyWrite(i)
      \/ /\ cache' = cache
         /\ \E k \in Key, o \in Object \cup {NoObj} : UserWrite(k, o)
      \/ \E kd \in Kinds : DeliverObj(kd)
      \/ Restart
<1>0. /\ dels \subseteq Key /\ \A kd \in Kinds : odels[kd] \subseteq Key
      /\ ops \in Nat
  BY DEF TypeInv, TypeOK, ApiTypeOK, RecTypeOK, WatchTypeOK
<1>1. ASSUME NEW c \in Syncs, ReconcileStart(c) \/ Timer(c)
      PROVE  UNCHANGED objVars
  BY <1>1
     DEF ReconcileStart, ReconcileFails, ReconcileGone, ReconcileAddFinalizer,
         ReconcileDeleted, ReconcileSync, Begin, Timer, TimerFires, apiVars,
         objVars
<1>2. CASE ReconcileStep
  <2>1. ASSUME NEW w \in work,
               \/ PruneList(w) \/ CleanList(w) \/ CleanListFails(w)
               \/ SyncList(w) \/ SyncListFails(w)
        PROVE  UNCHANGED objVars
    BY <2>1 DEF PruneList, CleanList, CleanListFails, SyncList, SyncListFails,
                apiVars, objVars
  <2>2. CASE ListFails \/ PruneDone \/ CleanDone \/ SyncDone
    BY <2>2 DEF ListFails, PruneDone, CleanDone, SyncDone, apiVars, objVars
  <2>3. ASSUME NEW k \in dels, PruneDelete(k) \/ CleanDelete(k)
        PROVE  Goal
    BY <1>0, <2>3 DEF PruneDelete, CleanDelete, Delete, objVars
  <2>4. ASSUME NEW i \in items, SyncItem(i)
        PROVE  Goal
    BY <2>4 DEF SyncItem, CopyWrite, objVars
  <2> QED BY <1>2, <2>1, <2>2, <2>3, <2>4 DEF ReconcileStep
<1>3. ASSUME NEW kd \in Kinds, ObjWorker(kd)
      PROVE  Goal
  <2>1. ASSUME NEW k \in Key, ObjStart(k)
        PROVE  UNCHANGED objVars
    BY <2>1 DEF ObjStart, ObjFails, ObjSkip, ObjDeleted, ObjChanged, ObjTake, apiVars,
                objVars
  <2>2. ASSUME NEW d \in odels[kd], ObjDeleteCopy(kd, d)
        PROVE  Goal
    BY <1>0, <2>2 DEF ObjDeleteCopy, objVars
  <2>3. ASSUME NEW t \in otrig[kd], ObjStamp(kd, t)
        PROVE  UNCHANGED objVars
    BY <2>3 DEF ObjStamp, objVars
  <2> QED BY <1>3, <2>1, <2>2, <2>3 DEF ObjWorker, ObjStep
<1>4. CASE NsWorker \/ DeliverSync \/ DeliverNs \/ UNCHANGED vars
  BY <1>4 DEF NsWorker, NsStart, NsFails, NsReconcile, NsStep, NsStamp, DeliverSync, DeliverNs,
              vars, apiVars, objVars
<1>5. CASE User
  <2>1. Request
    BY <1>5 DEF User, UserRequest, UserCreate, UserUpdate, UserDelete,
                CreateConfigSync, EditConfigSync, DeleteConfigSync,
                CreateNamespace, DeleteNamespace
  <2>2. ops' # ops /\ cache' = cache
    BY <1>0, <2>1 DEF Request
  <2>3. ASSUME NEW k \in UserKeys, NEW o \in UserObjects(k),
               UserCreate(k, o) \/ \E who \in Users : UserUpdate(who, k, o)
        PROVE  Goal
    <3>1. k \in Key /\ k.ns \in Namespaces
      BY BoundsAssumption DEF Key
    <3>2. o \in Object /\ o.from = None /\ o.data.at = k.ns
      BY <3>1, ApiAssumption DEF UserObjects, Object, Payload
    <3>3. Write(k, o) /\ (store[k].obj # NoObj \/ k.ns \in nss)
      BY <2>3 DEF UserCreate, UserUpdate, CanCreate, CanUpdate
    <3> QED BY <2>2, <3>1, <3>2, <3>3 DEF UserWrite, HasSyncLabel
  <2>4. ASSUME NEW k \in UserKeys, NEW who \in Users, NEW v \in Versions,
               store[k].obj # NoObj,
               UserUpdate(who, k, [store[k].obj EXCEPT
                                     !.data = [at |-> k.ns, v |-> v]])
        PROVE  Goal
    <3> DEFINE o == [store[k].obj EXCEPT !.data = [at |-> k.ns, v |-> v]]
    <3>1. k \in Key /\ k.ns \in Namespaces /\ store[k].obj \in Object
      BY <2>4, BoundsAssumption DEF Key, Cell, TypeInv, TypeOK, ApiTypeOK
    <3>2. /\ o \in Object /\ o.data.at = k.ns /\ o # NoObj
          /\ o.from = store[k].obj.from /\ o.by = store[k].obj.by
      BY <3>1, NoObjAssumption DEF Object, Payload
    <3>3. Write(k, o) /\ Admitted(who, "UPDATE", store[k].obj, o)
      BY <2>4 DEF UserUpdate
    <3>4. Protected /\ HasSyncLabel(o) => o.by = None
      BY <3>3 DEF Protected, Admitted, Handle, Decoded, isOperatorServiceAccount,
                  IsSyncedResource, HasSyncLabel
    <3> QED BY <2>2, <2>4, <3>1, <3>2, <3>3, <3>4 DEF UserWrite
  <2>5. ASSUME NEW k \in UserKeys, NEW who \in Users, UserDelete(who, k)
        PROVE  Goal
    <3>1. k \in Key /\ Write(k, NoObj)
      BY <2>5, BoundsAssumption DEF UserDelete
    <3> QED BY <2>2, <3>1 DEF UserWrite
  <2>6. CASE \/ \E c \in Syncs :
                  \/ \E spec \in Specs : CreateConfigSync(c, spec)
                  \/ \E spec \in Specs : EditConfigSync(c, spec)
                  \/ DeleteConfigSync(c)
             \/ \E n \in UserNamespaces : CreateNamespace(n) \/ DeleteNamespace(n)
    BY <2>2, <2>6 DEF CreateConfigSync, EditConfigSync, DeleteConfigSync,
                      CreateNamespace, DeleteNamespace, objVars
  <2>7. CASE \E k \in UserKeys :
               \/ \E o \in UserObjects(k) : UserCreate(k, o)
               \/ \E who \in Users, o \in UserObjects(k) : UserUpdate(who, k, o)
               \/ \E who \in Users, v \in Versions :
                    /\ store[k].obj # NoObj
                    /\ UserUpdate(who, k, [store[k].obj EXCEPT
                                             !.data = [at |-> k.ns, v |-> v]])
               \/ \E who \in Users : UserDelete(who, k)
    <3> HIDE DEF Goal
    <3>1. Goal
      BY <2>3, <2>4, <2>5, <2>7
    <3> QED BY <3>1 DEF Goal
  <2> QED BY <1>5, <2>6, <2>7 DEF User, UserRequest
<1>6. CASE Cluster
  BY <1>6 DEF Cluster, NamespaceController, Evict, NamespaceGone, objVars
<1> QED BY <1>1, <1>2, <1>3, <1>4, <1>5, <1>6 DEF Next, MainWorker

LEMMA ObjReadTypes ==
  ASSUME TypeInv, NEW r \in ObjReads
  PROVE  r.key \in Key /\ r.cell.rv \in Nat
<1>0. /\ watch \in [Kinds -> Seq(ObjEvent)]
      /\ cache \in [Key -> Cell(Object)]
  BY DEF TypeInv, TypeOK, ApiTypeOK
<1>1. CASE \E x \in Key : r = [key |-> x, cell |-> cache[x]]
  BY <1>0, <1>1 DEF Cell
<1>2. ASSUME NEW kd \in Kinds, NEW i \in 1..Len(watch[kd]), r = watch[kd][i]
      PROVE  r \in ObjEvent
  <2>1. watch[kd] \in Seq(ObjEvent)
    BY <1>0
  <2> QED BY <1>2, <2>1
<1> QED BY <1>1, <1>2 DEF ObjReads, ObjEvent, Cell

\* A write makes everything read before it older than what is there.
LEMMA WriteVersions ==
  ASSUME TypeInv, ObjVersions, cache' = cache,
         NEW k \in Key, NEW o \in Object \cup {NoObj}, Write(k, o)
  PROVE  ObjVersions'
<1>1. CASE store[k].obj = o
  BY <1>1 DEF Write, ObjVersions, ObjReads
<1>2. CASE store[k].obj # o
  <2> DEFINE cell == [rv |-> store[k].rv + 1, obj |-> o]
             e == [key |-> k, cell |-> cell]
  <2>1. /\ store' = [store EXCEPT ![k] = cell]
        /\ watch' = [watch EXCEPT ![k.kind] = Append(@, e)]
    BY <1>2 DEF Write
  <2>2. /\ store \in [Key -> Cell(Object)] /\ store[k].rv \in Nat
        /\ watch \in [Kinds -> Seq(ObjEvent)]
        /\ cache \in [Key -> Cell(Object)]
        /\ k.kind \in Kinds
    BY DEF TypeInv, TypeOK, ApiTypeOK, Cell, Key
  <2>3. \A r \in ObjReads : r.key \in Key /\ r.cell.rv \in Nat
    BY ObjReadTypes
  <2>4. ObjReads' \subseteq ObjReads \cup {e}
    <3>1. \A kd \in Kinds : \A i \in 1..Len(watch'[kd]) :
             \/ watch'[kd][i] = e
             \/ i \in 1..Len(watch[kd]) /\ watch'[kd][i] = watch[kd][i]
      <4> HIDE DEF e
      <4> SUFFICES ASSUME NEW kd \in Kinds, NEW i \in 1..Len(watch'[kd])
                   PROVE  \/ watch'[kd][i] = e
                          \/ i \in 1..Len(watch[kd]) /\ watch'[kd][i] = watch[kd][i]
        OBVIOUS
      <4>1. watch[kd] \in Seq(ObjEvent)
        BY <2>2
      <4>2. CASE kd = k.kind
        <5>1. watch'[kd] = Append(watch[kd], e)
          BY <2>1, <2>2, <4>2
        <5> QED BY <4>1, <5>1
      <4>3. CASE kd # k.kind
        BY <2>1, <2>2, <4>3
      <4> QED BY <4>2, <4>3
    <3> HIDE DEF e
    <3> SUFFICES ASSUME NEW r \in ObjReads' PROVE r \in ObjReads \cup {e}
      OBVIOUS
    <3>2. CASE \E x \in Key : r = [key |-> x, cell |-> cache[x]]
      BY <3>2 DEF ObjReads
    <3>3. ASSUME NEW kd \in Kinds, NEW i \in 1..Len(watch'[kd]), r = watch'[kd][i]
          PROVE  r \in ObjReads \cup {e}
      BY <3>1, <3>3 DEF ObjReads
    <3> QED BY <3>2, <3>3 DEF ObjReads
  <2>5. ASSUME NEW r \in ObjReads
        PROVE  VersionOf(r.cell, store'[r.key])
    BY <2>1, <2>2, <2>3 DEF ObjVersions, VersionOf
  <2>6. VersionOf(e.cell, store'[e.key])
    BY <2>1, <2>2 DEF VersionOf
  <2> QED BY <2>4, <2>5, <2>6 DEF ObjVersions
<1> QED BY <1>1, <1>2

LEMMA DeliverVersions ==
  ASSUME TypeInv, ObjVersions, NEW kd \in Kinds, DeliverObj(kd)
  PROVE  ObjVersions'
<1>1. /\ watch \in [Kinds -> Seq(ObjEvent)] /\ watch[kd] # <<>>
      /\ cache \in [Key -> Cell(Object)]
  BY DEF DeliverObj, TypeInv, TypeOK, ApiTypeOK
<1>2. /\ watch' = [watch EXCEPT ![kd] = Tail(@)]
      /\ cache' = [cache EXCEPT ![Head(watch[kd]).key] = Head(watch[kd]).cell]
      /\ store' = store
  BY DEF DeliverObj
<1>3. \A x \in Kinds : \A i \in 1..Len(watch'[x]) :
        \E j \in 1..Len(watch[x]) : watch'[x][i] = watch[x][j]
  <2> SUFFICES ASSUME NEW x \in Kinds, NEW i \in 1..Len(watch'[x])
               PROVE  \E j \in 1..Len(watch[x]) : watch'[x][i] = watch[x][j]
    OBVIOUS
  <2>1. watch[x] \in Seq(ObjEvent)
    BY <1>1
  <2>2. CASE x = kd
    <3>1. watch'[x] = Tail(watch[x])
      BY <1>1, <1>2, <2>2
    <3>2. i + 1 \in 1..Len(watch[x]) /\ watch'[x][i] = watch[x][i + 1]
      BY <1>1, <2>1, <2>2, <3>1
    <3> QED BY <3>2
  <2>3. CASE x # kd
    BY <1>1, <1>2, <2>3
  <2> QED BY <2>2, <2>3
<1>4. Head(watch[kd]) \in ObjReads /\ Head(watch[kd]) \in ObjEvent
  <2>1. watch[kd] \in Seq(ObjEvent)
    BY <1>1
  <2>2. 1 \in 1..Len(watch[kd]) /\ Head(watch[kd]) = watch[kd][1]
    BY <1>1, <2>1
  <2> QED BY <2>1, <2>2 DEF ObjReads
<1>5. \A k \in Key : [key |-> k, cell |-> cache'[k]] \in ObjReads
  <2> SUFFICES ASSUME NEW k \in Key
               PROVE  [key |-> k, cell |-> cache'[k]] \in ObjReads
    OBVIOUS
  <2>1. CASE k = Head(watch[kd]).key
    <3>1. cache'[k] = Head(watch[kd]).cell
      BY <1>1, <1>2, <2>1
    <3>2. [key |-> k, cell |-> cache'[k]] = Head(watch[kd])
      BY <1>4, <2>1, <3>1 DEF ObjEvent
    <3> QED BY <1>4, <3>2
  <2>2. CASE k # Head(watch[kd]).key
    BY <1>1, <1>2, <2>2 DEF ObjReads
  <2> QED BY <2>1, <2>2
<1>6. ObjReads' \subseteq ObjReads
  <2> SUFFICES ASSUME NEW r \in ObjReads' PROVE r \in ObjReads
    OBVIOUS
  <2>1. CASE \E k \in Key : r = [key |-> k, cell |-> cache'[k]]
    BY <1>5, <2>1
  <2>2. ASSUME NEW x \in Kinds, NEW i \in 1..Len(watch'[x]), r = watch'[x][i]
        PROVE  r \in ObjReads
    <3>1. PICK j \in 1..Len(watch[x]) : r = watch[x][j]
      BY <1>3, <2>2
    <3> QED BY <3>1 DEF ObjReads
  <2> QED BY <2>1, <2>2 DEF ObjReads
<1> QED BY <1>2, <1>6 DEF ObjVersions

ObjInv == TypeInv /\ ObjVersions

\* No step makes a reading newer than the object, or another object than the
\* one of its version.
LEMMA ObjVersionsSteps ==
  ASSUME ObjInv, [Next]_vars
  PROVE  ObjVersions'
<1>0. TypeInv /\ ObjVersions
  BY DEF ObjInv
<1>1. CASE UNCHANGED objVars
  BY <1>0, <1>1 DEF objVars, ObjVersions, ObjReads
<1>2. CASE cache' = cache /\ \E k \in Key : Write(k, NoObj)
  BY <1>0, <1>2, WriteVersions
<1>3. ASSUME NEW i \in items, CopyWrite(i), cache' = cache
      PROVE  ObjVersions'
  <2>1. i.key \in Key /\ i.obj \in Object /\ Write(i.key, CopyFor(i))
    BY <1>0, <1>3 DEF CopyWrite, TypeInv, TypeOK, RecTypeOK, Item
  <2>2. CopyFor(i) \in Object
    BY <1>0, <1>3, <2>1, CopyType, WorkerTypes DEF CopyWrite, SyncItem, CopyFor
  <2> QED BY <1>0, <1>3, <2>1, <2>2, WriteVersions
<1>4. CASE cache' = cache /\ \E k \in Key, o \in Object \cup {NoObj} : UserWrite(k, o)
  BY <1>0, <1>4, WriteVersions DEF UserWrite
<1>5. CASE \E kd \in Kinds : DeliverObj(kd)
  BY <1>0, <1>5, DeliverVersions
<1>6. CASE Restart
  <2>1. cache' = store' /\ \A kd \in Kinds : watch'[kd] = <<>>
    BY <1>6 DEF Restart
  <2>2. ObjReads' \subseteq ObjNow'
    BY <2>1 DEF ObjReads, ObjNow
  <2>3. \A k \in Key : store'[k].rv \in Nat
    BY <1>0, <1>6 DEF Restart, TypeInv, TypeOK, ApiTypeOK, Cell
  <2> QED BY <2>2, <2>3 DEF ObjVersions, ObjNow, VersionOf
<1> QED BY <1>0, <1>1, <1>2, <1>3, <1>4, <1>5, <1>6, ObjSteps

\* At first the informers have read what there is.
LEMMA ObjInit == Init => ObjInv
<1> SUFFICES ASSUME Init PROVE ObjVersions
  BY InitTypes DEF ObjInv
<1>1. cache = store /\ \A kd \in Kinds : watch[kd] = <<>>
  BY DEF Init
<1>2. ObjReads \subseteq ObjNow
  BY <1>1 DEF ObjReads, ObjNow
<1>3. \A k \in Key : store[k].rv \in Nat
  BY InitTypes DEF TypeInv, TypeOK, ApiTypeOK, Cell
<1> QED BY <1>2, <1>3 DEF ObjVersions, ObjNow, VersionOf

\* What the informers have read of an object is older than the object or is
\* the object.
LEMMA ObjVersionsInv == Spec => []ObjInv
<1>1. ObjInv /\ [Next]_vars => ObjInv'
  BY NextTypes, ObjVersionsSteps DEF ObjInv
<1> QED BY <1>1, ObjInit, PTL DEF Spec

\* What a copy is written over is nothing or a copy: the version the update
\* carries is the one the worker looked at.
LEMMA CopyOverCopy ==
  ASSUME ObjInv, NEW i \in items, CopyWrite(i)
  PROVE  /\ i.key \in Key /\ CopyFor(i) \in Object /\ Write(i.key, CopyFor(i))
         /\ store[i.key].obj # NoObj => HasSyncLabel(store[i.key].obj)
<1>0. TypeInv /\ ObjVersions
  BY DEF ObjInv
<1>1. i.key \in Key /\ i.obj \in Object /\ Write(i.key, CopyFor(i))
  BY <1>0 DEF CopyWrite, TypeInv, TypeOK, RecTypeOK, Item
<1>2. CopyFor(i) \in Object
  BY <1>0, <1>1, CopyType, WorkerTypes DEF CopyWrite, SyncItem, CopyFor
<1>3. ASSUME store[i.key].obj # NoObj
      PROVE  HasSyncLabel(store[i.key].obj)
  <2>1. VersionOf(cache[i.key], store[i.key])
    <3>1. [key |-> i.key, cell |-> cache[i.key]] \in ObjReads
      BY <1>1 DEF ObjReads
    <3> QED BY <1>0, <3>1 DEF ObjVersions
  <2>2. cache[i.key].obj # NoObj
    BY <1>3 DEF CopyWrite, Accepted, CanCreate
  <2>3. cache[i.key] = store[i.key]
    BY <2>1, <2>2 DEF CopyWrite, Accepted, CanUpdate, VersionOf
  <2> QED BY <2>2, <2>3 DEF CopyWrite, Managed
<1> QED BY <1>1, <1>2, <1>3

\* A step leaves an object without the synced-from label without it.
LEMMA NeverAdopted ==
  ASSUME ObjInv, [Next]_vars, NEW k \in Key,
         store[k].obj # NoObj, ~HasSyncLabel(store[k].obj),
         store'[k].obj # NoObj
  PROVE  ~HasSyncLabel(store'[k].obj)
<1>0. TypeInv /\ ObjVersions /\ store \in [Key -> Cell(Object)]
  BY DEF ObjInv, TypeInv, TypeOK, ApiTypeOK
<1>1. ASSUME NEW x \in Key, NEW o \in Object \cup {NoObj}, Write(x, o),
             o = NoObj \/ ~HasSyncLabel(o) \/ x # k
      PROVE  ~HasSyncLabel(store'[k].obj)
  BY <1>0, <1>1 DEF Write
<1>2. ASSUME NEW i \in items, CopyWrite(i)
      PROVE  ~HasSyncLabel(store'[k].obj)
  <2>1. /\ i.key \in Key /\ CopyFor(i) \in Object
        /\ Write(i.key, CopyFor(i)) /\ i.key # k
    BY <1>2, CopyOverCopy
  <2> QED BY <1>1, <2>1
<1>3. ASSUME NEW x \in Key, NEW o \in Object \cup {NoObj}, UserWrite(x, o)
      PROVE  ~HasSyncLabel(store'[k].obj)
  BY <1>1, <1>3 DEF UserWrite, HasSyncLabel
<1>4. CASE UNCHANGED store
  BY <1>4
<1>5. (\E kd \in Kinds : DeliverObj(kd)) \/ Restart \/ UNCHANGED objVars
        => UNCHANGED store
  BY DEF DeliverObj, Restart, objVars
<1> QED BY <1>0, <1>1, <1>2, <1>3, <1>4, <1>5, ObjSteps

\* Whatever the caches show, the operator never turns a user's object into a
\* copy.
THEOREM UserObjectsSafe == Spec => UserObjectNeverAdopted
<1>1. ObjInv /\ [Next]_vars =>
        [\A k \in Key :
           /\ store[k].obj # NoObj /\ ~HasSyncLabel(store[k].obj)
           /\ store'[k].obj # NoObj
           => ~HasSyncLabel(store'[k].obj)]_vars
  BY NeverAdopted
<1> QED BY <1>1, ObjVersionsInv, PTL DEF Spec, UserObjectNeverAdopted

=============================================================================
