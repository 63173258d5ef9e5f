-------------------------- MODULE ConfigSyncSafety --------------------------
(***************************************************************************)
(* Safety of the ConfigSyncs, for any cluster. As for the objects, all     *)
(* that anyone has read of a ConfigSync is older than what the API server  *)
(* holds, or is what it holds; here that includes what the four workers    *)
(* keep in their registers between two calls.                              *)
(***************************************************************************)
EXTENDS OperatorSafety

\* What the informer shows of the ConfigSyncs and will show, what the workers
\* hold of them, and what the API server holds
Cached == {[sync |-> c, cell |-> csCache[c]] : c \in Syncs}
Coming == {csWatch[i] : i \in 1..Len(csWatch)}
Held ==
  (UNION {otrig[kd] : kd \in Kinds}) \cup ntrig
    \cup {[sync |-> c, cell |-> snap] : c \in {cur} \ {None}}
CsReads == Cached \cup Coming \cup Held
CsNow == {[sync |-> c, cell |-> cs[c]] : c \in Syncs}

CsVersions == \A r \in CsReads : VersionOf(r.cell, cs[r.sync])

\* The worker cleans up for ConfigSyncs it has read as being deleted, and
\* copies for those it has read as wanted and under the finalizer
SnapFits ==
  /\ pc = "clean" => CanClean(snap.obj)
  /\ pc \in {"prune", "sync"} => CanSync(snap.obj)

CsInv == TypeInv /\ CsVersions /\ SnapFits

\* What a user wrote into old is still in new
Preserves(old, new) ==
  IF new = NoObj THEN old.deleting
  ELSE /\ new.spec = old.spec /\ new.deleting = old.deleting
       /\ old.finalizer => new.finalizer

heldVars == <<otrig, ntrig, cur, snap>>

-----------------------------------------------------------------------------
\* Workers fill their registers from the cache.

\* What a step does to the main worker: nothing, the end of a reconcile, the
\* start of one, or the turn from pruning to copying.
LEMMA WorkerSteps ==
  ASSUME [Next]_vars
  PROVE  \/ UNCHANGED <<pc, cur, snap>>
         \/ pc' = "idle" /\ cur' = None
         \/ PruneDone
         \/ \E c \in Syncs : ReconcileDeleted(c) \/ ReconcileSync(c)
<1>1. CASE ReconcileStep
  BY <1>1 DEF ReconcileStep, PruneList, CleanList, CleanListFails, SyncList,
              SyncListFails, PruneDelete, CleanDelete, Delete, SyncItem,
              ListFails, CleanDone, SyncDone, Return, ReturnError
<1>2. ASSUME NEW c \in Syncs, ReconcileStart(c)
      PROVE  \/ UNCHANGED <<pc, cur, snap>>
             \/ ReconcileDeleted(c) \/ ReconcileSync(c)
  BY <1>2 DEF ReconcileStart, ReconcileFails, ReconcileGone,
              ReconcileAddFinalizer, recVars
<1>3. CASE Restart
  BY <1>3 DEF Restart, Return
<1>4. CASE \/ UNCHANGED vars \/ DeliverSync \/ DeliverNs \/ User \/ Cluster
           \/ NsWorker \/ \E c \in Syncs : Timer(c)
           \/ \E kd \in Kinds : DeliverObj(kd) \/ ObjWorker(kd)
  BY <1>4 DEF vars, DeliverSync, DeliverNs, DeliverObj, User, Cluster,
              NsWorker, ObjWorker, Timer, TimerFires, recVars
<1> QED BY <1>1, <1>2, <1>3, <1>4 DEF Next, MainWorker

LEMMA MainHolds ==
  ASSUME TypeInv, MainWorker
  PROVE  Held' \subseteq Held \cup Cached
<1>1. otrig' = otrig /\ ntrig' = ntrig
  BY DEF MainWorker, watchVars
<1>2. [Next]_vars
  BY DEF Next
<1>3. \/ UNCHANGED <<cur, snap>> \/ cur' = None
      \/ \E c \in Syncs : cur' = c /\ snap' = csCache[c]
  BY <1>2, WorkerSteps DEF PruneDone, ReconcileDeleted, ReconcileSync, Begin
<1> SUFFICES ASSUME NEW r \in Held' PROVE r \in Held \cup Cached
  OBVIOUS
<1>4. CASE \E kd \in Kinds : r \in otrig'[kd]
  BY <1>1, <1>4 DEF Held
<1>5. CASE r \in ntrig'
  BY <1>1, <1>5 DEF Held
<1>6. CASE cur' # None /\ r = [sync |-> cur', cell |-> snap']
  BY <1>3, <1>6 DEF Held, Cached
<1> QED BY <1>4, <1>5, <1>6 DEF Held

LEMMA ObjHolds ==
  ASSUME TypeInv, NEW kd \in Kinds, ObjWorker(kd)
  PROVE  Held' \subseteq Held \cup Cached
<1>1. UNCHANGED <<cur, snap>>
  BY DEF ObjWorker, recVars
<1>2. ASSUME NEW k \in Key, NEW D, NEW T \in SUBSET (otrig[k.kind] \cup Cached),
             WorkOn(k, D, T)
      PROVE  \A x \in Kinds : otrig'[x] \subseteq otrig[x] \cup Cached
  BY <1>2 DEF WorkOn, TypeInv, TypeOK, WatchTypeOK
<1>3. ASSUME NEW k \in Key, ObjStart(k)
      PROVE  ntrig' = ntrig /\ \A x \in Kinds : otrig'[x] \subseteq otrig[x] \cup Cached
  <2>1. CASE ObjFails(k) \/ ObjSkip(k)
    BY <2>1 DEF ObjFails, ObjSkip, ObjTake, watchVars
  <2>2. CASE ObjDeleted(k)
    <3>1. PICK D : WorkOn(k, D, {})
      BY <2>2 DEF ObjDeleted
    <3> QED BY <1>2, <2>2, <3>1 DEF ObjDeleted, ObjTake
  <2>3. CASE ObjChanged(k)
    <3>1. PICK S \in SUBSET Syncs : WorkOn(k, {}, Stamps(S))
      BY <2>3 DEF ObjChanged
    <3>2. Stamps(S) \subseteq Cached
      BY DEF Stamps, Cached
    <3> QED BY <1>2, <2>3, <3>1, <3>2 DEF ObjChanged, ObjTake
  <2> QED BY <1>3, <2>1, <2>2, <2>3 DEF ObjStart
<1>4. ASSUME ObjStep(kd)
      PROVE  ntrig' = ntrig /\ \A x \in Kinds : otrig'[x] \subseteq otrig[x] \cup Cached
  <2>1. ASSUME NEW d \in odels[kd], ObjDeleteCopy(kd, d)
        PROVE  ntrig' = ntrig /\ WorkOn(okey[kd], odels[kd] \ {d}, {})
               /\ okey[kd] \in Key
    BY <2>1 DEF ObjDeleteCopy, TypeInv, Busy
  <2>2. ASSUME NEW t \in otrig[kd], ObjStamp(kd, t)
        PROVE  /\ ntrig' = ntrig /\ okey[kd] \in Key /\ okey[kd].kind = kd
               /\ \/ WorkOn(okey[kd], {}, otrig[kd] \ {t})
                  \/ WorkOn(okey[kd], {}, {})
    BY <2>2 DEF ObjStamp, TypeInv, Busy
  <2>3. CASE \E d \in odels[kd] : ObjDeleteCopy(kd, d)
    BY <1>2, <2>1, <2>3
  <2>4. CASE \E t \in otrig[kd] : ObjStamp(kd, t)
    BY <1>2, <2>2, <2>4
  <2> QED BY <1>4, <2>3, <2>4 DEF ObjStep
<1>5. ntrig' = ntrig /\ \A x \in Kinds : otrig'[x] \subseteq otrig[x] \cup Cached
  BY <1>3, <1>4 DEF ObjWorker
<1> QED BY <1>1, <1>5 DEF Held

LEMMA NsHolds ==
  ASSUME NsWorker
  PROVE  Held' \subseteq Held \cup Cached
<1>1. UNCHANGED <<cur, snap>>
  BY DEF NsWorker, recVars
<1>2. ASSUME NEW n \in Namespaces, NsStart(n)
      PROVE  otrig' = otrig /\ ntrig' \subseteq ntrig \cup Cached
  BY <1>2 DEF NsStart, NsFails, NsReconcile, NsWorkOn, Stamps, Cached, watchVars
<1>3. ASSUME NEW t \in ntrig, NsStamp(t)
      PROVE  otrig' = otrig /\ ntrig' \subseteq ntrig \cup Cached
  BY <1>3 DEF NsStamp, NsWorkOn
<1>4. otrig' = otrig /\ ntrig' \subseteq ntrig \cup Cached
  BY <1>2, <1>3 DEF NsWorker, NsStep
<1> QED BY <1>1, <1>4 DEF Held

LEMMA HeldSteps ==
  ASSUME TypeInv, [Next]_vars
  PROVE  Held' \subseteq Held \cup Cached
<1>1. CASE UNCHANGED heldVars
  BY <1>1 DEF heldVars, Held
<1>2. CASE \/ UNCHANGED vars \/ DeliverSync \/ DeliverNs \/ User \/ Cluster
           \/ \E c \in Syncs : Timer(c)
           \/ \E kd \in Kinds : DeliverObj(kd)
  <2>1. UNCHANGED heldVars
    BY <1>2 DEF vars, DeliverSync, DeliverNs, DeliverObj, User, Cluster, Timer,
                TimerFires, recVars, watchVars, heldVars
  <2> QED BY <1>1, <2>1
<1>3. CASE Restart
  BY <1>3 DEF Restart, Return, WatchReset, Held
<1> QED BY <1>2, <1>3, MainHolds, ObjHolds, NsHolds DEF Next

-----------------------------------------------------------------------------
\* Every accepted write of the operator puts back what users wrote.

\* What may become of a ConfigSync: a user creates it; it is edited, stamped
\* or given a status; it gets its finalizer; a user asks for its deletion; it
\* is let go of
Created(old, new) ==
  /\ ops' # ops /\ old = NoObj
  /\ new # NoObj /\ ~new.finalizer /\ ~new.deleting /\ new.spec \in Specs
Kept(old, new) ==
  /\ old # NoObj /\ new # NoObj
  /\ new.finalizer = old.finalizer /\ new.deleting = old.deleting
  /\ new.spec = old.spec \/ (ops' # ops /\ new.spec \in Specs)
Bound(old, new) ==
  /\ old # NoObj /\ ~old.finalizer /\ ~old.deleting
  /\ new # NoObj /\ new.finalizer
  /\ new.deleting = old.deleting /\ new.spec = old.spec
Asked(old, new) ==
  /\ ops' # ops /\ old # NoObj /\ ~old.deleting
  /\ IF old.finalizer
     THEN new # NoObj /\ new.finalizer /\ new.deleting /\ new.spec = old.spec
     ELSE new = NoObj
Released(c, old, new) ==
  /\ CleanDone /\ c = cur /\ snap = cs[c]
  /\ old # NoObj /\ CanClean(old) /\ new = NoObj

\* A write to a ConfigSync, by the operator or by a user
CsStep ==
  \E c \in Syncs, o \in ConfigSync \cup {NoObj} :
    LET old == cs[c].obj
    IN  /\ CsWrite(c, o) /\ UNCHANGED <<store, csCache>>
        /\ Created(old, o) \/ Kept(old, o) \/ Bound(old, o) \/ Asked(old, o)
             \/ Released(c, old, o)

\* A reading whose version is the current one is the current object.
LEMMA ReadsCurrent ==
  ASSUME CsVersions, NEW r \in CsReads, r.cell.rv = cs[r.sync].rv
  PROVE  r.cell = cs[r.sync]
BY DEF CsVersions, VersionOf

LEMMA StampStep ==
  ASSUME TypeInv, CsVersions, NEW t \in Held \cap Stamp, StampWrite(t),
         UNCHANGED <<store, csCache>>
  PROVE  CsStep
<1>1. t \in CsReads /\ t.sync \in Syncs /\ t.cell.rv = cs[t.sync].rv
      /\ cs[t.sync].obj # NoObj /\ CsWrite(t.sync, t.cell.obj)
  BY DEF CsReads, Stamp, StampWrite, CsCanUpdate
<1>2. t.cell = cs[t.sync]
  BY <1>1, ReadsCurrent
<1>3. cs[t.sync].obj \in ConfigSync
  BY <1>1 DEF TypeInv, TypeOK, ApiTypeOK, Cell
<1> QED BY <1>1, <1>2, <1>3 DEF CsStep, Kept

LEMMA MainStep ==
  ASSUME TypeInv, CsVersions, SnapFits, MainWorker
  PROVE  UNCHANGED csVars \/ CsStep
<1>0. /\ cs \in [Syncs -> Cell(ConfigSync)]
      /\ csCache \in [Syncs -> Cell(ConfigSync)]
      /\ report \in Status
  BY DEF TypeInv, TypeOK, ApiTypeOK, RecTypeOK
<1>1. ASSUME NEW c \in Syncs, ReconcileAddFinalizer(c)
      PROVE  CsStep
  <2> DEFINE r == [sync |-> c, cell |-> csCache[c]]
             o == [csCache[c].obj EXCEPT !.finalizer = TRUE]
  <2>1. /\ csCache[c].obj # NoObj /\ cs[c].obj # NoObj
        /\ csCache[c].rv = cs[c].rv
        /\ ~csCache[c].obj.deleting /\ ~csCache[c].obj.finalizer
        /\ CsWrite(c, o) /\ UNCHANGED <<store, csCache>>
    BY <1>1 DEF ReconcileAddFinalizer, CsCanUpdate, objVars
  <2>2. r \in CsReads
    BY DEF CsReads, Cached
  <2>3. csCache[c] = cs[c]
    BY <2>1, <2>2, ReadsCurrent
  <2>4. cs[c].obj \in ConfigSync
    BY <1>0, <2>1 DEF Cell
  <2>5. o \in ConfigSync /\ Bound(cs[c].obj, o)
    BY <2>1, <2>3, <2>4, NoObjAssumption DEF ConfigSync, Bound
  <2> QED BY <2>1, <2>5 DEF CsStep
<1>2. ASSUME NEW c \in Syncs, ReconcileStart(c), ~ReconcileAddFinalizer(c)
      PROVE  UNCHANGED csVars
  BY <1>2 DEF ReconcileStart, ReconcileFails, ReconcileGone, ReconcileDeleted,
              ReconcileSync, Begin, apiVars, csVars
<1>3. pc # "idle" =>
        /\ cur \in Syncs
        /\ snap.rv = cs[cur].rv => snap = cs[cur]
  <2> SUFFICES ASSUME pc # "idle"
               PROVE  cur \in Syncs /\ (snap.rv = cs[cur].rv => snap = cs[cur])
    OBVIOUS
  <2>1. cur \in Syncs /\ cur # None
    BY WorkerTypes, ApiAssumption
  <2>2. [sync |-> cur, cell |-> snap] \in CsReads
    BY <2>1 DEF CsReads, Held
  <2> QED BY <2>1, <2>2, ReadsCurrent
<1>4. CASE CleanDone
  <2>1. /\ pc = "clean" /\ UNCHANGED <<store, csCache>>
        /\ \/ UNCHANGED <<cs, csWatch>>
           \/ CsCanUpdate(cur, snap.rv) /\ CsWrite(cur, NoObj)
    BY <1>4 DEF CleanDone, objVars
  <2>2. CASE CsCanUpdate(cur, snap.rv) /\ CsWrite(cur, NoObj)
    <3>1. cur \in Syncs /\ snap = cs[cur]
          /\ cs[cur].obj # NoObj /\ CanClean(cs[cur].obj)
      BY <1>3, <2>1, <2>2 DEF CsCanUpdate, SnapFits
    <3> QED BY <1>4, <2>1, <2>2, <3>1 DEF CsStep, Released
  <2> QED BY <2>1, <2>2 DEF csVars
<1>5. CASE SyncDone
  <2> DEFINE o == [cs[cur].obj EXCEPT !.status = report]
  <2>1. /\ pc # "idle" /\ UNCHANGED <<store, csCache>>
        /\ \/ UNCHANGED <<cs, csWatch>>
           \/ CsCanUpdate(cur, snap.rv) /\ CsWrite(cur, o)
    BY <1>5 DEF SyncDone, StatusWrite, objVars
  <2>2. CASE CsCanUpdate(cur, snap.rv) /\ CsWrite(cur, o)
    <3>1. cur \in Syncs /\ cs[cur].obj # NoObj /\ cs[cur].obj \in ConfigSync
      BY <1>0, <1>3, <2>1, <2>2 DEF CsCanUpdate, Cell
    <3>2. o \in ConfigSync /\ Kept(cs[cur].obj, o)
      BY <1>0, <3>1, NoObjAssumption DEF ConfigSync, Kept
    <3> QED BY <2>1, <2>2, <3>1, <3>2 DEF CsStep
  <2> QED BY <2>1, <2>2 DEF csVars
<1>6. CASE ReconcileStep /\ ~CleanDone /\ ~SyncDone
  <2>1. UNCHANGED csVars
    BY <1>6 DEF ReconcileStep, PruneList, CleanList, CleanListFails, SyncList,
                SyncListFails, PruneDelete, CleanDelete, Delete, SyncItem,
                ListFails, PruneDone, apiVars, csVars
  <2> QED BY <2>1
<1> QED BY <1>1, <1>2, <1>4, <1>5, <1>6 DEF MainWorker

LEMMA WatcherStep ==
  ASSUME TypeInv, CsVersions,
         NsWorker \/ \E kd \in Kinds : ObjWorker(kd)
  PROVE  UNCHANGED csVars \/ CsStep
<1>1. ASSUME NEW kd \in Kinds, ObjWorker(kd)
      PROVE  UNCHANGED csVars \/ CsStep
  <2>1. ASSUME NEW k \in Key, ObjStart(k)
        PROVE  UNCHANGED csVars
    BY <2>1 DEF ObjStart, ObjFails, ObjSkip, ObjDeleted, ObjChanged, ObjTake,
                apiVars, csVars
  <2>2. ASSUME NEW d \in odels[kd], ObjDeleteCopy(kd, d)
        PROVE  UNCHANGED csVars
    BY <2>2 DEF ObjDeleteCopy
  <2>3. ASSUME NEW t \in otrig[kd], ObjStamp(kd, t)
        PROVE  UNCHANGED csVars \/ CsStep
    <3>1. t \in Held \cap Stamp
      BY DEF Held, TypeInv, TypeOK, WatchTypeOK
    <3>2. /\ UNCHANGED <<store, csCache>>
          /\ StampWrite(t) \/ UNCHANGED <<cs, csWatch>>
      BY <2>3 DEF ObjStamp, StampFails, objVars
    <3> QED BY <3>1, <3>2, StampStep DEF csVars
  <2> QED BY <1>1, <2>1, <2>2, <2>3 DEF ObjWorker, ObjStep
<1>2. CASE NsWorker
  <2>1. ASSUME NEW n \in Namespaces, NsStart(n)
        PROVE  UNCHANGED csVars
    BY <2>1 DEF NsStart, NsFails, NsReconcile, apiVars, csVars
  <2>2. ASSUME NEW t \in ntrig, NsStamp(t)
        PROVE  UNCHANGED csVars \/ CsStep
    <3>1. t \in Held \cap Stamp
      BY DEF Held, TypeInv, TypeOK, WatchTypeOK
    <3>2. /\ UNCHANGED <<store, csCache>>
          /\ StampWrite(t) \/ UNCHANGED <<cs, csWatch>>
      BY <2>2 DEF NsStamp, StampFails, objVars
    <3> QED BY <3>1, <3>2, StampStep DEF csVars
  <2> QED BY <1>2, <2>1, <2>2 DEF NsWorker, NsStep
<1> QED BY <1>1, <1>2

\* A user's request leaves the ConfigSyncs or writes one of them.
LEMMA UserStep ==
  ASSUME TypeInv, User
  PROVE  UNCHANGED csVars \/ CsStep
<1>0. cs \in [Syncs -> Cell(ConfigSync)] /\ ops \in Nat
  BY DEF TypeInv, TypeOK, ApiTypeOK
<1>1. Request
  BY DEF User, UserRequest, UserCreate, UserUpdate, UserDelete,
         CreateConfigSync, EditConfigSync, DeleteConfigSync, CreateNamespace,
         DeleteNamespace
<1>2. ops' # ops /\ csCache' = csCache
  BY <1>0, <1>1 DEF Request
<1>3. ASSUME NEW c \in Syncs, NEW spec \in Specs, CreateConfigSync(c, spec)
      PROVE  CsStep
  <2> DEFINE o == [spec |-> spec, finalizer |-> FALSE, deleting |-> FALSE,
                   status |-> NoStatus]
  <2>1. o \in ConfigSync
    BY ApiAssumption, NoStatusType DEF ConfigSync
  <2>2. CsWrite(c, o) /\ store' = store /\ cs[c].obj = NoObj
    BY <1>3 DEF CreateConfigSync
  <2>3. Created(NoObj, o)
    BY <1>2, <2>1, NoObjAssumption DEF Created
  <2> QED BY <1>2, <2>1, <2>2, <2>3 DEF CsStep
<1>4. ASSUME NEW c \in Syncs, NEW spec \in Specs, EditConfigSync(c, spec)
      PROVE  CsStep
  <2>1. cs[c].obj \in ConfigSync
    BY <1>0, <1>4 DEF EditConfigSync, CsCanUpdate, Cell
  <2>2. [cs[c].obj EXCEPT !.spec = spec] \in ConfigSync
    BY <2>1, ApiAssumption DEF ConfigSync
  <2>3. CsWrite(c, [cs[c].obj EXCEPT !.spec = spec]) /\ store' = store
    BY <1>4 DEF EditConfigSync
  <2>4. Kept(cs[c].obj, [cs[c].obj EXCEPT !.spec = spec])
    BY <1>2, <2>1, <2>2, NoObjAssumption DEF Kept, ConfigSync
  <2> QED BY <1>2, <2>2, <2>3, <2>4 DEF CsStep
<1>5. ASSUME NEW c \in Syncs, DeleteConfigSync(c)
      PROVE  CsStep
  <2> DEFINE o == IF cs[c].obj.finalizer
                  THEN [cs[c].obj EXCEPT !.deleting = TRUE] ELSE NoObj
  <2>1. cs[c].obj \in ConfigSync
    BY <1>0, <1>5 DEF DeleteConfigSync, CsCanUpdate, Cell
  <2>2. o \in ConfigSync \cup {NoObj}
    BY <2>1 DEF ConfigSync
  <2>3. CsWrite(c, o) /\ store' = store /\ ~cs[c].obj.deleting
    BY <1>5 DEF DeleteConfigSync
  <2>4. Asked(cs[c].obj, o)
    BY <1>2, <2>1, <2>2, <2>3, NoObjAssumption DEF Asked, ConfigSync
  <2> QED BY <1>2, <2>2, <2>3, <2>4 DEF CsStep
<1>6. CASE \/ \E k \in UserKeys :
                \/ \E o \in UserObjects(k) : UserCreate(k, o)
                \/ \E who \in Users, o \in UserObjects(k) : UserUpdate(who, k, o)
                \/ \E who \in Users, v \in Versions :
                     /\ store[k].obj # NoObj
                     /\ UserUpdate(who, k, [store[k].obj EXCEPT
                                              !.data = [at |-> k.ns, v |-> v]])
                \/ \E who \in Users : UserDelete(who, k)
           \/ \E n \in UserNamespaces : CreateNamespace(n) \/ DeleteNamespace(n)
  <2>1. UNCHANGED <<cs, csWatch>>
    BY <1>6 DEF UserCreate, UserUpdate, UserDelete, CreateNamespace,
                DeleteNamespace
  <2> QED BY <1>2, <2>1 DEF csVars
<1> QED BY <1>2, <1>3, <1>4, <1>5, <1>6 DEF User, UserRequest

LEMMA CsSteps ==
  ASSUME TypeInv, CsVersions, SnapFits, [Next]_vars
  PROVE  \/ UNCHANGED csVars
         \/ CsStep
         \/ DeliverSync
         \/ Restart
<1>1. CASE \/ UNCHANGED vars \/ DeliverNs
           \/ \E c \in Syncs : Timer(c)
           \/ \E kd \in Kinds : DeliverObj(kd)
  BY <1>1 DEF vars, apiVars, csVars, DeliverNs, DeliverObj, Timer, TimerFires
<1>2. CASE User
  BY <1>2, UserStep
<1>3. CASE Cluster
  BY <1>3 DEF Cluster, NamespaceController, Evict, NamespaceGone, csVars
<1> QED BY <1>1, <1>2, <1>3, MainStep, WatcherStep DEF Next

-----------------------------------------------------------------------------
\* What has been read stays old or current.

LEMMA ReadTypes ==
  ASSUME TypeInv, NEW r \in CsReads
  PROVE  r.sync \in Syncs /\ r.cell.rv \in Nat
<1>1. /\ csCache \in [Syncs -> Cell(ConfigSync)] /\ csWatch \in Seq(CsEvent)
      /\ snap \in Cell(ConfigSync) /\ ntrig \subseteq Stamp
      /\ \A kd \in Kinds : otrig[kd] \subseteq Stamp
      /\ cur \in Syncs \cup {None}
  BY DEF TypeInv, TypeOK, ApiTypeOK, RecTypeOK, WatchTypeOK
<1>2. CASE r \in Cached
  BY <1>1, <1>2 DEF Cached, Cell
<1>3. CASE r \in Coming
  <2>1. r \in CsEvent
    BY <1>1, <1>3 DEF Coming
  <2> QED BY <2>1 DEF CsEvent, Cell
<1>4. CASE r \in Held
  <2>1. CASE r \in ntrig \/ \E kd \in Kinds : r \in otrig[kd]
    <3>1. r \in Stamp
      BY <1>1, <2>1
    <3> QED BY <3>1 DEF Stamp, Cell
  <2>2. CASE cur # None /\ r = [sync |-> cur, cell |-> snap]
    BY <1>1, <2>2 DEF Cell
  <2> QED BY <1>4, <2>1, <2>2 DEF Held
<1> QED BY <1>2, <1>3, <1>4 DEF CsReads

LEMMA CsWriteVersions ==
  ASSUME TypeInv, CsVersions, Held' \subseteq Held \cup Cached,
         csCache' = csCache,
         NEW c \in Syncs, NEW o \in ConfigSync \cup {NoObj}, CsWrite(c, o)
  PROVE  CsVersions'
<1> DEFINE cell == [rv |-> cs[c].rv + 1, obj |-> o]
           e == [sync |-> c, cell |-> cell]
<1>1. cs' = [cs EXCEPT ![c] = cell] /\ csWatch' = Append(csWatch, e)
  BY DEF CsWrite
<1>2. /\ cs \in [Syncs -> Cell(ConfigSync)] /\ cs[c].rv \in Nat
      /\ csWatch \in Seq(CsEvent)
  BY DEF TypeInv, TypeOK, ApiTypeOK, Cell
<1>3. ASSUME NEW r \in CsReads'
      PROVE  r \in CsReads \cup {e}
  <2> HIDE DEF e
  <2>1. CASE r \in Cached'
    BY <2>1 DEF Cached, CsReads
  <2>2. CASE r \in Held'
    BY <2>2 DEF CsReads
  <2>3. CASE r \in Coming'
    <3>1. PICK i \in 1..Len(csWatch') : r = csWatch'[i]
      BY <2>3 DEF Coming
    <3>2. r = e \/ (i \in 1..Len(csWatch) /\ r = csWatch[i])
      BY <1>1, <1>2, <3>1
    <3> QED BY <3>2 DEF Coming, CsReads
  <2> QED BY <2>1, <2>2, <2>3 DEF CsReads
<1>4. ASSUME NEW r \in CsReads
      PROVE  VersionOf(r.cell, cs'[r.sync])
  BY <1>1, <1>2, ReadTypes DEF CsVersions, VersionOf
<1>5. VersionOf(e.cell, cs'[e.sync])
  BY <1>1, <1>2 DEF VersionOf
<1> QED BY <1>3, <1>4, <1>5 DEF CsVersions

LEMMA DeliverSyncVersions ==
  ASSUME TypeInv, CsVersions, Held' \subseteq Held \cup Cached, DeliverSync
  PROVE  CsVersions'
<1>1. /\ csWatch \in Seq(CsEvent) /\ csWatch # <<>>
      /\ csCache \in [Syncs -> Cell(ConfigSync)]
      /\ csWatch' = Tail(csWatch) /\ cs' = cs
      /\ csCache' = [csCache EXCEPT ![Head(csWatch).sync] = Head(csWatch).cell]
  BY DEF DeliverSync, TypeInv, TypeOK, ApiTypeOK
<1>2. Head(csWatch) \in Coming /\ Head(csWatch) \in CsEvent
  <2>1. 1 \in 1..Len(csWatch) /\ Head(csWatch) = csWatch[1]
    BY <1>1
  <2> QED BY <1>1, <2>1 DEF Coming
<1>3. ASSUME NEW r \in CsReads'
      PROVE  r \in CsReads
  <2>1. CASE r \in Cached'
    <3>1. PICK c \in Syncs : r = [sync |-> c, cell |-> csCache'[c]]
      BY <2>1 DEF Cached
    <3>2. CASE c = Head(csWatch).sync
      <4>1. r = Head(csWatch)
        BY <1>1, <1>2, <3>1, <3>2 DEF CsEvent
      <4> QED BY <1>2, <4>1 DEF CsReads
    <3>3. CASE c # Head(csWatch).sync
      BY <1>1, <3>1, <3>3 DEF Cached, CsReads
    <3> QED BY <3>2, <3>3
  <2>2. CASE r \in Held'
    BY <2>2 DEF CsReads
  <2>3. CASE r \in Coming'
    <3>1. PICK i \in 1..Len(csWatch') : r = csWatch'[i]
      BY <2>3 DEF Coming
    <3>2. i + 1 \in 1..Len(csWatch) /\ r = csWatch[i + 1]
      BY <1>1, <3>1
    <3> QED BY <3>2 DEF Coming, CsReads
  <2> QED BY <2>1, <2>2, <2>3 DEF CsReads
<1> QED BY <1>1, <1>3 DEF CsVersions

LEMMA RestartVersions ==
  ASSUME TypeInv, Restart
  PROVE  CsVersions'
<1>1. /\ csCache' = cs' /\ csWatch' = <<>> /\ cs' = cs
      /\ cur' = None /\ ntrig' = {} /\ \A kd \in Kinds : otrig'[kd] = {}
  BY DEF Restart, Return, WatchReset
<1>2. Held' = {} /\ Coming' = {}
  BY <1>1 DEF Held, Coming
<1>3. CsReads' \subseteq CsNow'
  BY <1>1, <1>2 DEF CsReads, Cached, CsNow
<1>4. \A c \in Syncs : cs'[c].rv \in Nat
  BY <1>1 DEF TypeInv, TypeOK, ApiTypeOK, Cell
<1> QED BY <1>3, <1>4 DEF CsVersions, CsNow, VersionOf

\* A clean-up starts with ReconcileDeleted, pruning with ReconcileSync and
\* copying after pruning.
LEMMA SnapSteps ==
  ASSUME TypeInv, SnapFits, [Next]_vars
  PROVE  SnapFits'
<1>1. CASE UNCHANGED <<pc, snap>>
  BY <1>1 DEF SnapFits
<1>2. CASE pc' = "idle"
  BY <1>2 DEF SnapFits
<1>3. CASE PruneDone
  BY <1>3 DEF PruneDone, SnapFits
<1>4. ASSUME NEW c \in Syncs, ReconcileDeleted(c)
      PROVE  SnapFits'
  <2>1. pc' = "clean" /\ snap' = csCache[c] /\ CanClean(csCache[c].obj)
    BY <1>4 DEF ReconcileDeleted, Begin
  <2> QED BY <2>1 DEF SnapFits
<1>5. ASSUME NEW c \in Syncs, ReconcileSync(c)
      PROVE  SnapFits'
  <2>1. pc' = "prune" /\ snap' = csCache[c] /\ CanSync(csCache[c].obj)
    BY <1>5 DEF ReconcileSync, Begin
  <2> QED BY <2>1 DEF SnapFits
<1> QED BY <1>1, <1>2, <1>3, <1>4, <1>5, WorkerSteps

\* No step makes a reading newer than the ConfigSync, or another one than the
\* one of its version.
LEMMA CsInvSteps ==
  ASSUME CsInv, [Next]_vars
  PROVE  CsInv'
<1> SUFFICES CsVersions'
  BY NextTypes, SnapSteps DEF CsInv
<1>0. TypeInv /\ CsVersions /\ SnapFits /\ Held' \subseteq Held \cup Cached
  BY HeldSteps DEF CsInv
<1>1. CASE UNCHANGED csVars
  <2>1. CsReads' \subseteq CsReads /\ cs' = cs
    BY <1>0, <1>1 DEF csVars, CsReads, Cached, Coming
  <2> QED BY <1>0, <2>1 DEF CsVersions
<1>2. CASE CsStep
  BY <1>0, <1>2, CsWriteVersions DEF CsStep
<1>3. CASE DeliverSync
  BY <1>0, <1>3, DeliverSyncVersions
<1>4. CASE Restart
  BY <1>0, <1>4, RestartVersions
<1> QED BY <1>0, <1>1, <1>2, <1>3, <1>4, CsSteps

LEMMA CsInit == Init => CsInv
<1> SUFFICES ASSUME Init PROVE CsVersions /\ SnapFits
  BY InitTypes DEF CsInv
<1>1. /\ csCache = cs /\ csWatch = <<>> /\ cur = None /\ ntrig = {}
      /\ \A kd \in Kinds : otrig[kd] = {}
      /\ pc = "idle"
  BY DEF Init, RecInit, WatchIdle
<1>2. Held = {} /\ Coming = {}
  BY <1>1 DEF Held, Coming
<1>3. CsReads \subseteq CsNow
  BY <1>1, <1>2 DEF CsReads, Cached, CsNow
<1>4. \A c \in Syncs : cs[c].rv \in Nat
  BY InitTypes DEF TypeInv, TypeOK, ApiTypeOK, Cell
<1> QED BY <1>1, <1>3, <1>4 DEF CsVersions, CsNow, VersionOf, SnapFits

\* What has been read of a ConfigSync is older than the ConfigSync or is the
\* ConfigSync.
LEMMA CsInvariant == Spec => []CsInv
BY CsInit, CsInvSteps, PTL DEF Spec

\* A step that is no user's keeps what users wrote.
LEMMA EditsKept ==
  ASSUME CsInv, [Next]_vars, ops' = ops, NEW c \in Syncs, Exists(c)
  PROVE  Preserves(cs[c].obj, cs'[c].obj)
<1>0. TypeInv /\ CsVersions /\ SnapFits /\ cs[c].obj # NoObj
  BY DEF CsInv, Exists
<1>1. CASE cs' = cs
  BY <1>0, <1>1 DEF Preserves
<1>2. ASSUME NEW x \in Syncs, NEW o \in ConfigSync \cup {NoObj},
             CsWrite(x, o), Preserves(cs[x].obj, o)
      PROVE  Preserves(cs[c].obj, cs'[c].obj)
  <2>1. cs \in [Syncs -> Cell(ConfigSync)]
    BY <1>0 DEF TypeInv, TypeOK, ApiTypeOK
  <2>2. CASE x = c
    <3>1. cs'[c].obj = o
      BY <1>2, <2>1, <2>2 DEF CsWrite
    <3> QED BY <1>2, <2>2, <3>1
  <2>3. CASE x # c
    <3>1. cs'[c] = cs[c]
      BY <1>2, <2>1, <2>3 DEF CsWrite
    <3> QED BY <1>0, <3>1 DEF Preserves
  <2> QED BY <2>2, <2>3
<1>3. CASE CsStep
  <2>1. PICK x \in Syncs, o \in ConfigSync \cup {NoObj} :
          /\ CsWrite(x, o)
          /\ \/ Kept(cs[x].obj, o) \/ Bound(cs[x].obj, o)
             \/ Released(x, cs[x].obj, o)
    BY <1>3 DEF CsStep, Created, Asked
  <2>2. Preserves(cs[x].obj, o)
    BY <2>1 DEF Kept, Bound, Released, CanClean, Preserves
  <2> QED BY <1>2, <2>1, <2>2
<1>4. CASE DeliverSync \/ Restart \/ UNCHANGED csVars
  BY <1>1, <1>4 DEF DeliverSync, Restart, csVars
<1> QED BY <1>0, <1>3, <1>4, CsSteps

\* However stale what it writes from, the operator never takes back a user's
\* edit or deletion of a ConfigSync, and lets go of one only when its user
\* has deleted it (UserEditsSurvive).
THEOREM UserEditsKept == Spec => UserEditsSurvive
<1>1. CsInv /\ [Next]_vars =>
        [ops' = ops =>
           \A c \in Syncs : Exists(c) =>
             IF cs'[c].obj = NoObj THEN cs[c].obj.deleting
             ELSE /\ cs'[c].obj.spec = cs[c].obj.spec
                  /\ cs'[c].obj.deleting = cs[c].obj.deleting
                  /\ cs[c].obj.finalizer => cs'[c].obj.finalizer]_vars
  BY EditsKept DEF Preserves
<1> QED BY <1>1, CsInvariant, PTL DEF Spec, UserEditsSurvive

-----------------------------------------------------------------------------
\* Another process of the operator, which shares nothing but the API server

\* What the API server holds
ServerTypes ==
  /\ store \in [Key -> Cell(Object)] /\ cs \in [Syncs -> Cell(ConfigSync)]
  /\ nss \subseteq Namespaces /\ ending \subseteq nss
  /\ ops \in Nat /\ faults \in Nat /\ crashes \in Nat

\* A step leaves an object or a ConfigSync as it is or gives it a new version,
\* and never more than one ConfigSync
Moves ==
  /\ \A k \in Key : store'[k] = store[k] \/ store'[k].rv > store[k].rv
  /\ \A c \in Syncs : cs'[c] = cs[c] \/ cs'[c].rv > cs[c].rv
  /\ \A c, d \in Syncs : cs'[c] # cs[c] /\ cs'[d] # cs[d] => c = d

\* Everything a step of any process does to the API server is a move.
LEMMA StepsMove ==
  ASSUME CsInv, ObjVersions, [Next]_vars
  PROVE  Moves
<1>0. /\ TypeInv /\ CsVersions /\ SnapFits
      /\ store \in [Key -> Cell(Object)] /\ cs \in [Syncs -> Cell(ConfigSync)]
  BY DEF CsInv, TypeInv, TypeOK, ApiTypeOK
<1>1. \A k \in Key : store'[k] = store[k] \/ store'[k].rv > store[k].rv
  <2>1. ASSUME NEW k \in Key, NEW o, Write(k, o)
        PROVE  \A j \in Key : store'[j] = store[j] \/ store'[j].rv > store[j].rv
    BY <1>0, <2>1 DEF Write, Cell
  <2>2. CASE \E k \in Key : Write(k, NoObj)
    BY <2>1, <2>2
  <2>3. CASE \E i \in items : CopyWrite(i)
    BY <1>0, <2>1, <2>3, CopyOverCopy DEF ObjInv
  <2>4. CASE \E k \in Key, o \in Object \cup {NoObj} : UserWrite(k, o)
    BY <2>1, <2>4 DEF UserWrite
  <2>5. CASE UNCHANGED objVars \/ Restart \/ \E kd \in Kinds : DeliverObj(kd)
    BY <2>5 DEF objVars, Restart, DeliverObj
  <2> QED BY <1>0, <2>2, <2>3, <2>4, <2>5, ObjSteps
<1> DEFINE CsMoves ==
      /\ \A c \in Syncs : cs'[c] = cs[c] \/ cs'[c].rv > cs[c].rv
      /\ \A c, d \in Syncs : cs'[c] # cs[c] /\ cs'[d] # cs[d] => c = d
<1>2. CsMoves
  <2>1. ASSUME NEW c \in Syncs, NEW o, CsWrite(c, o)
        PROVE  CsMoves
    BY <1>0, <2>1 DEF CsWrite, Cell
  <2>2. CASE UNCHANGED csVars \/ DeliverSync \/ Restart
    BY <2>2 DEF csVars, DeliverSync, Restart
  <2> HIDE DEF CsMoves
  <2>3. CASE CsStep
    BY <2>1, <2>3 DEF CsStep
  <2> QED BY <1>0, <2>2, <2>3, CsSteps
<1> QED BY <1>1, <1>2 DEF Moves

\* A process is told of something that has happened, or of nothing.
LEMMA ToldOf ==
  ASSUME NEW S
  PROVE  Told(S) = <<>> \/ \E e \in S : Told(S) = <<e>>
BY DEF Told

\* What a stream of changes holds after news of it.
LEMMA News ==
  ASSUME NEW E, NEW w \in Seq(E), NEW S \in SUBSET E
  PROVE  /\ w \o Told(S) \in Seq(E)
         /\ \A i \in 1..Len(w \o Told(S)) :
              \/ i \in 1..Len(w) /\ (w \o Told(S))[i] = w[i]
              \/ (w \o Told(S))[i] \in S
<1>1. CASE Told(S) = <<>>
  BY <1>1
<1>2. ASSUME NEW e \in S, Told(S) = <<e>>
      PROVE  /\ w \o Told(S) \in Seq(E)
             /\ \A i \in 1..Len(w \o Told(S)) :
                  \/ i \in 1..Len(w) /\ (w \o Told(S))[i] = w[i]
                  \/ (w \o Told(S))[i] \in S
  <2>1. <<e>> \in Seq(E) /\ Len(<<e>>) = 1 /\ <<e>>[1] = e
    OBVIOUS
  <2>2. Len(w \o <<e>>) = Len(w) + 1
    BY <2>1
  <2>3. \A i \in 1..(Len(w) + 1) :
          (w \o <<e>>)[i] = IF i <= Len(w) THEN w[i] ELSE e
    BY <2>1
  <2> QED BY <1>2, <2>1, <2>2, <2>3
<1> QED BY <1>1, <1>2, ToldOf

\* What this process hears of a step of another one leaves it well typed.
LEMMA HearsTypes ==
  ASSUME TypeInv, Hears, ServerTypes'
  PROVE  TypeInv'
<1>1. ASSUME NEW kd \in Kinds
      PROVE  watch[kd] \o ObjNews(kd) \in Seq(ObjEvent)
  <2> DEFINE S == {[key |-> k, cell |-> store'[k]] :
                     k \in {j \in Key : j.kind = kd /\ store'[j] # store[j]}}
  <2>1. S \in SUBSET ObjEvent
    BY DEF ServerTypes, ObjEvent
  <2>2. watch[kd] \in Seq(ObjEvent)
    BY DEF TypeInv, TypeOK, ApiTypeOK
  <2> QED BY <2>1, <2>2, News DEF ObjNews
<1>2. csWatch \o CsNews \in Seq(CsEvent)
  <2> DEFINE S == {[sync |-> c, cell |-> cs'[c]] :
                     c \in {d \in Syncs : cs'[d] # cs[d]}}
  <2>1. S \in SUBSET CsEvent
    BY DEF ServerTypes, CsEvent
  <2>2. csWatch \in Seq(CsEvent)
    BY DEF TypeInv, TypeOK, ApiTypeOK
  <2> QED BY <2>1, <2>2, News DEF CsNews
<1>3. nsWatch \o NsNews \in Seq(NsEvent)
  <2> DEFINE S == {[ns |-> n, exists |-> n \in nss'] :
                     n \in (nss \ nss') \cup (nss' \ nss)}
  <2>1. S \in SUBSET NsEvent
    <3>1. nss \subseteq Namespaces /\ nss' \subseteq Namespaces
      BY DEF ServerTypes, TypeInv, TypeOK, ApiTypeOK
    <3>2. \A n \in Namespaces : \A b \in BOOLEAN :
            [ns |-> n, exists |-> b] \in NsEvent
      BY DEF NsEvent
    <3>3. \A n \in Namespaces : (n \in nss') \in BOOLEAN
      OBVIOUS
    <3>4. \A n \in Namespaces : [ns |-> n, exists |-> n \in nss'] \in NsEvent
      BY <3>2, <3>3, Zenon
    <3> QED BY <3>1, <3>4, Zenon
  <2>2. nsWatch \in Seq(NsEvent)
    BY DEF TypeInv, TypeOK, ApiTypeOK
  <2> QED BY <2>1, <2>2, News DEF NsNews
<1>4. ApiTypeOK' /\ crashes' \in Nat
  BY <1>1, <1>2, <1>3
     DEF Hears, memory, ServerTypes, ApiTypeOK, TypeInv, TypeOK
<1> QED
  BY <1>4 DEF Hears, memory, TypeInv, TypeOK, Busy, RecTypeOK, WatchTypeOK,
              queueVars, recVars, watchVars

\* What this process hears of an object is what there is.
LEMMA HearsObjects ==
  ASSUME TypeInv, Hears, ServerTypes'
  PROVE  ObjReads' \subseteq ObjReads \cup ObjNow'
<1>0. watch \in [Kinds -> Seq(ObjEvent)] /\ store' \in [Key -> Cell(Object)]
  BY DEF TypeInv, TypeOK, ApiTypeOK, ServerTypes
<1> SUFFICES ASSUME NEW r \in ObjReads'
             PROVE  r \in ObjReads \cup ObjNow'
  OBVIOUS
<1>1. CASE \E k \in Key : r = [key |-> k, cell |-> cache'[k]]
  BY <1>1 DEF Hears, memory, ObjReads
<1>2. ASSUME NEW kd \in Kinds, NEW i \in 1..Len(watch'[kd]), r = watch'[kd][i]
      PROVE  r \in ObjReads \cup ObjNow'
  <2> DEFINE S == {[key |-> k, cell |-> store'[k]] :
                     k \in {j \in Key : j.kind = kd /\ store'[j] # store[j]}}
  <2>1. S \in SUBSET ObjEvent /\ S \subseteq ObjNow'
    BY <1>0 DEF ObjEvent, ObjNow
  <2>2. watch'[kd] = watch[kd] \o Told(S) /\ watch[kd] \in Seq(ObjEvent)
    BY <1>0 DEF Hears, ObjNews
  <2> HIDE DEF S
  <2>3. (i \in 1..Len(watch[kd]) /\ r = watch[kd][i]) \/ r \in S
    BY <1>2, <2>1, <2>2, News
  <2> QED BY <2>1, <2>3 DEF ObjReads
<1> QED BY <1>1, <1>2 DEF ObjReads

\* And so of a ConfigSync.
LEMMA HearsSyncs ==
  ASSUME TypeInv, Hears, ServerTypes'
  PROVE  CsReads' \subseteq CsReads \cup CsNow'
<1>0. csWatch \in Seq(CsEvent) /\ cs' \in [Syncs -> Cell(ConfigSync)]
  BY DEF TypeInv, TypeOK, ApiTypeOK, ServerTypes
<1> SUFFICES ASSUME NEW r \in CsReads'
             PROVE  r \in CsReads \cup CsNow'
  OBVIOUS
<1>1. CASE r \in Cached' \/ r \in Held'
  BY <1>1 DEF Hears, memory, recVars, watchVars, Cached, Held, CsReads
<1>2. ASSUME NEW i \in 1..Len(csWatch'), r = csWatch'[i]
      PROVE  r \in CsReads \cup CsNow'
  <2> DEFINE S == {[sync |-> c, cell |-> cs'[c]] :
                     c \in {d \in Syncs : cs'[d] # cs[d]}}
  <2>1. S \in SUBSET CsEvent /\ S \subseteq CsNow'
    BY <1>0 DEF CsEvent, CsNow
  <2>2. csWatch' = csWatch \o Told(S)
    BY DEF Hears, CsNews
  <2> HIDE DEF S
  <2>3. (i \in 1..Len(csWatch) /\ r = csWatch[i]) \/ r \in S
    BY <1>0, <1>2, <2>1, <2>2, News
  <2> QED BY <2>1, <2>3 DEF CsReads, Coming
<1> QED BY <1>1, <1>2 DEF CsReads, Coming

\* What it has read before is as old as it was or older.
LEMMA HearsVersions ==
  ASSUME TypeInv, ObjVersions, CsVersions, Hears, Moves, ServerTypes'
  PROVE  ObjVersions' /\ CsVersions'
<1>0. /\ store \in [Key -> Cell(Object)] /\ cs \in [Syncs -> Cell(ConfigSync)]
      /\ store' \in [Key -> Cell(Object)] /\ cs' \in [Syncs -> Cell(ConfigSync)]
  BY DEF TypeInv, TypeOK, ApiTypeOK, ServerTypes
<1>1. ASSUME NEW r \in ObjReads
      PROVE  VersionOf(r.cell, store'[r.key])
  <2>1. r.key \in Key /\ r.cell.rv \in Nat
    BY ObjReadTypes
  <2>2. store[r.key].rv \in Nat /\ store'[r.key].rv \in Nat
    BY <1>0, <2>1 DEF Cell
  <2> QED BY <2>1, <2>2 DEF ObjVersions, VersionOf, Moves
<1>2. ASSUME NEW r \in CsReads
      PROVE  VersionOf(r.cell, cs'[r.sync])
  <2>1. r.sync \in Syncs /\ r.cell.rv \in Nat
    BY ReadTypes
  <2>2. cs[r.sync].rv \in Nat /\ cs'[r.sync].rv \in Nat
    BY <1>0, <2>1 DEF Cell
  <2> QED BY <2>1, <2>2 DEF CsVersions, VersionOf, Moves
<1>3. /\ \A r \in ObjNow' : VersionOf(r.cell, store'[r.key])
      /\ \A r \in CsNow' : VersionOf(r.cell, cs'[r.sync])
  BY <1>0 DEF ObjNow, CsNow, VersionOf, Cell
<1> QED BY <1>1, <1>2, <1>3, HearsObjects, HearsSyncs
           DEF ObjVersions, CsVersions

\* So a step of another process keeps what is known of this one.
LEMMA HearsSteps ==
  ASSUME CsInv, ObjVersions, Hears, Moves, ServerTypes'
  PROVE  CsInv' /\ ObjVersions'
<1>1. SnapFits'
  BY DEF CsInv, Hears, memory, recVars, SnapFits
<1> QED BY <1>1, HearsTypes, HearsVersions DEF CsInv

=============================================================================
