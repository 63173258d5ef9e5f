---------------------------- MODULE OperatorTypes ----------------------------
(***************************************************************************)
(* Type correctness of the operator, for any cluster: whatever the         *)
(* namespaces, names, kinds, ConfigSyncs and bounds are.                   *)
(***************************************************************************)
EXTENDS Operator, TLAPS

\* A worker that is not idle knows what it is working on
Busy ==
  /\ pc # "idle" => cur \in Syncs /\ snap.obj # NoObj
  /\ pc \in {"sync", "clean"} => work \subseteq Kinds \X Namespaces
  /\ \A kd \in Kinds :
       odels[kd] # {} \/ otrig[kd] # {} => okey[kd] \in Key /\ okey[kd].kind = kd
  /\ ntrig # {} => nkey \in Namespaces

TypeInv == TypeOK /\ Busy

-----------------------------------------------------------------------------
\* The data the controllers compute

\* A spec never leads outside the namespaces there are.
LEMMA SpecTypes ==
  ASSUME NEW spec \in ConfigSyncSpec, NEW existing \in SUBSET Namespaces
  PROVE  /\ SourceNamespace(spec) \in Namespaces
         /\ getTargetNamespaces(spec, existing) \subseteq Namespaces
         /\ EnabledKinds(spec) \subseteq Kinds
BY ApiAssumption
   DEF ConfigSyncSpec, SourceNamespace, getTargetNamespaces, filterNamespaces,
       EnabledKinds

\* A copy is an object.
LEMMA CopyType ==
  ASSUME NEW o \in Object, NEW src \in Namespaces, NEW c \in Syncs
  PROVE  CopyOf(o, src, c) \in Object
BY DEF Object, CopyOf

\* No status is a status.
LEMMA NoStatusType == NoStatus \in Status
BY DEF NoStatus, Status, NamespaceStatus

\* A write to the API server leaves its slots and streams well formed.
LEMMA WriteTypes ==
  ASSUME store \in [Key -> Cell(Object)], watch \in [Kinds -> Seq(ObjEvent)],
         NEW k \in Key, NEW o \in Object \cup {NoObj}, Write(k, o)
  PROVE  /\ store' \in [Key -> Cell(Object)]
         /\ watch' \in [Kinds -> Seq(ObjEvent)]
<1>1. CASE store[k].obj = o
  BY <1>1 DEF Write
<1>2. CASE store[k].obj # o
  <2> DEFINE cell == [rv |-> store[k].rv + 1, obj |-> o]
  <2>1. cell \in Cell(Object)
    BY DEF Cell
  <2>2. [key |-> k, cell |-> cell] \in ObjEvent
    BY <2>1 DEF ObjEvent
  <2>3. k.kind \in Kinds
    BY DEF Key
  <2>4. /\ store' = [store EXCEPT ![k] = cell]
        /\ watch' = [watch EXCEPT ![k.kind] =
                       Append(@, [key |-> k, cell |-> cell])]
    BY <1>2 DEF Write
  <2> QED BY <2>1, <2>2, <2>3, <2>4
<1> QED BY <1>1, <1>2

LEMMA CsWriteTypes ==
  ASSUME cs \in [Syncs -> Cell(ConfigSync)], csWatch \in Seq(CsEvent),
         NEW c \in Syncs, NEW o \in ConfigSync \cup {NoObj}, CsWrite(c, o)
  PROVE  /\ cs' \in [Syncs -> Cell(ConfigSync)]
         /\ csWatch' \in Seq(CsEvent)
<1> DEFINE cell == [rv |-> cs[c].rv + 1, obj |-> o]
<1>1. cell \in Cell(ConfigSync)
  BY DEF Cell
<1>2. [sync |-> c, cell |-> cell] \in CsEvent
  BY <1>1 DEF CsEvent
<1>3. /\ cs' = [cs EXCEPT ![c] = cell]
      /\ csWatch' = Append(csWatch, [sync |-> c, cell |-> cell])
  BY DEF CsWrite
<1> QED BY <1>1, <1>2, <1>3

-----------------------------------------------------------------------------
\* The main controller

\* A reconcile that returns leaves the worker idle and well typed.
LEMMA ReturnTypes ==
  ASSUME Return
  PROVE  /\ pc' = "idle" /\ cur' \in Syncs \cup {None}
         /\ snap' \in Cell(ConfigSync) /\ targets' \subseteq Namespaces
         /\ work' \subseteq Kinds \X (Namespaces \cup {AllNamespaces})
         /\ dels' \subseteq Key /\ items' \subseteq Item /\ report' \in Status
BY NoStatusType DEF Return, Cell

\* What a reconcile starts with.
LEMMA BeginTypes ==
  ASSUME TypeInv, NEW c \in Syncs, Begin(c)
  PROVE  /\ csCache[c].obj \in ConfigSync
         /\ csQueue' \subseteq Syncs
         /\ cur' \in Syncs /\ snap' \in Cell(ConfigSync) /\ snap'.obj # NoObj
         /\ targets' \subseteq Namespaces
         /\ dels' \subseteq Key /\ items' \subseteq Item
<1>1. csCache[c] \in Cell(ConfigSync) /\ csCache[c].obj # NoObj
  BY DEF TypeInv, TypeOK, ApiTypeOK, Begin
<1>2. csCache[c].obj \in ConfigSync
  BY <1>1 DEF Cell
<1>3. csCache[c].obj.spec \in ConfigSyncSpec
  BY <1>2 DEF ConfigSync
<1>4. nsCache \in SUBSET Namespaces
  BY DEF TypeInv, TypeOK, ApiTypeOK
<1> QED
  BY <1>1, <1>2, <1>3, <1>4, SpecTypes
     DEF TypeInv, TypeOK, RecTypeOK, Begin

\* A call that fails and is retried changes nothing else.
LEMMA FailTypes ==
  ASSUME TypeInv, Fail,
         UNCHANGED <<objVars, csVars, nsVars, ops, queueVars, recVars,
                     watchVars, crashes>>
  PROVE  TypeInv'
BY DEF Fail, TypeInv, TypeOK, Busy, ApiTypeOK, RecTypeOK, WatchTypeOK, objVars,
       csVars, nsVars, queueVars, recVars, watchVars

LEMMA StartTypes ==
  ASSUME TypeInv, NEW c \in Syncs, ReconcileStart(c),
         UNCHANGED <<watchVars, crashes>>
  PROVE  TypeInv'
<1>0. CASE ReconcileFails(c)
  BY <1>0, FailTypes DEF ReconcileFails
<1>1. CASE ReconcileGone(c)
  BY <1>1
     DEF TypeInv, TypeOK, Busy, ApiTypeOK, RecTypeOK, WatchTypeOK,
         ReconcileGone, apiVars, recVars, watchVars
<1>2. CASE ReconcileAddFinalizer(c)
  <2>1. csCache[c].obj \in ConfigSync
    BY <1>2 DEF TypeInv, TypeOK, ApiTypeOK, ReconcileAddFinalizer, Cell
  <2>2. [csCache[c].obj EXCEPT !.finalizer = TRUE] \in ConfigSync
    BY <2>1 DEF ConfigSync
  <2>3. cs' \in [Syncs -> Cell(ConfigSync)] /\ csWatch' \in Seq(CsEvent)
    BY <1>2, <2>2, CsWriteTypes
       DEF ReconcileAddFinalizer, TypeInv, TypeOK, ApiTypeOK
  <2> QED
    BY <1>2, <2>3
       DEF TypeInv, TypeOK, Busy, ApiTypeOK, RecTypeOK, WatchTypeOK,
           ReconcileAddFinalizer, objVars, nsVars, queueVars, recVars,
           watchVars
<1>3. CASE ReconcileDeleted(c)
  <2>1. Begin(c) /\ pc' = "clean" /\ report' = NoStatus
    BY <1>3 DEF ReconcileDeleted
  <2>2. csCache[c].obj.spec \in ConfigSyncSpec
    BY <2>1, BeginTypes DEF ConfigSync
  <2>3. work' \subseteq Kinds \X Namespaces
    BY <1>3, <2>1, <2>2, BeginTypes DEF ReconcileDeleted, EnabledKinds
  <2> QED
    BY <2>1, <2>3, BeginTypes, NoStatusType
       DEF TypeInv, TypeOK, Busy, ApiTypeOK, RecTypeOK, WatchTypeOK,
           Begin, apiVars, watchVars
<1>4. CASE ReconcileSync(c)
  <2>1. Begin(c) /\ pc' = "prune"
    BY <1>4 DEF ReconcileSync
  <2>2. work' \subseteq Kinds \X (Namespaces \cup {AllNamespaces})
    BY <1>4 DEF ReconcileSync
  <2>3. report' \in Status
    BY <1>4, NoStatusType DEF ReconcileSync, Status, NamespaceStatus
  <2> QED
    BY <2>1, <2>2, <2>3, BeginTypes
       DEF TypeInv, TypeOK, Busy, ApiTypeOK, RecTypeOK, WatchTypeOK,
           Begin, apiVars, watchVars
<1> QED BY <1>0, <1>1, <1>2, <1>3, <1>4 DEF ReconcileStart

\* The worker's registers while it is at work, in the form its steps use.
LEMMA WorkerTypes ==
  ASSUME TypeInv, pc # "idle"
  PROVE  /\ cur \in Syncs /\ snap \in Cell(ConfigSync)
         /\ snap.obj \in ConfigSync /\ CurSpec \in ConfigSyncSpec
         /\ SourceNamespace(CurSpec) \in Namespaces
BY SpecTypes DEF TypeInv, TypeOK, RecTypeOK, Busy, Cell, ConfigSync, CurSpec

\* One Delete of the loop over the last listing.
LEMMA DeleteTypes ==
  ASSUME TypeInv, NEW k \in dels, Delete(k), UNCHANGED <<watchVars, crashes>>
  PROVE  TypeInv'
<1>1. k \in Key /\ dels' \subseteq Key
  BY DEF TypeInv, TypeOK, RecTypeOK, Delete
<1>2. /\ store' \in [Key -> Cell(Object)]
      /\ watch' \in [Kinds -> Seq(ObjEvent)]
      /\ faults' \in Nat
  BY <1>1, WriteTypes DEF Delete, TypeInv, TypeOK, ApiTypeOK, Fail
<1> QED
  BY <1>1, <1>2
     DEF TypeInv, TypeOK, Busy, ApiTypeOK, RecTypeOK, WatchTypeOK, Delete,
         csVars, nsVars, queueVars, watchVars

LEMMA PruneTypes ==
  ASSUME TypeInv, UNCHANGED <<watchVars, crashes>>,
         \/ \E w \in work : PruneList(w)
         \/ \E k \in dels : PruneDelete(k)
         \/ PruneDone
         \/ ListFails
  PROVE  TypeInv'
<1>1. CASE \E w \in work : PruneList(w)
  BY <1>1
     DEF TypeInv, TypeOK, Busy, ApiTypeOK, RecTypeOK, WatchTypeOK, PruneList,
         apiVars, queueVars, watchVars
<1>2. CASE \E k \in dels : PruneDelete(k)
  BY <1>2, DeleteTypes DEF PruneDelete
<1>3. CASE PruneDone
  <2>1. EnabledKinds(CurSpec) \subseteq Kinds
    BY <1>3, WorkerTypes DEF PruneDone, EnabledKinds
  <2> QED
    BY <1>3, <2>1
       DEF TypeInv, TypeOK, Busy, ApiTypeOK, RecTypeOK, WatchTypeOK,
           PruneDone, apiVars, queueVars, watchVars
<1>4. CASE ListFails
  <2>1. Return /\ csQueue' = csQueue \cup {cur} /\ timers' = timers
    BY <1>4 DEF ListFails, ReturnError
  <2>2. cur \in Syncs
    BY <1>4, WorkerTypes DEF ListFails
  <2>3. faults' \in Nat
    BY <1>4 DEF ListFails, Fail, TypeInv, TypeOK, ApiTypeOK
  <2> QED
    BY <1>4, <2>1, <2>2, <2>3, ReturnTypes
       DEF TypeInv, TypeOK, Busy, ApiTypeOK, RecTypeOK, WatchTypeOK,
           ListFails, objVars, csVars, nsVars, watchVars
<1> QED BY <1>1, <1>2, <1>3, <1>4

LEMMA CleanTypes ==
  ASSUME TypeInv, UNCHANGED <<watchVars, crashes>>,
         \/ \E w \in work : CleanList(w) \/ CleanListFails(w)
         \/ \E k \in dels : CleanDelete(k)
         \/ CleanDone
  PROVE  TypeInv'
<1>1. CASE \E w \in work : CleanList(w)
  BY <1>1
     DEF TypeInv, TypeOK, Busy, ApiTypeOK, RecTypeOK, WatchTypeOK, CleanList,
         apiVars, queueVars, watchVars
<1>2. CASE \E w \in work : CleanListFails(w)
  BY <1>2
     DEF TypeInv, TypeOK, Busy, ApiTypeOK, RecTypeOK, WatchTypeOK,
         CleanListFails, Fail, objVars, csVars, nsVars, queueVars, watchVars
<1>3. CASE \E k \in dels : CleanDelete(k)
  BY <1>3, DeleteTypes DEF CleanDelete
<1>4. CASE CleanDone
  <2>1. cur \in Syncs
    BY <1>4, WorkerTypes DEF CleanDone
  <2>2. Return /\ csQueue' \subseteq Syncs /\ timers' = timers
    BY <1>4, <2>1
       DEF CleanDone, ReturnError, queueVars, TypeInv, TypeOK, RecTypeOK
  <2>3. cs' \in [Syncs -> Cell(ConfigSync)] /\ csWatch' \in Seq(CsEvent)
    BY <1>4, <2>1, CsWriteTypes DEF CleanDone, TypeInv, TypeOK, ApiTypeOK
  <2>4. faults' \in Nat
    BY <1>4 DEF CleanDone, Fail, TypeInv, TypeOK, ApiTypeOK
  <2> QED
    BY <1>4, <2>1, <2>2, <2>3, <2>4, ReturnTypes
       DEF TypeInv, TypeOK, Busy, ApiTypeOK, RecTypeOK, WatchTypeOK,
           CleanDone, objVars, nsVars, watchVars
<1> QED BY <1>1, <1>2, <1>3, <1>4

\* The report stays a status when a namespace fails or a count goes up.
LEMMA ReportTypes ==
  ASSUME report \in Status, NEW n \in Namespaces, NEW kd \in Kinds
  PROVE  /\ [report EXCEPT ![n].status = "Failed"] \in Status
         /\ [report EXCEPT ![n].synced[kd] = @ + 1] \in Status
<1>1. report[n] \in NamespaceStatus
  BY DEF Status
<1>2. [report[n] EXCEPT !.status = "Failed"] \in NamespaceStatus
  BY <1>1 DEF NamespaceStatus
<1>3. [report[n] EXCEPT !.synced[kd] = @ + 1] \in NamespaceStatus
  BY <1>1 DEF NamespaceStatus
<1> QED BY <1>2, <1>3 DEF Status

LEMMA SyncItemTypes ==
  ASSUME TypeInv, NEW i \in items, SyncItem(i), UNCHANGED <<watchVars, crashes>>
  PROVE  TypeInv'
<1>1. i.key \in Key /\ i.obj \in Object
  BY DEF TypeInv, TypeOK, RecTypeOK, Item
<1>2. CopyFor(i) \in Object
  BY <1>1, CopyType, WorkerTypes DEF SyncItem, CopyFor
<1>3. store' \in [Key -> Cell(Object)] /\ watch' \in [Kinds -> Seq(ObjEvent)]
  BY <1>1, <1>2, WriteTypes DEF SyncItem, TypeInv, TypeOK, ApiTypeOK
<1>4. report' \in Status
  <2>1. i.key.ns \in Namespaces /\ i.key.kind \in Kinds /\ report \in Status
    BY <1>1 DEF Key, TypeInv, TypeOK, RecTypeOK
  <2>2. CASE Synced(i.key)
    BY <2>1, <2>2, ReportTypes DEF Synced
  <2>3. CASE report' = report
    BY <2>1, <2>3
  <2> QED BY <2>2, <2>3 DEF SyncItem
<1>5. faults' \in Nat
  BY DEF SyncItem, Fail, TypeInv, TypeOK, ApiTypeOK
<1> QED
  BY <1>3, <1>4, <1>5
     DEF TypeInv, TypeOK, Busy, ApiTypeOK, RecTypeOK, WatchTypeOK, SyncItem,
         csVars, nsVars, queueVars, watchVars

LEMMA SyncTypes ==
  ASSUME TypeInv, UNCHANGED <<watchVars, crashes>>,
         \/ \E w \in work : SyncList(w) \/ SyncListFails(w)
         \/ \E i \in items : SyncItem(i)
         \/ SyncDone
  PROVE  TypeInv'
<1>1. CASE \E w \in work : SyncList(w)
  <2>1. PICK w \in work : SyncList(w)
    BY <1>1
  <2>2. w[2] \in Namespaces
    BY <2>1 DEF SyncList, TypeInv, Busy
  <2>3. ASSUME NEW k \in listSource(cache, w[1], CurSpec)
        PROVE  [key |-> [k EXCEPT !.ns = w[2]], obj |-> cache[k].obj] \in Item
    <3>1. k \in Key /\ cache[k].obj \in Object
      BY DEF listSource, TypeInv, TypeOK, ApiTypeOK, Cell
    <3> QED BY <2>2, <3>1 DEF Item, Key
  <2>4. items' \subseteq Item
    BY <2>1, <2>3 DEF SyncList
  <2> QED
    BY <2>1, <2>4
       DEF TypeInv, TypeOK, Busy, ApiTypeOK, RecTypeOK, WatchTypeOK, SyncList,
           apiVars, queueVars, watchVars
<1>2. CASE \E w \in work : SyncListFails(w)
  <2>1. PICK w \in work : SyncListFails(w)
    BY <1>2
  <2>2. w[1] \in Kinds /\ w[2] \in Namespaces
    BY <2>1 DEF SyncListFails, TypeInv, Busy
  <2>3. report' \in Status
    BY <2>1, <2>2, ReportTypes DEF SyncListFails, TypeInv, TypeOK, RecTypeOK
  <2>4. faults' \in Nat
    BY <2>1 DEF SyncListFails, Fail, TypeInv, TypeOK, ApiTypeOK
  <2> QED
    BY <2>1, <2>3, <2>4
       DEF TypeInv, TypeOK, Busy, ApiTypeOK, RecTypeOK, WatchTypeOK,
           SyncListFails, objVars, csVars, nsVars, queueVars, watchVars
<1>3. CASE \E i \in items : SyncItem(i)
  BY <1>3, SyncItemTypes
<1>4. CASE SyncDone
  <2>1. cur \in Syncs
    BY <1>4, WorkerTypes DEF SyncDone
  <2>2. Return /\ csQueue' \subseteq Syncs /\ timers' \subseteq Syncs
    BY <1>4, <2>1 DEF SyncDone, RequeueAfter, ReturnError, TypeInv, TypeOK, RecTypeOK
  <2>3. cs' \in [Syncs -> Cell(ConfigSync)] /\ csWatch' \in Seq(CsEvent)
    <3> DEFINE o == [cs[cur].obj EXCEPT !.status = report]
    <3>1. CASE CsCanUpdate(cur, snap.rv) /\ CsWrite(cur, o)
      <4>1. cs[cur].obj \in ConfigSync
        BY <3>1, <2>1 DEF CsCanUpdate, TypeInv, TypeOK, ApiTypeOK, Cell
      <4>2. o \in ConfigSync
        BY <4>1 DEF ConfigSync, TypeInv, TypeOK, RecTypeOK
      <4> QED BY <2>1, <3>1, <4>2, CsWriteTypes DEF TypeInv, TypeOK, ApiTypeOK
    <3>2. CASE UNCHANGED <<cs, csWatch>>
      BY <3>2 DEF TypeInv, TypeOK, ApiTypeOK
    <3> QED BY <1>4, <3>1, <3>2 DEF SyncDone, StatusWrite
  <2>4. faults' \in Nat
    BY <1>4 DEF SyncDone, Fail, TypeInv, TypeOK, ApiTypeOK
  <2> QED
    BY <1>4, <2>1, <2>2, <2>3, <2>4, ReturnTypes
       DEF TypeInv, TypeOK, Busy, ApiTypeOK, RecTypeOK, WatchTypeOK,
           SyncDone, objVars, nsVars, watchVars
<1> QED BY <1>1, <1>2, <1>3, <1>4

LEMMA MainWorkerTypes ==
  ASSUME TypeInv, MainWorker
  PROVE  TypeInv'
BY StartTypes, PruneTypes, CleanTypes, SyncTypes DEF MainWorker, ReconcileStep

-----------------------------------------------------------------------------
\* The watchers

\* A worker that takes up what is left for a key is busy with that key, or
\* idle.
LEMMA WorkOnTypes ==
  ASSUME TypeInv, NEW k \in Key, NEW delsLeft \in SUBSET Key,
         NEW trigLeft \in SUBSET Stamp, WorkOn(k, delsLeft, trigLeft)
  PROVE  /\ okey' \in [Kinds -> Key \cup {None}]
         /\ odels' \in [Kinds -> SUBSET Key]
         /\ otrig' \in [Kinds -> SUBSET Stamp]
         /\ \A kd \in Kinds :
              odels'[kd] # {} \/ otrig'[kd] # {} =>
                okey'[kd] \in Key /\ okey'[kd].kind = kd
BY DEF WorkOn, Key, TypeInv, TypeOK, WatchTypeOK, Busy

LEMMA StampsType ==
  ASSUME TypeInv, NEW S \in SUBSET Syncs
  PROVE  Stamps(S) \in SUBSET Stamp
BY DEF Stamps, Stamp, TypeInv, TypeOK, ApiTypeOK

\* A stamp, forced or refused, leaves the ConfigSyncs well formed.
LEMMA StampTypes ==
  ASSUME TypeInv, NEW t \in Stamp,
         \/ StampWrite(t) /\ UNCHANGED faults
         \/ StampFails(t)
  PROVE  /\ cs' \in [Syncs -> Cell(ConfigSync)] /\ csWatch' \in Seq(CsEvent)
         /\ faults' \in Nat
<1>1. t.sync \in Syncs /\ t.cell.obj \in ConfigSync \cup {NoObj}
  BY DEF Stamp, Cell
<1>2. CASE StampWrite(t) /\ UNCHANGED faults
  BY <1>1, <1>2, CsWriteTypes DEF StampWrite, TypeInv, TypeOK, ApiTypeOK
<1>3. CASE StampFails(t)
  BY <1>3 DEF StampFails, Fail, TypeInv, TypeOK, ApiTypeOK
<1> QED BY <1>2, <1>3

LEMMA ObjStartTypes ==
  ASSUME TypeInv, NEW k \in Key, ObjStart(k),
         UNCHANGED <<queueVars, recVars, crashes>>
  PROVE  TypeInv'
<1>0. CASE ObjFails(k)
  BY <1>0, FailTypes DEF ObjFails
<1> SUFFICES ASSUME ~ObjFails(k) PROVE TypeInv'
  BY <1>0
<1>1. objQueue' \subseteq Key /\ UNCHANGED <<apiVars, nsQueue, nkey, ntrig>>
  BY DEF ObjStart, ObjSkip, ObjDeleted, ObjChanged, ObjTake, TypeInv, TypeOK,
         WatchTypeOK
<1>2. /\ okey' \in [Kinds -> Key \cup {None}]
      /\ odels' \in [Kinds -> SUBSET Key] /\ otrig' \in [Kinds -> SUBSET Stamp]
      /\ \A kd \in Kinds :
           odels'[kd] # {} \/ otrig'[kd] # {} =>
             okey'[kd] \in Key /\ okey'[kd].kind = kd
  <2>1. CASE ObjSkip(k)
    BY <2>1 DEF ObjSkip, TypeInv, TypeOK, WatchTypeOK, Busy
  <2>2. CASE ObjDeleted(k)
    <3>1. PICK D \in SUBSET Key : WorkOn(k, D, {})
      BY <2>2 DEF ObjDeleted
    <3> QED BY <3>1, WorkOnTypes
  <2>3. CASE ObjChanged(k)
    <3> DEFINE S == {c \in Syncs : /\ csCache[c].obj # NoObj
                                   /\ ObjectWakes(csCache[c].obj.spec, k,
                                                  cache[k].obj)}
    <3>1. WorkOn(k, {}, Stamps(S))
      BY <2>3 DEF ObjChanged
    <3>2. Stamps(S) \in SUBSET Stamp
      BY StampsType
    <3> QED BY <3>1, <3>2, WorkOnTypes
  <2> QED BY <2>1, <2>2, <2>3 DEF ObjStart
<1> QED
  BY <1>1, <1>2
     DEF TypeInv, TypeOK, Busy, ApiTypeOK, RecTypeOK, WatchTypeOK, apiVars,
         queueVars, recVars

LEMMA ObjStepTypes ==
  ASSUME TypeInv, NEW kd \in Kinds, ObjStep(kd),
         UNCHANGED <<queueVars, recVars, crashes>>
  PROVE  TypeInv'
<1>1. ASSUME NEW d \in odels[kd], ObjDeleteCopy(kd, d)
      PROVE  TypeInv'
  <2>1. d \in Key /\ okey[kd] \in Key /\ odels[kd] \ {d} \in SUBSET Key
    BY DEF TypeInv, TypeOK, WatchTypeOK, Busy
  <2>2. /\ okey' \in [Kinds -> Key \cup {None}]
        /\ odels' \in [Kinds -> SUBSET Key]
        /\ otrig' \in [Kinds -> SUBSET Stamp]
        /\ \A x \in Kinds : odels'[x] # {} \/ otrig'[x] # {} =>
                              okey'[x] \in Key /\ okey'[x].kind = x
    <3>1. WorkOn(okey[kd], odels[kd] \ {d}, {})
      BY <1>1 DEF ObjDeleteCopy
    <3>2. {} \in SUBSET Stamp
      OBVIOUS
    <3> QED BY <2>1, <3>1, <3>2, WorkOnTypes
  <2>3. /\ store' \in [Key -> Cell(Object)]
        /\ watch' \in [Kinds -> Seq(ObjEvent)] /\ faults' \in Nat
    BY <1>1, <2>1, WriteTypes
       DEF ObjDeleteCopy, Fail, TypeInv, TypeOK, ApiTypeOK
  <2> QED
    BY <1>1, <2>2, <2>3
       DEF TypeInv, TypeOK, Busy, ApiTypeOK, RecTypeOK, WatchTypeOK,
           ObjDeleteCopy, csVars, nsVars, queueVars, recVars
<1>2. ASSUME NEW t \in otrig[kd], ObjStamp(kd, t)
      PROVE  TypeInv'
  <2>1. t \in Stamp /\ okey[kd] \in Key /\ otrig[kd] \ {t} \in SUBSET Stamp
    BY DEF TypeInv, TypeOK, WatchTypeOK, Busy
  <2>2. /\ okey' \in [Kinds -> Key \cup {None}]
        /\ odels' \in [Kinds -> SUBSET Key]
        /\ otrig' \in [Kinds -> SUBSET Stamp]
        /\ \A x \in Kinds : odels'[x] # {} \/ otrig'[x] # {} =>
                              okey'[x] \in Key /\ okey'[x].kind = x
    BY <1>2, <2>1, WorkOnTypes DEF ObjStamp
  <2>3. /\ cs' \in [Syncs -> Cell(ConfigSync)] /\ csWatch' \in Seq(CsEvent)
        /\ faults' \in Nat
    BY <1>2, <2>1, StampTypes DEF ObjStamp
  <2>4. objQueue' \subseteq Key
    BY <1>2, <2>1 DEF ObjStamp, TypeInv, TypeOK, WatchTypeOK
  <2> QED
    BY <1>2, <2>2, <2>3, <2>4
       DEF TypeInv, TypeOK, Busy, ApiTypeOK, RecTypeOK, WatchTypeOK,
           ObjStamp, objVars, nsVars, queueVars, recVars
<1> QED BY <1>1, <1>2 DEF ObjStep

LEMMA NsWorkerTypes ==
  ASSUME TypeInv, NsWorker
  PROVE  TypeInv'
<1>0. ASSUME NEW n \in Namespaces, NsFails(n)
      PROVE  TypeInv'
  BY <1>0, FailTypes DEF NsFails, NsWorker
<1>1. ASSUME NEW n \in Namespaces, NsReconcile(n)
      PROVE  TypeInv'
  <2> DEFINE S == {c \in Syncs :
                     /\ n \in nsCache /\ n \notin SystemNamespaces
                     /\ csCache[c].obj # NoObj
                     /\ NamespaceWakes(csCache[c].obj.spec, n)}
  <2>1. NsWorkOn(n, Stamps(S))
    BY <1>1 DEF NsReconcile
  <2>2. Stamps(S) \in SUBSET Stamp
    BY StampsType
  <2> HIDE DEF S
  <2> QED
    BY <1>1, <2>1, <2>2
       DEF TypeInv, TypeOK, Busy, ApiTypeOK, RecTypeOK, WatchTypeOK,
           NsReconcile, NsWorkOn, NsWorker, apiVars, queueVars, recVars
<1>2. ASSUME NEW t \in ntrig, NsStamp(t)
      PROVE  TypeInv'
  <2>1. t \in Stamp /\ nkey \in Namespaces
    BY DEF TypeInv, TypeOK, WatchTypeOK, Busy
  <2>2. /\ cs' \in [Syncs -> Cell(ConfigSync)] /\ csWatch' \in Seq(CsEvent)
        /\ faults' \in Nat
    BY <1>2, <2>1, StampTypes DEF NsStamp
  <2>3. ntrig' \subseteq Stamp /\ nkey' \in Namespaces \cup {None}
        /\ (ntrig' # {} => nkey' \in Namespaces) /\ nsQueue' \subseteq Namespaces
    BY <1>2, <2>1 DEF NsStamp, NsWorkOn, TypeInv, TypeOK, WatchTypeOK
  <2> QED
    BY <1>2, <2>2, <2>3
       DEF TypeInv, TypeOK, Busy, ApiTypeOK, RecTypeOK, WatchTypeOK,
           NsStamp, NsWorker, objVars, nsVars, queueVars, recVars
<1> QED BY <1>0, <1>1, <1>2 DEF NsWorker, NsStart, NsStep

-----------------------------------------------------------------------------
\* The informers, the users, a restart

LEMMA DeliverTypes ==
  ASSUME TypeInv, (\E kd \in Kinds : DeliverObj(kd)) \/ DeliverSync \/ DeliverNs
  PROVE  TypeInv'
<1>1. ASSUME NEW kd \in Kinds, DeliverObj(kd)
      PROVE  TypeInv'
  <2>1. watch[kd] \in Seq(ObjEvent) /\ watch[kd] # <<>>
    BY <1>1 DEF DeliverObj, TypeInv, TypeOK, ApiTypeOK
  <2>2. Head(watch[kd]) \in ObjEvent /\ Tail(watch[kd]) \in Seq(ObjEvent)
    BY <2>1
  <2>3. Head(watch[kd]).key \in Key /\ Head(watch[kd]).cell \in Cell(Object)
    BY <2>2 DEF ObjEvent
  <2>4. watch' = [watch EXCEPT ![kd] = Tail(@)]
        /\ cache' = [cache EXCEPT ![Head(watch[kd]).key] = Head(watch[kd]).cell]
    BY <1>1 DEF DeliverObj
  <2>5. objQueue' \in {objQueue \cup {Head(watch[kd]).key}, objQueue}
    BY <1>1 DEF DeliverObj
  <2>6. UNCHANGED <<store, csVars, nsVars, ops, queueVars, recVars, okey,
                    odels, otrig, nsQueue, nkey, ntrig, crashes>>
    BY <1>1 DEF DeliverObj
  <2>7. faults' \in Nat
    <3>1. faults' = faults \/ Fail
      BY <1>1 DEF DeliverObj
    <3> QED BY <3>1 DEF Fail, TypeInv, TypeOK, ApiTypeOK
  <2>8. objQueue' \subseteq Key
    BY <2>3, <2>5 DEF TypeInv, TypeOK, WatchTypeOK
  <2>9. /\ cache' \in [Key -> Cell(Object)]
        /\ watch' \in [Kinds -> Seq(ObjEvent)]
    BY <2>2, <2>3, <2>4 DEF TypeInv, TypeOK, ApiTypeOK
  <2>10. ApiTypeOK' /\ crashes' \in Nat
    BY <2>6, <2>7, <2>9 DEF TypeInv, TypeOK, ApiTypeOK, csVars, nsVars
  <2>11. RecTypeOK' /\ WatchTypeOK' /\ Busy'
    BY <2>6, <2>8
       DEF TypeInv, TypeOK, Busy, RecTypeOK, WatchTypeOK, queueVars, recVars
  <2> QED BY <2>10, <2>11 DEF TypeInv, TypeOK
<1>2. CASE DeliverSync
  <2>1. Head(csWatch) \in CsEvent /\ Tail(csWatch) \in Seq(CsEvent)
    BY <1>2 DEF DeliverSync, TypeInv, TypeOK, ApiTypeOK
  <2>2. Head(csWatch).sync \in Syncs /\ Head(csWatch).cell \in Cell(ConfigSync)
    BY <2>1 DEF CsEvent
  <2> QED
    BY <1>2, <2>1, <2>2
       DEF TypeInv, TypeOK, Busy, ApiTypeOK, RecTypeOK, WatchTypeOK,
           DeliverSync, objVars, nsVars, recVars, watchVars
<1>3. CASE DeliverNs
  <2>1. Head(nsWatch) \in NsEvent /\ Tail(nsWatch) \in Seq(NsEvent)
    BY <1>3 DEF DeliverNs, TypeInv, TypeOK, ApiTypeOK
  <2>2. Head(nsWatch).ns \in Namespaces
    BY <2>1 DEF NsEvent
  <2> QED
    BY <1>3, <2>1, <2>2
       DEF TypeInv, TypeOK, Busy, ApiTypeOK, RecTypeOK, WatchTypeOK,
           DeliverNs, objVars, csVars, queueVars, recVars
<1> QED BY <1>1, <1>2, <1>3

\* A request of a user writes an object or a ConfigSync, or creates or
\* deletes a namespace.
LEMMA UserTypes ==
  ASSUME TypeInv, User
  PROVE  TypeInv'
<1>1. ops' \in Nat /\ faults' \in Nat /\ cache' = cache /\ csCache' = csCache
      /\ nsCache' = nsCache
  <2>1. Request /\ faults' = faults
    BY DEF User, UserRequest, UserCreate, UserUpdate, UserDelete,
           CreateConfigSync, EditConfigSync, DeleteConfigSync, CreateNamespace,
           DeleteNamespace
  <2> QED BY <2>1 DEF Request, TypeInv, TypeOK, ApiTypeOK
<1>2. ASSUME NEW k \in Key, NEW o \in Object \cup {NoObj}, Write(k, o),
             UNCHANGED <<cs, csWatch, nss, ending, nsWatch>>
      PROVE  ApiTypeOK'
  BY <1>1, <1>2, WriteTypes DEF TypeInv, TypeOK, ApiTypeOK
<1>3. ASSUME NEW c \in Syncs, NEW o \in ConfigSync \cup {NoObj}, CsWrite(c, o),
             UNCHANGED <<store, watch, nss, ending, nsWatch>>
      PROVE  ApiTypeOK'
  BY <1>1, <1>3, CsWriteTypes DEF TypeInv, TypeOK, ApiTypeOK
<1>4. ApiTypeOK'
  <2>1. ASSUME NEW k \in UserKeys
        PROVE  /\ k \in Key
               /\ \A o \in UserObjects(k) : o \in Object
               /\ \A v \in Versions : store[k].obj # NoObj =>
                    [store[k].obj EXCEPT !.data = [at |-> k.ns, v |-> v]]
                      \in Object
    <3>1. k \in Key
      BY BoundsAssumption
    <3>2. k.ns \in Namespaces /\ store[k].obj \in Object \cup {NoObj}
      BY <3>1 DEF Key, Cell, TypeInv, TypeOK, ApiTypeOK
    <3> QED
      BY <3>1, <3>2, ApiAssumption DEF UserObjects, Object, Payload
  <2>2. ASSUME NEW k \in UserKeys, NEW o \in UserObjects(k),
               UserCreate(k, o) \/ \E who \in Users : UserUpdate(who, k, o)
        PROVE  ApiTypeOK'
    <3>1. k \in Key /\ o \in Object
      BY <2>1
    <3>2. Write(k, o) /\ UNCHANGED <<cs, csWatch, nss, ending, nsWatch>>
      BY <2>2 DEF UserCreate, UserUpdate
    <3> QED BY <3>1, <3>2, <1>2
  <2>3. ASSUME NEW k \in UserKeys, NEW who \in Users, NEW v \in Versions,
               store[k].obj # NoObj,
               UserUpdate(who, k, [store[k].obj EXCEPT
                                     !.data = [at |-> k.ns, v |-> v]])
        PROVE  ApiTypeOK'
    <3> DEFINE o == [store[k].obj EXCEPT !.data = [at |-> k.ns, v |-> v]]
    <3>1. k \in Key /\ o \in Object
      BY <2>1, <2>3
    <3>2. Write(k, o) /\ UNCHANGED <<cs, csWatch, nss, ending, nsWatch>>
      BY <2>3 DEF UserUpdate
    <3> QED BY <3>1, <3>2, <1>2
  <2>4. CASE \E k \in UserKeys, who \in Users : UserDelete(who, k)
    BY <2>1, <2>4, <1>2 DEF UserDelete
  <2>5. ASSUME NEW c \in Syncs, cs[c].obj # NoObj
        PROVE  /\ cs[c].obj \in ConfigSync
               /\ \A spec \in Specs :
                    [cs[c].obj EXCEPT !.spec = spec] \in ConfigSync
               /\ [cs[c].obj EXCEPT !.deleting = TRUE] \in ConfigSync
    <3>1. cs[c].obj \in ConfigSync
      BY <2>5 DEF Cell, TypeInv, TypeOK, ApiTypeOK
    <3> QED BY <3>1, ApiAssumption DEF ConfigSync
  <2>6. CASE \E c \in Syncs, spec \in Specs : CreateConfigSync(c, spec)
    <3>1. PICK c \in Syncs, spec \in Specs : CreateConfigSync(c, spec)
      BY <2>6
    <3>2. [spec |-> spec, finalizer |-> FALSE, deleting |-> FALSE,
           status |-> NoStatus] \in ConfigSync
      BY ApiAssumption, NoStatusType DEF ConfigSync
    <3> QED BY <3>1, <3>2, <1>3 DEF CreateConfigSync
  <2>7. CASE \E c \in Syncs, spec \in Specs : EditConfigSync(c, spec)
    BY <2>5, <2>7, <1>3 DEF EditConfigSync, CsCanUpdate
  <2>8. CASE \E c \in Syncs : DeleteConfigSync(c)
    BY <2>5, <2>8, <1>3 DEF DeleteConfigSync, CsCanUpdate
  <2>9. ASSUME NEW n \in UserNamespaces, CreateNamespace(n)
        PROVE  ApiTypeOK'
    <3>1. n \in Namespaces /\ [ns |-> n, exists |-> TRUE] \in NsEvent
      BY BoundsAssumption DEF NsEvent
    <3> QED
      BY <1>1, <2>9, <3>1 DEF CreateNamespace, TypeInv, TypeOK, ApiTypeOK
  <2>10. ASSUME NEW n \in UserNamespaces, DeleteNamespace(n)
         PROVE  ApiTypeOK'
    BY <1>1, <2>10 DEF DeleteNamespace, TypeInv, TypeOK, ApiTypeOK
  <2> QED
    BY <2>2, <2>3, <2>4, <2>6, <2>7, <2>8, <2>9, <2>10 DEF User, UserRequest
<1> QED
  BY <1>1, <1>4
     DEF User, TypeInv, TypeOK, Busy, RecTypeOK, WatchTypeOK, queueVars,
         recVars, watchVars

\* The namespace controller empties and removes namespaces that end.
LEMMA ClusterTypes ==
  ASSUME TypeInv, Cluster
  PROVE  TypeInv'
<1>1. ASSUME NEW k \in Key, Evict(k)
      PROVE  ApiTypeOK'
  BY <1>1, WriteTypes DEF Evict, csVars, nsVars, TypeInv, TypeOK, ApiTypeOK
<1>2. ASSUME NEW n \in Namespaces, NamespaceGone(n)
      PROVE  ApiTypeOK'
  <2>1. [ns |-> n, exists |-> FALSE] \in NsEvent
    BY DEF NsEvent
  <2> QED
    BY <1>2, <2>1
       DEF NamespaceGone, objVars, csVars, TypeInv, TypeOK, ApiTypeOK
<1>3. ApiTypeOK'
  BY <1>1, <1>2 DEF Cluster, NamespaceController
<1> QED
  BY <1>3
     DEF Cluster, TypeInv, TypeOK, Busy, RecTypeOK, WatchTypeOK, queueVars,
         recVars, watchVars

LEMMA RestartTypes ==
  ASSUME TypeInv, Restart
  PROVE  TypeInv'
<1>1. ApiTypeOK' /\ crashes' \in Nat
  BY DEF Restart, TypeInv, TypeOK, ApiTypeOK
<1>2. RecTypeOK'
  BY ReturnTypes DEF Restart, RecTypeOK
<1>3. WatchTypeOK'
  BY DEF Restart, WatchReset, WatchTypeOK, TypeInv, TypeOK, ApiTypeOK
<1>4. Busy'
  BY DEF Restart, Return, WatchReset, Busy
<1> QED BY <1>1, <1>2, <1>3, <1>4 DEF TypeInv, TypeOK

LEMMA InitTypes == Init => TypeInv
<1> SUFFICES ASSUME Init PROVE TypeInv
  OBVIOUS
<1>1. InitStore \in [Key -> Cell(Object)]
  BY InitAssumption DEF InitStore, Cell
<1>2. NoSyncs \in [Syncs -> Cell(ConfigSync)]
  BY DEF NoSyncs, Cell
<1>3. ApiTypeOK /\ crashes \in Nat
  BY <1>1, <1>2, InitAssumption, BoundsAssumption DEF Init, ApiTypeOK
<1>4. RecTypeOK
  BY NoStatusType DEF Init, RecInit, RecTypeOK, Cell
<1>5. WatchTypeOK
  BY DEF Init, WatchIdle, WatchTypeOK
<1>6. Busy
  BY DEF Init, RecInit, WatchIdle, Busy
<1> QED BY <1>3, <1>4, <1>5, <1>6 DEF TypeInv, TypeOK

\* Every step keeps every variable in its type.
LEMMA NextTypes == TypeInv /\ [Next]_vars => TypeInv'
<1> SUFFICES ASSUME TypeInv, [Next]_vars PROVE TypeInv'
  OBVIOUS
<1>1. CASE MainWorker
  BY <1>1, MainWorkerTypes
<1>2. ASSUME NEW c \in Syncs, Timer(c)
      PROVE  TypeInv'
  BY <1>2
     DEF Timer, TimerFires, TypeInv, TypeOK, Busy, ApiTypeOK, RecTypeOK,
         WatchTypeOK, apiVars, recVars, watchVars
<1>3. ASSUME NEW kd \in Kinds, ObjWorker(kd)
      PROVE  TypeInv'
  BY <1>3, ObjStartTypes, ObjStepTypes DEF ObjWorker
<1>4. CASE NsWorker
  BY <1>4, NsWorkerTypes
<1>5. CASE (\E kd \in Kinds : DeliverObj(kd)) \/ DeliverSync \/ DeliverNs
  BY <1>5, DeliverTypes
<1>6. CASE User
  BY <1>6, UserTypes
<1>7. CASE Cluster
  BY <1>7, ClusterTypes
<1>8. CASE Restart
  BY <1>8, RestartTypes
<1>9. CASE UNCHANGED vars
  BY <1>9
     DEF vars, TypeInv, TypeOK, Busy, ApiTypeOK, RecTypeOK, WatchTypeOK,
         apiVars, queueVars, recVars, watchVars
<1> QED
  BY <1>1, <1>2, <1>3, <1>4, <1>5, <1>6, <1>7, <1>8, <1>9
     DEF Next

THEOREM WorkersKnowTheirWork == Spec => []TypeInv
BY InitTypes, NextTypes, PTL DEF Spec

\* Every variable stays in its type, in every cluster and for all bounds.
THEOREM TypeCorrect == Spec => []TypeOK
<1>1. TypeInv => TypeOK
  BY DEF TypeInv
<1> QED BY <1>1, WorkersKnowTheirWork, PTL

=============================================================================
