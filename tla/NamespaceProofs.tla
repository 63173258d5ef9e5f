---------------------------- MODULE NamespaceProofs ----------------------------
(***************************************************************************)
(* Why a namespace that is created is filled at once, for any number of    *)
(* ConfigSyncs that list it, and through crashes: as long as a slot that   *)
(* is asked for is blank, something is under way that leads the worker     *)
(* there. It is a chain: the event of the new namespace, its place on the  *)
(* queue, the stamp, the event of the stamped ConfigSync, its place on the *)
(* queue, and the worker's own registers.                                  *)
(***************************************************************************)
EXTENDS CleanupProofs, WellFoundedInduction

\* Users write anywhere but in the namespaces that specs copy from. A source
\* they create or relabel has no part in the chain: an update that changes
\* labels only passes no filter and waits for the next periodic sync.
SourcesAlone == \A k \in UserKeys, s \in Specs : k.ns # SourceNamespace(s)

\* What is seen of a slot is what was there at first or newer, and an object
\* of nobody's in a source namespace is the one that was there at first
Untouched ==
  \A r \in ObjReads \cup ObjNow :
    /\ VersionOf(InitStore[r.key], r.cell)
    /\ /\ \E s \in Specs : r.key.ns = SourceNamespace(s)
       /\ r.cell.obj # NoObj /\ ~HasSyncLabel(r.cell.obj)
       => r.cell = InitStore[r.key]

\* A list of targets does not depend on the namespaces that exist
Targeted ==
  pc = "prune" /\ CurSpec.targets # {} =>
    targets = getTargetNamespaces(CurSpec, {})

\* The slot of n that the copy of k goes to
Slot(k, n) == [k EXCEPT !.ns = n]

\* A blank slot is empty, is seen to be, and can be filled
BlankSeen == \A k \in blank : k \in Key /\ Blank(k)

\* c asks for a copy of k in n, and nobody has written there since the slot
\* was seen empty
Due(c, k, n) ==
  /\ Live(c) /\ cs[c].obj.spec.targets # {}
  /\ k \in Selected(c)
  /\ n \in getTargetNamespaces(cs[c].obj.spec, nss) \cap (nss \ ending)
  /\ Slot(k, n) \in blank

\* The worker will take c up
Heard(c) == c \in csQueue \/ NewsOf(c) # {}

\* It has, and will come by that slot, or find that it has read too early
AtWork(c, k, n) ==
  /\ cur = c
  /\ \/ snap # cs[c]
     \/ pc = "prune"
     \/ pc = "sync" /\ \/ <<k.kind, n>> \in work
                       \/ \E i \in items : i.key = Slot(k, n)

\* The namespace worker will stamp c, because of n
Announced(c, n) ==
  \/ n \in nsQueue
  \/ \E i \in NsNewsOf(n) : nsWatch[i].exists
  \/ nkey = n /\ \E t \in ntrig : t.sync = c

NothingForgotten ==
  \A c \in Syncs, k \in Key, n \in Namespaces :
    Due(c, k, n) => Heard(c) \/ AtWork(c, k, n) \/ Announced(c, n)

-----------------------------------------------------------------------------
\* What is seen of the sources

LEMMA UntouchedSteps ==
  ASSUME SourcesAlone, ObjInv, Untouched, [Next]_vars
  PROVE  Untouched'
<1> DEFINE Right(r) ==
      /\ VersionOf(InitStore[r.key], r.cell)
      /\ /\ \E s \in Specs : r.key.ns = SourceNamespace(s)
         /\ r.cell.obj # NoObj /\ ~HasSyncLabel(r.cell.obj)
         => r.cell = InitStore[r.key]
<1>0. /\ TypeInv /\ \A r \in ObjReads \cup ObjNow : Right(r)
      /\ store \in [Key -> Cell(Object)]
  BY DEF ObjInv, Untouched, TypeInv, TypeOK, ApiTypeOK
<1> SUFFICES ASSUME NEW r \in (ObjReads \cup ObjNow)' PROVE Right(r)
  BY DEF Untouched
<1>1. ASSUME NEW k \in Key, NEW o \in Object \cup {NoObj}, Write(k, o),
             cache' = cache,
             \/ o = NoObj \/ HasSyncLabel(o)
             \/ \A s \in Specs : k.ns # SourceNamespace(s)
      PROVE  Right(r)
  <2> DEFINE e == [key |-> k, cell |-> [rv |-> store[k].rv + 1, obj |-> o]]
             now == [key |-> k, cell |-> store[k]]
  <2>1. r \in ObjReads \cup ObjNow \/ r = e
    BY <1>0, <1>1, WriteReads
  <2>2. now \in ObjNow /\ now.key = k /\ now.cell = store[k]
    BY DEF ObjNow
  <2>3. InitStore[k].rv <= store[k].rv /\ store[k].rv \in Nat
        /\ InitStore[k].rv \in Nat
    BY <1>0, <2>2 DEF VersionOf, InitStore, Cell
  <2>4. Right(e)
    BY <1>1, <2>3 DEF VersionOf
  <2> HIDE DEF Right, e
  <2> QED BY <1>0, <2>1, <2>4
<1> HIDE DEF Right
<1>2. ASSUME NEW i \in items, CopyWrite(i), cache' = cache
      PROVE  Right(r)
  BY <1>1, <1>2, CopyOverCopy, CopyLabels
<1>3. CASE UNCHANGED objVars
  BY <1>0, <1>3 DEF objVars, ObjReads, ObjNow
<1>4. CASE cache' = cache /\ \E k \in Key : Write(k, NoObj)
  BY <1>1, <1>4
<1>5. CASE cache' = cache /\ \E k \in Key, o \in Object \cup {NoObj} : UserWrite(k, o)
  BY <1>1, <1>5 DEF UserWrite, SourcesAlone
<1>6. CASE \E kd \in Kinds : DeliverObj(kd)
  BY <1>0, <1>6, DeliverReads
<1>7. CASE Restart
  <2>1. cache' = store /\ store' = store /\ \A kd \in Kinds : watch'[kd] = <<>>
    BY <1>7 DEF Restart
  <2>2. r \in ObjNow
    BY <2>1 DEF ObjReads, ObjNow
  <2> QED BY <1>0, <2>2
<1> QED BY <1>0, <1>2, <1>3, <1>4, <1>5, <1>6, <1>7, ObjSteps

\* A source that is selected was there from the start, and is seen.
LEMMA SelectedSeen ==
  ASSUME ObjInv, Untouched, SpecsKnown, NEW c \in Syncs, Live(c),
         NEW k \in Selected(c)
  PROVE  /\ k \in Key /\ k.ns = SourceNamespace(cs[c].obj.spec)
         /\ store[k] = InitStore[k] /\ cache[k] = store[k]
<1> DEFINE spec == cs[c].obj.spec
           now == [key |-> k, cell |-> store[k]]
           seen == [key |-> k, cell |-> cache[k]]
<1>1. /\ k \in Key /\ k.ns = SourceNamespace(spec)
      /\ store[k].obj # NoObj /\ ~HasSyncLabel(store[k].obj)
  BY DEF Selected, listSource
<1>2. spec \in Specs
  <2>1. [sync |-> c, cell |-> cs[c]] \in CsNow
    BY DEF CsNow
  <2> QED BY <2>1 DEF SpecsKnown, Live, Exists
<1>3. now \in ObjNow /\ seen \in ObjReads
  BY <1>1 DEF ObjNow, ObjReads
<1>4. store[k] = InitStore[k]
  BY <1>1, <1>2, <1>3 DEF Untouched
<1>5. VersionOf(InitStore[k], cache[k]) /\ VersionOf(cache[k], store[k])
  BY <1>1, <1>3 DEF Untouched, ObjInv, ObjVersions
<1>6. cache[k].rv \in Nat /\ InitStore[k].rv \in Nat
  BY <1>1 DEF ObjInv, TypeInv, TypeOK, ApiTypeOK, Cell, InitStore
<1> QED BY <1>1, <1>4, <1>5, <1>6 DEF VersionOf

-----------------------------------------------------------------------------
\* When a slot comes to be asked for

\* What is on its way has a last one.
LEMMA LastNews ==
  ASSUME NEW m \in Nat, NEW S \in SUBSET (1..m), S # {}
  PROVE  \E i \in S : \A j \in S : j <= i
<1> DEFINE T == {m - i : i \in S}
<1>1. T \subseteq Nat /\ T # {}
  <2>1. \A i \in S : m - i \in Nat
    OBVIOUS
  <2> QED BY <2>1
<1>2. PICK x \in T : \A y \in T : ~(<<y, x>> \in OpToRel(<, Nat))
  BY <1>1, WFMin, NatLessThanWellFounded
<1>3. \A y \in T : ~(y < x)
  BY <1>1, <1>2 DEF OpToRel
<1>4. PICK i \in S : x = m - i
  OBVIOUS
<1>5. ASSUME NEW j \in S
      PROVE  j <= i
  <2>1. ~(m - j < m - i)
    BY <1>3, <1>4
  <2> QED BY <2>1
<1> QED BY <1>4, <1>5

\* A namespace that exists is shown, or its creation is on its way.
LEMMA ShownOrComing ==
  ASSUME TypeInv, NsNewsComplete, NEW n \in nss
  PROVE  n \in nsCache \/ \E i \in NsNewsOf(n) : nsWatch[i].exists
<1>1. n \in Namespaces /\ Len(nsWatch) \in Nat
  BY DEF TypeInv, TypeOK, ApiTypeOK
<1>2. CASE NsNewsOf(n) = {}
  BY <1>1, <1>2 DEF NsNewsComplete
<1>3. CASE NsNewsOf(n) # {}
  <2>1. PICK i \in NsNewsOf(n) : \A j \in NsNewsOf(n) : j <= i
    BY <1>1, <1>3, LastNews DEF NsNewsOf
  <2> QED BY <1>1, <2>1 DEF NsNewsComplete
<1> QED BY <1>2, <1>3

\* Crashes are counted by nothing else.
LEMMA CrashSteps ==
  ASSUME [Next]_vars, ~Restart PROVE crashes' = crashes
BY DEF Next, MainWorker, Timer, ObjWorker, NsWorker, User, Cluster, DeliverObj,
       DeliverSync, DeliverNs, vars

\* A namespace stops ending only by going.
LEMMA EndingSteps ==
  ASSUME [Next]_vars PROVE ending \cap nss' \subseteq ending'
<1>1. CASE ReconcileStep \/ \E c \in Syncs : ReconcileStart(c) \/ Timer(c)
  BY <1>1 DEF ReconcileStart, ReconcileFails, ReconcileGone, Timer, TimerFires,
              ReconcileAddFinalizer, ReconcileDeleted, ReconcileSync, Begin,
              ReconcileStep, PruneList, CleanList, CleanListFails, SyncList,
              SyncListFails, PruneDelete, CleanDelete, Delete, SyncItem,
              ListFails, PruneDone, CleanDone, SyncDone, apiVars, nsVars
<1>2. CASE NsWorker \/ \E kd \in Kinds : ObjWorker(kd) \/ DeliverObj(kd)
  BY <1>2 DEF NsWorker, NsStart, NsFails, NsReconcile, NsStep, NsStamp,
              ObjWorker, ObjStart, ObjFails, ObjSkip, ObjDeleted, ObjChanged,
              ObjTake, ObjStep, ObjDeleteCopy, ObjStamp, DeliverObj, apiVars,
              nsVars
<1>3. CASE User
  BY <1>3 DEF User, UserRequest, Request, UserCreate, UserUpdate, UserDelete,
              CreateConfigSync, EditConfigSync, DeleteConfigSync,
              CreateNamespace, DeleteNamespace
<1>4. CASE Cluster
  BY <1>4 DEF Cluster, NamespaceController, Evict, NamespaceGone, objVars,
              nsVars
<1>5. CASE DeliverSync \/ DeliverNs \/ Restart \/ UNCHANGED vars
  BY <1>5 DEF DeliverSync, DeliverNs, Restart, vars, apiVars, nsVars
<1> QED BY <1>1, <1>2, <1>3, <1>4, <1>5 DEF Next, MainWorker

\* A list of targets leads to the same namespaces whatever exists.
LEMMA ListedTargets ==
  ASSUME NEW spec, spec.targets # {}, NEW N
  PROVE  /\ getTargetNamespaces(spec, N) = getTargetNamespaces(spec, {})
         /\ \A n \in getTargetNamespaces(spec, N) :
              NamespaceWakes(spec, n) /\ n \notin SystemNamespaces
BY DEF getTargetNamespaces, filterNamespaces, NamespaceWakes

\* A blank slot comes to be asked for by a change of the ConfigSync or with
\* its namespace, and both are news.
LEMMA DueSteps ==
  ASSUME CsInv, CsInv', ObjInv, ObjInv', Untouched, Untouched', SpecsKnown',
         [Next]_vars, ~Restart, TypeInv',
         \A x \in blank' : x \in blank \/ Opened(x),
         NEW c \in Syncs, NEW k \in Key, NEW n \in Namespaces,
         Due(c, k, n)', NewsOf(c)' = {}
  PROVE  Due(c, k, n) \/ Announced(c, n)'
<1>0. /\ TypeInv /\ Moves /\ cs'[c] = cs[c]
      /\ store \in [Key -> Cell(Object)] /\ store' \in [Key -> Cell(Object)]
  BY StepsMove, NewsOfSteps DEF ObjInv, TypeInv, TypeOK, ApiTypeOK
<1> DEFINE spec == cs[c].obj.spec
<1>1. /\ Live(c) /\ Live(c)' /\ spec.targets # {} /\ k \in Selected(c)'
      /\ n \in getTargetNamespaces(spec, nss') /\ n \in nss' /\ n \notin ending'
      /\ Slot(k, n) \in blank'
  BY <1>0 DEF Due, Live, Exists
<1>2. k \in Selected(c)
  <2>1. /\ k \in listSource(store', k.kind, spec)
        /\ k.kind \in EnabledKinds(spec) /\ spec.selector[k.kind].valid
    BY <1>0, <1>1 DEF Selected, listSource
  <2>2. store'[k] = InitStore[k]
    <3>1. [key |-> k, cell |-> store'[k]] \in ObjNow'
      BY DEF ObjNow
    <3>2. [sync |-> c, cell |-> cs'[c]] \in CsNow'
      BY DEF CsNow
    <3>3. spec \in Specs
      BY <1>0, <1>1, <3>2 DEF SpecsKnown, Live, Exists
    <3> QED BY <2>1, <3>1, <3>3 DEF Untouched, listSource
  <2>3. InitStore[k].rv <= store[k].rv
    <3>1. [key |-> k, cell |-> store[k]] \in ObjNow
      BY DEF ObjNow
    <3> QED BY <3>1 DEF Untouched, VersionOf
  <2>4. store[k].rv \in Nat /\ store'[k].rv \in Nat
    BY <1>0 DEF Cell
  <2>5. store'[k] = store[k]
    BY <1>0, <2>2, <2>3, <2>4 DEF Moves
  <2> QED BY <2>1, <2>5 DEF Selected, listSource
<1>3. Slot(k, n).ns = n
  BY DEF Slot, Key
<1>4. Slot(k, n) \in blank \/ n \notin nss
  BY <1>1, <1>3, CrashSteps DEF Opened
<1>5. n \notin ending
  BY <1>1, EndingSteps
<1>6. n \in getTargetNamespaces(spec, nss)
  BY <1>1, ListedTargets
<1>7. CASE n \in nss
  BY <1>1, <1>2, <1>4, <1>5, <1>6, <1>7 DEF Due
<1>8. CASE n \notin nss
  <2>1. Appears(n)
    <3>1. \/ nss' = nss
          \/ \E x \in Namespaces : Appears(x) \/ Vanishes(x)
      BY NsSteps DEF DeliverNs
    <3> QED BY <1>1, <1>8, <3>1 DEF Appears, Vanishes
  <2> DEFINE e == [ns |-> n, exists |-> TRUE]
  <2>2. nsWatch' = Append(nsWatch, e) /\ nsWatch \in Seq(NsEvent)
    BY <1>0, <2>1 DEF Appears, TypeInv, TypeOK, ApiTypeOK
  <2>3. e.ns = n /\ e.exists
    OBVIOUS
  <2> HIDE DEF e
  <2>4. /\ Len(nsWatch) + 1 \in 1..Len(nsWatch')
        /\ nsWatch'[Len(nsWatch) + 1] = e
    BY <2>2
  <2>5. Len(nsWatch) + 1 \in NsNewsOf(n)' /\ nsWatch'[Len(nsWatch) + 1].exists
    BY <2>3, <2>4 DEF NsNewsOf
  <2> QED BY <2>5 DEF Announced
<1> QED BY <1>7, <1>8

-----------------------------------------------------------------------------
\* The links of the chain

\* The worker takes up what it was told of; what it lets go, there is news of.
LEMMA HeardSteps ==
  ASSUME LoopInv, [Next]_vars, ~Restart, NEW c \in Syncs, Live(c), Heard(c)
  PROVE  \/ Heard(c)'
         \/ cur' = c /\ (snap' # cs'[c] \/ pc' = "prune")
<1>0. CsInv /\ TypeInv /\ NewsComplete /\ IdleHasNone /\ c # None
  BY ApiAssumption DEF LoopInv, CsInv
<1> SUFFICES ASSUME NewsOf(c)' = {}, c \notin csQueue'
             PROVE  cur' = c /\ (snap' # cs'[c] \/ pc' = "prune")
  BY DEF Heard, NewsOf
<1>1. ~DeliverSync
  <2>1. ASSUME DeliverSync
        PROVE  FALSE
    <3>1. csQueue' = csQueue \cup {Head(csWatch).sync}
      BY <2>1 DEF DeliverSync
    <3>2. c = Head(csWatch).sync \/ NewsOf(c) = {}
      BY <1>0, NewsOfSteps
    <3> QED BY <3>1, <3>2 DEF Heard
  <2> QED BY <2>1
<1>2. c \in csQueue /\ csCache[c] = cs[c] /\ cs'[c] = cs[c]
  <2>1. NewsOf(c) = {} /\ cs'[c] = cs[c]
    BY <1>0, <1>1, NewsOfSteps
  <2> QED BY <1>0, <2>1 DEF Heard, NewsComplete
<1>3. ~ReconcileGone(c)
  BY <1>0, <1>2 DEF ReconcileGone, LoopInv, Live, Exists
<1>4. ASSUME NEW x \in Syncs, ReconcileGone(x)
      PROVE  FALSE
  BY <1>2, <1>3, <1>4 DEF ReconcileGone
<1>5. ~ReturnError
  BY <1>2 DEF ReturnError
<1>6. CleanDone => UNCHANGED csQueue
  BY <1>5 DEF CleanDone, queueVars
<1>7. SyncDone => UNCHANGED csQueue
  BY <1>5 DEF SyncDone, RequeueAfter
<1>8. PICK x \in Syncs : Begin(x)
  BY <1>1, <1>2, <1>4, <1>5, <1>6, <1>7, QueueSteps DEF Timer, TimerFires
<1>9. x = c /\ cur' = c /\ pc = "idle" /\ cur = None
  BY <1>0, <1>2, <1>8 DEF Begin, Take, IdleHasNone
<1>10. ReconcileDeleted(c) \/ ReconcileSync(c)
  BY <1>0, <1>9, WorkerSteps DEF PruneDone, ReconcileDeleted, ReconcileSync, Begin
<1>11. ~ReconcileDeleted(c)
  BY <1>2 DEF ReconcileDeleted, CanClean, Live
<1> QED BY <1>9, <1>10, <1>11 DEF ReconcileSync

LEMMA TargetedSteps ==
  ASSUME Targeted, [Next]_vars
  PROVE  Targeted'
<1>1. CASE Return
  BY <1>1 DEF Return, Targeted
<1>2. ASSUME NEW c \in Syncs, ReconcileDeleted(c) \/ ReconcileSync(c)
      PROVE  Targeted'
  <2>1. /\ snap' = csCache[c]
        /\ targets' = getTargetNamespaces(csCache[c].obj.spec, nsCache)
    BY <1>2 DEF ReconcileDeleted, ReconcileSync, Begin
  <2> QED BY <2>1, ListedTargets DEF Targeted, CurSpec
<1>3. CASE PruneDone
  BY <1>3 DEF PruneDone, Targeted
<1>4. ASSUME UNCHANGED <<pc, snap, targets>>
      PROVE  Targeted'
  BY <1>4 DEF Targeted, CurSpec
<1>5. CASE ReconcileStep
  BY <1>1, <1>3, <1>4, <1>5
     DEF ReconcileStep, PruneList, CleanList, CleanListFails, SyncList,
         SyncListFails, PruneDelete, CleanDelete, Delete, SyncItem, ListFails,
         CleanDone, SyncDone, ReturnError
<1>6. ASSUME NEW c \in Syncs, ReconcileStart(c)
      PROVE  Targeted'
  BY <1>2, <1>4, <1>6 DEF ReconcileStart, ReconcileFails, ReconcileGone,
                          ReconcileAddFinalizer, recVars
<1>7. CASE \/ UNCHANGED vars \/ DeliverSync \/ DeliverNs \/ User \/ Cluster
           \/ NsWorker \/ \E c \in Syncs : Timer(c)
           \/ \E kd \in Kinds : DeliverObj(kd) \/ ObjWorker(kd)
  BY <1>4, <1>7 DEF vars, DeliverSync, DeliverNs, DeliverObj, User, Cluster,
                    NsWorker, ObjWorker, Timer, TimerFires, recVars
<1> QED BY <1>1, <1>5, <1>6, <1>7 DEF Next, MainWorker, Restart

\* The worker comes by the slot, or starts again.
LEMMA AtWorkSteps ==
  ASSUME faults = 0, CsInv, ObjInv, IdleHasNone, Untouched, SpecsKnown,
         Targeted, BlankSeen, BlankSeen', [Next]_vars, ~Restart,
         NEW c \in Syncs, NEW k \in Key, NEW n \in Namespaces,
         Due(c, k, n), Slot(k, n) \in blank', cs'[c] = cs[c],
         AtWork(c, k, n)
  PROVE  Heard(c)' \/ AtWork(c, k, n)'
<1>0. /\ TypeInv /\ CsVersions /\ SnapFits /\ cur = c /\ c # None
      /\ ~Fail /\ Slot(k, n) \in Key /\ MaxRV \in Nat
      /\ store \in [Key -> Cell(Object)]
  <2>1. TypeInv /\ CsVersions /\ SnapFits /\ cur = c /\ c # None
    BY ApiAssumption DEF CsInv, AtWork
  <2>2. ~Fail /\ MaxRV \in Nat
    BY BoundsAssumption DEF Fail
  <2>3. Slot(k, n) \in Key
    BY DEF Slot, Key
  <2> QED BY <2>1, <2>2, <2>3 DEF TypeInv, TypeOK, ApiTypeOK
<1>1. CASE UNCHANGED recVars
  BY <1>1 DEF recVars, AtWork
<1>2. ASSUME NEW x \in Syncs, ReconcileStart(x)
      PROVE  FALSE
  BY <1>0, <1>2 DEF ReconcileStart, ReconcileFails, ReconcileGone,
                    ReconcileAddFinalizer, ReconcileDeleted, ReconcileSync,
                    Begin, Take, IdleHasNone
<1>3. ASSUME ReturnError
      PROVE  Heard(c)'
  BY <1>0, <1>3 DEF ReturnError, Heard
<1>4. ASSUME CsCanUpdate(cur, snap.rv)
      PROVE  snap = cs[c]
  <2>1. [sync |-> cur, cell |-> snap] \in CsReads
    BY <1>0 DEF CsReads, Held
  <2> QED BY <1>0, <1>4, <2>1, ReadsCurrent DEF CsCanUpdate
<1>5. CASE ReconcileStep /\ snap # cs[c]
  <2>1. CASE UNCHANGED <<cur, snap>>
    BY <1>0, <1>5, <2>1 DEF AtWork
  <2>2. CASE ListFails \/ CleanDone \/ SyncDone
    BY <1>0, <1>3, <1>4, <1>5, <2>2 DEF ListFails, CleanDone, SyncDone
  <2> QED BY <1>5, <2>1, <2>2
          DEF ReconcileStep, PruneList, CleanList, CleanListFails, SyncList,
              SyncListFails, PruneDelete, CleanDelete, Delete, SyncItem,
              PruneDone
<1>6. CASE ReconcileStep /\ snap = cs[c] /\ pc = "prune"
  <2>1. CASE UNCHANGED <<pc, cur>>
    BY <1>0, <1>6, <2>1 DEF AtWork
  <2>2. CASE PruneDone
    <3>1. /\ k.kind \in EnabledKinds(CurSpec)
          /\ n \in getTargetNamespaces(CurSpec, nss)
          /\ CurSpec.targets # {}
      BY <1>6 DEF Due, Selected, listSource, CurSpec
    <3>2. <<k.kind, n>> \in work'
      BY <1>6, <2>2, <3>1, ListedTargets DEF PruneDone, Targeted
    <3> QED BY <1>0, <2>2, <3>2 DEF PruneDone, AtWork
  <2> QED BY <1>0, <1>6, <2>1, <2>2
          DEF ReconcileStep, PruneList, CleanList, CleanListFails, SyncList,
              SyncListFails, PruneDelete, CleanDelete, Delete, SyncItem,
              ListFails, CleanDone, SyncDone
<1>7. CASE ReconcileStep /\ snap = cs[c] /\ pc = "sync"
  <2>0. \/ <<k.kind, n>> \in work
        \/ \E i \in items : i.key = Slot(k, n)
    BY <1>7 DEF AtWork
  <2>1. ASSUME NEW w \in work, SyncList(w)
        PROVE  AtWork(c, k, n)'
    <3>1. /\ UNCHANGED <<pc, cur>> /\ items = {} /\ work' = work \ {w}
          /\ items' = {[key |-> [x EXCEPT !.ns = w[2]], obj |-> cache[x].obj] :
                         x \in listSource(cache, w[1], CurSpec)}
      BY <2>1 DEF SyncList
    <3>2. CASE w = <<k.kind, n>>
      <4>1. k \in Selected(c) /\ Live(c)
        BY DEF Due
      <4>2. cache[k] = store[k]
        BY <4>1, SelectedSeen
      <4>3. k \in listSource(cache, w[1], CurSpec) /\ w[2] = n
        BY <1>7, <3>2, <4>1, <4>2 DEF Selected, listSource, CurSpec
      <4> DEFINE i == [key |-> [k EXCEPT !.ns = w[2]], obj |-> cache[k].obj]
      <4>4. i \in items' /\ i.key = Slot(k, n)
        BY <3>1, <4>3 DEF Slot
      <4> QED BY <1>0, <1>7, <3>1, <4>4 DEF AtWork
    <3>3. CASE w # <<k.kind, n>>
      BY <1>0, <1>7, <2>0, <3>1, <3>3 DEF AtWork
    <3> QED BY <3>2, <3>3
  <2>2. ASSUME NEW w \in work, SyncListFails(w)
        PROVE  AtWork(c, k, n)'
    <3>1. /\ UNCHANGED <<pc, cur, items>> /\ work' = work \ {w}
          /\ ~CurSpec.selector[w[1]].valid
      BY <1>0, <2>2 DEF SyncListFails
    <3>2. CurSpec.selector[k.kind].valid
      BY <1>7 DEF Due, Selected, listSource, CurSpec
    <3>3. w # <<k.kind, n>>
      BY <3>1, <3>2
    <3> QED BY <1>0, <1>7, <2>0, <3>1, <3>3 DEF AtWork
  <2>3. ASSUME NEW i \in items, SyncItem(i)
        PROVE  AtWork(c, k, n)'
    <3>1. UNCHANGED <<pc, cur, work>> /\ items' = items \ {i}
      BY <2>3 DEF SyncItem
    <3>2. i.key # Slot(k, n)
      <4>1. SUFFICES ASSUME i.key = Slot(k, n)
                     PROVE  FALSE
        OBVIOUS
      <4>2. /\ store[i.key].obj = NoObj /\ cache[i.key].obj = NoObj
            /\ store[i.key].rv < MaxRV
        BY <4>1 DEF Due, BlankSeen, Blank, SeenEmpty
      <4>3. i.key.ns = n /\ n \in nss \ ending
        BY <4>1 DEF Due, Slot, Key
      <4>4. Managed(cache[i.key].obj) /\ Accepted(i.key, cache[i.key], CopyFor(i))
        BY <1>0, <4>2, <4>3 DEF Managed, Accepted, CanCreate
      <4>5. CopyWrite(i)
        BY <1>0, <2>3, <4>4 DEF SyncItem, CopyWrite
      <4>6. CopyFor(i) # NoObj /\ Write(i.key, CopyFor(i))
        BY <4>5, CopyLabels DEF CopyWrite
      <4>7. store'[i.key].obj # NoObj
        BY <1>0, <4>1, <4>2, <4>6 DEF Write
      <4>8. store'[i.key].obj = NoObj
        BY <4>1 DEF BlankSeen, Blank, SeenEmpty
      <4> QED BY <4>7, <4>8
    <3> QED BY <1>0, <1>7, <2>0, <3>1, <3>2 DEF AtWork
  <2>4. ~SyncDone
    BY <2>0 DEF SyncDone
  <2> QED BY <1>0, <1>7, <2>1, <2>2, <2>3, <2>4
          DEF ReconcileStep, PruneList, CleanList, CleanListFails,
              PruneDelete, CleanDelete, ListFails, PruneDone, CleanDone
<1>8. CASE \/ UNCHANGED vars \/ DeliverSync \/ DeliverNs \/ User \/ Cluster
           \/ NsWorker \/ \E x \in Syncs : Timer(x)
           \/ \E kd \in Kinds : DeliverObj(kd) \/ ObjWorker(kd)
  BY <1>1, <1>8 DEF vars, DeliverSync, DeliverNs, DeliverObj, User, Cluster,
                    NsWorker, ObjWorker, Timer, TimerFires
<1> QED BY <1>2, <1>5, <1>6, <1>7, <1>8 DEF Next, MainWorker, AtWork

\* What a step does to the namespace worker and its queue.
LEMMA NsQueueSteps ==
  ASSUME [Next]_vars
  PROVE  UNCHANGED <<nsQueue, nkey, ntrig>> \/ DeliverNs \/ NsWorker \/ Restart
<1>1. CASE \E kd \in Kinds : ObjWorker(kd) \/ DeliverObj(kd)
  BY <1>1 DEF ObjWorker, ObjStart, ObjFails, ObjSkip, ObjDeleted, ObjChanged,
              ObjTake, ObjStep, ObjDeleteCopy, ObjStamp, DeliverObj, watchVars
<1>2. CASE \/ UNCHANGED vars \/ MainWorker \/ DeliverSync \/ User \/ Cluster
           \/ \E c \in Syncs : Timer(c)
  BY <1>2 DEF vars, MainWorker, DeliverSync, User, Cluster, Timer, watchVars
<1> QED BY <1>1, <1>2 DEF Next

\* The event of a new namespace leads to its place on the queue, that to the
\* stamps, and a stamp to news of the ConfigSync, or back to the queue.
LEMMA AnnouncedSteps ==
  ASSUME CsInv, NewsComplete, NsNewsComplete, [Next]_vars, ~Restart,
         NEW c \in Syncs, NEW n \in nss, Live(c), cs[c].obj.spec.targets # {},
         n \in getTargetNamespaces(cs[c].obj.spec, nss), NewsOf(c)' = {},
         Announced(c, n)
  PROVE  Announced(c, n)'
<1>0. /\ TypeInv /\ n \in Namespaces /\ n # None /\ cs'[c] = cs[c]
      /\ NamespaceWakes(cs[c].obj.spec, n) /\ n \notin SystemNamespaces
      /\ nsWatch \in Seq(NsEvent) /\ cs \in [Syncs -> Cell(ConfigSync)]
  BY ApiAssumption, NewsOfSteps, ListedTargets
     DEF CsInv, TypeInv, TypeOK, ApiTypeOK
<1> DEFINE Comes == \E i \in NsNewsOf(n) : nsWatch[i].exists
<1>1. ASSUME UNCHANGED nsWatch, Comes
      PROVE  Announced(c, n)'
  BY <1>1 DEF Announced, NsNewsOf
<1>2. CASE DeliverNs
  <2>1. CASE ~Comes
    BY <1>2, <2>1 DEF DeliverNs, Announced
  <2>2. CASE Comes
    <3>1. PICK i \in NsNewsOf(n) : nsWatch[i].exists
      BY <2>2
    <3>2. /\ i \in 1..Len(nsWatch) /\ nsWatch[i].ns = n
          /\ nsWatch' = Tail(nsWatch) /\ Head(nsWatch) = nsWatch[1]
          /\ \A j \in 1..Len(nsWatch) :
               j # 1 => /\ j - 1 \in 1..Len(nsWatch')
                        /\ nsWatch'[j - 1] = nsWatch[j]
      BY <1>0, <1>2, <3>1 DEF DeliverNs, NsNewsOf
    <3>3. CASE i = 1
      BY <1>0, <1>2, <3>1, <3>2, <3>3
         DEF DeliverNs, NamespaceCreateFunc, Announced
    <3>4. CASE i # 1
      <4>1. i - 1 \in NsNewsOf(n)' /\ nsWatch'[i - 1].exists
        BY <3>1, <3>2, <3>4 DEF NsNewsOf
      <4> QED BY <4>1 DEF Announced
    <3> QED BY <3>3, <3>4
  <2> QED BY <2>1, <2>2
<1>3. CASE NsWorker
  <2>1. UNCHANGED nsWatch
    BY <1>3 DEF NsWorker, NsStart, NsFails, NsReconcile, NsStep, NsStamp,
                apiVars, nsVars
  <2>2. ASSUME NEW m \in Namespaces, NsReconcile(m), ~Comes
        PROVE  Announced(c, n)'
    <3>1. nkey = None /\ n \in nsQueue /\ nsQueue' = nsQueue \ {m}
          /\ UNCHANGED csWatch
      BY <1>0, <2>2 DEF NsReconcile, Announced, apiVars, csVars
    <3>2. CASE m # n
      BY <3>1, <3>2 DEF Announced
    <3>3. CASE m = n
      <4>1. n \in nsCache
        BY <1>0, <2>2, ShownOrComing
      <4>2. csCache[c] = cs[c]
        BY <3>1 DEF NewsOf, NewsComplete
      <4> DEFINE S == {x \in Syncs : /\ n \in nsCache /\ n \notin SystemNamespaces
                                     /\ csCache[x].obj # NoObj
                                     /\ NamespaceWakes(csCache[x].obj.spec, n)}
                 t == [sync |-> c, cell |-> csCache[c]]
      <4>3. c \in S
        BY <1>0, <4>1, <4>2 DEF Live, Exists
      <4>4. NsWorkOn(n, Stamps(S))
        BY <2>2, <3>3 DEF NsReconcile
      <4> HIDE DEF S
      <4>5. t \in Stamps(S) /\ t.sync = c
        BY <4>3 DEF Stamps
      <4>6. nkey' = n /\ t \in ntrig'
        BY <4>4, <4>5 DEF NsWorkOn
      <4> QED BY <4>5, <4>6 DEF Announced
    <3> QED BY <3>2, <3>3
  <2>3. ASSUME NEW t \in ntrig, NsStamp(t), ~Comes
        PROVE  Announced(c, n)'
    <3>1. CASE StampFails(t) /\ nsQueue' = nsQueue \cup {nkey}
      BY <2>3, <3>1 DEF Announced
    <3>2. CASE StampWrite(t) /\ NsWorkOn(nkey, ntrig \ {t}) /\ UNCHANGED nsQueue
      <4>1. CASE n \in nsQueue
        BY <3>2, <4>1 DEF Announced
      <4>2. CASE n \notin nsQueue
        <5>1. PICK u \in ntrig : u.sync = c /\ nkey = n
          BY <2>3, <4>2 DEF Announced
        <5>2. t.sync # c
          BY <1>0, <3>2 DEF StampWrite, CsWrite, Cell
        <5>3. nkey' = n /\ u \in ntrig'
          BY <3>2, <5>1, <5>2 DEF NsWorkOn
        <5> QED BY <5>1, <5>3 DEF Announced
      <4> QED BY <4>1, <4>2
    <3> QED BY <2>3, <3>1, <3>2 DEF NsStamp
  <2>4. ASSUME NEW m \in Namespaces, NsFails(m)
        PROVE  UNCHANGED <<nsQueue, nkey, ntrig>>
    BY <2>4 DEF NsFails, watchVars
  <2> QED BY <1>1, <1>3, <2>1, <2>2, <2>3, <2>4
          DEF NsWorker, NsStart, NsStep, Announced
<1>4. CASE UNCHANGED <<nsQueue, nkey, ntrig>> /\ ~DeliverNs
  <2>1. CASE ~Comes
    BY <1>4, <2>1 DEF Announced
  <2>2. ASSUME NEW i \in NsNewsOf(n), nsWatch[i].exists,
               NEW x, nsWatch' = Append(nsWatch, x)
        PROVE  Announced(c, n)'
    <3>1. i \in 1..Len(nsWatch) /\ nsWatch[i].ns = n
      BY <2>2 DEF NsNewsOf
    <3>2. i \in 1..Len(nsWatch') /\ nsWatch'[i] = nsWatch[i]
      BY <1>0, <2>2, <3>1
    <3>3. i \in NsNewsOf(n)'
      BY <3>1, <3>2 DEF NsNewsOf
    <3> QED BY <2>2, <3>2, <3>3 DEF Announced
  <2> QED BY <1>1, <1>4, <2>1, <2>2, NsSteps DEF Appears, Vanishes
<1> QED BY <1>2, <1>3, <1>4, NsQueueSteps

-----------------------------------------------------------------------------
\* The chain

ServedInv ==
  /\ NewsInv /\ LoopInv /\ SpecsKnown /\ Untouched /\ Targeted
  /\ faults = 0 /\ BlankSeen /\ NothingForgotten

LEMMA NothingForgottenSteps ==
  ASSUME ServedInv, NewsInv', LoopInv', SpecsKnown', Untouched', BlankSeen',
         [Next]_vars, \A x \in blank' : x \in blank \/ Opened(x)
  PROVE  NothingForgotten'
<1>0. /\ CsInv /\ CsInv' /\ ObjInv /\ ObjInv' /\ TypeInv' /\ NewsComplete
      /\ NsNewsComplete /\ IdleHasNone /\ LoopInv /\ Untouched /\ SpecsKnown
      /\ Targeted /\ faults = 0 /\ BlankSeen /\ NothingForgotten
  BY DEF ServedInv, NewsInv, LifeInv, LoopInv, ObjInv
<1> SUFFICES ASSUME NEW c \in Syncs, NEW k \in Key, NEW n \in Namespaces,
                    Due(c, k, n)', ~Heard(c)'
             PROVE  AtWork(c, k, n)' \/ Announced(c, n)'
  BY DEF NothingForgotten, Due, Live, Exists, Selected, Slot, Heard, NewsOf,
         AtWork, Announced, NsNewsOf
<1>1. NewsOf(c)' = {} /\ ~Restart
  <2>1. Restart => c \in csQueue'
    BY DEF Restart, Due, Live, Exists
  <2> QED BY <2>1 DEF Heard
<1>2. cs'[c] = cs[c] /\ Slot(k, n) \in blank'
  BY <1>0, <1>1, NewsOfSteps DEF Due
<1>3. CASE Due(c, k, n)
  <2>1. /\ Live(c) /\ cs[c].obj.spec.targets # {} /\ n \in nss
        /\ n \in getTargetNamespaces(cs[c].obj.spec, nss)
    BY <1>3 DEF Due
  <2>2. CASE Heard(c)
    <3>1. cur' = c /\ (snap' # cs'[c] \/ pc' = "prune")
      BY <1>0, <1>1, <2>1, <2>2, HeardSteps
    <3> QED BY <3>1 DEF AtWork
  <2>3. CASE AtWork(c, k, n)
    BY <1>0, <1>1, <1>2, <1>3, <2>3, AtWorkSteps
  <2>4. CASE Announced(c, n)
    BY <1>0, <1>1, <2>1, <2>4, AnnouncedSteps
  <2> QED BY <1>0, <1>3, <2>2, <2>3, <2>4 DEF NothingForgotten
<1> QED BY <1>0, <1>1, <1>3, DueSteps

\* Where no call fails and users leave the sources alone, a namespace that is
\* created, for the first time or again, is filled without waiting for a
\* period, and so is one found empty when the operator starts, whatever else
\* is edited and however often it crashes: when everything is quiet, no slot
\* that a ConfigSync with a list of targets asks for is still blank. A slot
\* that the cache showed filled when its namespace came back is not blank
\* (NewNamespaceServed).
THEOREM NewNamespacesServed ==
  ASSUME MaxFaults = 0, SourcesAlone
  PROVE  HistSpec => []NewNamespaceServed
<1>1. HistInit => /\ SpecsKnown /\ Untouched /\ Targeted /\ faults = 0
                  /\ BlankSeen /\ NothingForgotten
  <2> SUFFICES ASSUME HistInit
               PROVE  /\ SpecsKnown /\ Untouched /\ Targeted /\ faults = 0
                      /\ BlankSeen /\ NothingForgotten
    OBVIOUS
  <2>1. /\ \A kd \in Kinds : watch[kd] = <<>>
        /\ \A c \in Syncs : cs[c].obj = NoObj
        /\ pc = "idle" /\ faults = 0 /\ store = InitStore /\ cache = InitStore
    BY DEF HistInit, Init, RecInit, WatchIdle, NoSyncs
  <2>2. SpecsKnown
    BY SpecsKnownInit DEF HistInit
  <2>3. ASSUME NEW r \in ObjReads \cup ObjNow
        PROVE  r.key \in Key /\ r.cell = InitStore[r.key]
    BY <2>1 DEF ObjReads, ObjNow
  <2>4. \A k \in Key : InitStore[k].rv \in Nat
    BY DEF InitStore
  <2>5. Untouched
    BY <2>3, <2>4 DEF Untouched, VersionOf
  <2>6. BlankSeen
    BY DEF HistInit, BlankSeen
  <2> QED BY <2>1, <2>2, <2>5, <2>6
          DEF Targeted, NothingForgotten, Due, Live, Exists
<1>2. ServedInv /\ NewsInv' /\ LoopInv' /\ [Next /\ Records]_histVars
        => ServedInv'
  <2> SUFFICES ASSUME ServedInv, NewsInv', LoopInv', [Next /\ Records]_histVars
               PROVE  ServedInv'
    OBVIOUS
  <2>1. CsInv /\ ObjInv /\ TypeInv /\ [Next]_vars
    BY DEF ServedInv, NewsInv, LifeInv, ObjInv, LoopInv, histVars
  <2>2. SpecsKnown' /\ Untouched' /\ Targeted' /\ faults' = 0
    BY <2>1, SpecsKnownSteps, UntouchedSteps, TargetedSteps, NoFaults
       DEF ServedInv
  <2>3. BlankSeen' /\ \A x \in blank' : x \in blank \/ Opened(x)
    <3>1. CASE Records
      BY <3>1 DEF Records, BlankSeen, Blank, SeenEmpty
    <3>2. CASE UNCHANGED histVars
      BY <3>2 DEF ServedInv, histVars, vars, apiVars, objVars, BlankSeen,
                  Blank, SeenEmpty
    <3> QED BY <3>1, <3>2
  <2> QED BY <2>1, <2>2, <2>3, NothingForgottenSteps DEF ServedInv
<1>3. ServedInv => NewNamespaceServed
  <2> SUFFICES ASSUME ServedInv, Quiet, NEW c \in Syncs, Live(c),
                      cs[c].obj.spec.targets # {}, NEW w \in Wanted(c),
                      w.to \in blank
               PROVE  FALSE
    BY DEF NewNamespaceServed
  <2>1. PICK k \in Selected(c),
             n \in getTargetNamespaces(cs[c].obj.spec, nss) \cap (nss \ ending) :
          w = [from |-> k, to |-> Slot(k, n)]
    BY DEF Wanted, Slot
  <2>2. k \in Key /\ n \in Namespaces /\ n # None /\ c # None
    BY ApiAssumption
       DEF ServedInv, LoopInv, CsInv, TypeInv, TypeOK, ApiTypeOK, Selected,
           listSource
  <2>3. Due(c, k, n)
    BY <2>1 DEF Due
  <2>4. ~Heard(c) /\ ~AtWork(c, k, n) /\ ~Announced(c, n)
    BY <2>2 DEF ServedInv, LoopInv, IdleHasNone, Quiet, Heard, NewsOf, AtWork,
                Announced, NsNewsOf
  <2> QED BY <2>2, <2>3, <2>4 DEF ServedInv, NothingForgotten
<1>4. NewsInv /\ LoopInv /\ SpecsKnown /\ Untouched /\ Targeted /\ faults = 0
        /\ BlankSeen /\ NothingForgotten => ServedInv
  BY DEF ServedInv
<1>5. HistInit => Init
  BY DEF HistInit
<1>6. [Next /\ Records]_histVars => [Next]_vars
  BY DEF histVars
<1>7. HistSpec => Spec
  BY <1>5, <1>6, PTL DEF HistSpec, Spec
<1>8. HistSpec => []NewsInv
  BY <1>7, NewsInvariant, PTL
<1>9. HistSpec => []LoopInv
  BY <1>5, <1>6, LoopInit, LoopInvSteps, PTL DEF HistSpec
<1> QED BY <1>1, <1>2, <1>3, <1>4, <1>8, <1>9, PTL DEF HistSpec

=============================================================================
