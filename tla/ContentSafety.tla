---------------------------- MODULE ContentSafety ----------------------------
(***************************************************************************)
(* Why a copy holds what its labels say, for any cluster whose webhook     *)
(* keeps its users from changing copies. Objects without the synced-from   *)
(* label hold what users wrote into their namespace, in the caches as in   *)
(* the API server; the worker keeps one spec for a whole sync, and copies  *)
(* only such objects out of its source namespace, only into its targets.   *)
(***************************************************************************)
EXTENDS ConfigSyncSafety

\* Every object with the synced-from label names the ConfigSync it is for
Labelled ==
  \A k \in Key :
    store[k].obj # NoObj /\ HasSyncLabel(store[k].obj) =>
      store[k].obj.by \in Syncs

\* An object that is nobody's copy holds data of its own namespace
AtHome(r) ==
  r.cell.obj # NoObj /\ ~HasSyncLabel(r.cell.obj) =>
    r.cell.obj.data.at = r.key.ns
HomeMade == \A r \in ObjReads \cup ObjNow : AtHome(r)

\* Where the worker copies to, and what
Routed ==
  /\ pc \in {"prune", "sync"} =>
       targets \cap (SystemNamespaces \cup {SourceNamespace(CurSpec)}) = {}
  /\ pc = "sync" => work \subseteq Kinds \X targets
  /\ items # {} => pc = "sync"
  /\ \A i \in items :
       i.key.ns \in targets /\ i.obj.data.at = SourceNamespace(CurSpec)

ContentInv == ObjInv /\ Labelled /\ HomeMade /\ Routed /\ CopyProvenance

-----------------------------------------------------------------------------
\* The labels of copies

LEMMA WrittenSlot ==
  ASSUME TypeInv, NEW k \in Key, NEW o \in Object \cup {NoObj}, Write(k, o)
  PROVE  /\ store'[k].obj = o
         /\ \A x \in Key : x # k => store'[x] = store[x]
BY DEF Write, TypeInv, TypeOK, ApiTypeOK

\* What a copy is labelled with.
LEMMA CopyLabels ==
  ASSUME ObjInv, NEW i \in items, CopyWrite(i)
  PROVE  cur \in Syncs /\ HasSyncLabel(CopyFor(i))
         /\ CopyFor(i).by = cur /\ CopyFor(i) # NoObj
<1>1. /\ cur \in Syncs /\ i.obj \in Object
      /\ SourceNamespace(CurSpec) \in Namespaces
  BY WorkerTypes
     DEF CopyWrite, SyncItem, TypeInv, TypeOK, RecTypeOK, Item, ObjInv
<1>2. CopyFor(i).from = SourceNamespace(CurSpec) /\ CopyFor(i).by = cur
  BY <1>1 DEF CopyFor, CopyOf, Object
<1>3. CopyFor(i) # NoObj
  BY CopyOverCopy, NoObjAssumption
<1> QED BY <1>1, <1>2, <1>3, ApiAssumption DEF HasSyncLabel

LEMMA LabelledSteps ==
  ASSUME ObjInv, Labelled, [Next]_vars
  PROVE  Labelled'
<1>0. TypeInv
  BY DEF ObjInv
<1>1. ASSUME NEW k \in Key, NEW o \in Object \cup {NoObj}, Write(k, o),
             o # NoObj /\ HasSyncLabel(o) => o.by \in Syncs
      PROVE  Labelled'
  BY <1>0, <1>1, WrittenSlot DEF Labelled
<1>2. ASSUME NEW i \in items, CopyWrite(i)
      PROVE  Labelled'
  <2>1. i.key \in Key /\ CopyFor(i) \in Object /\ Write(i.key, CopyFor(i))
        /\ CopyFor(i).by \in Syncs
    BY <1>0, <1>2, CopyOverCopy, CopyLabels
  <2> QED BY <1>1, <2>1
<1>3. ASSUME NEW k \in Key, NEW o \in Object \cup {NoObj}, UserWrite(k, o)
      PROVE  Labelled'
  <2>1. o # NoObj /\ HasSyncLabel(o) => o.by \in Syncs
    BY <1>0, <1>3 DEF UserWrite, Labelled, HasSyncLabel
  <2> QED BY <1>1, <1>3, <2>1 DEF UserWrite
<1>4. CASE UNCHANGED store
  BY <1>0, <1>4 DEF Labelled
<1>5. (\E kd \in Kinds : DeliverObj(kd)) \/ Restart \/ UNCHANGED objVars
        => UNCHANGED store
  BY DEF DeliverObj, Restart, objVars
<1>6. ASSUME NEW k \in Key, Write(k, NoObj)
      PROVE  Labelled'
  BY <1>1, <1>6
<1> QED BY <1>0, <1>2, <1>3, <1>4, <1>5, <1>6, ObjSteps

\* Every copy names its ConfigSync.
LEMMA LabelledInvariant == Spec => []Labelled
<1>1. Init => Labelled
  BY InitAssumption DEF Init, InitStore, Labelled
<1> QED BY <1>1, LabelledSteps, ObjVersionsInv, PTL DEF Spec

-----------------------------------------------------------------------------
\* Objects users wrote

\* A write adds one reading, of what it wrote.
LEMMA WriteReads ==
  ASSUME TypeInv, cache' = cache,
         NEW k \in Key, NEW o \in Object \cup {NoObj}, Write(k, o),
         NEW r \in (ObjReads \cup ObjNow)'
  PROVE  \/ r \in ObjReads \cup ObjNow
         \/ r = [key |-> k, cell |-> [rv |-> store[k].rv + 1, obj |-> o]]
<1>1. CASE store[k].obj = o
  <2>1. UNCHANGED <<store, watch>>
    BY <1>1 DEF Write
  <2>2. ObjReads' = ObjReads /\ ObjNow' = ObjNow
    BY <2>1 DEF ObjReads, ObjNow
  <2> QED BY <2>2
<1>2. CASE store[k].obj # o
  <2> DEFINE e == [key |-> k, cell |-> [rv |-> store[k].rv + 1, obj |-> o]]
  <2>1. /\ store' = [store EXCEPT ![k] = e.cell]
        /\ watch' = [watch EXCEPT ![k.kind] = Append(@, e)]
        /\ store \in [Key -> Cell(Object)] /\ watch \in [Kinds -> Seq(ObjEvent)]
        /\ e.key = k /\ e.cell.obj = o
    BY <1>2 DEF Write, TypeInv, TypeOK, ApiTypeOK
  <2> HIDE DEF e
  <2>2. ASSUME NEW x \in Key, r = [key |-> x, cell |-> store'[x]]
        PROVE  r \in ObjNow \/ r = e
    BY <2>1, <2>2 DEF ObjNow, e
  <2>3. ASSUME NEW x \in Key, r = [key |-> x, cell |-> cache[x]]
        PROVE  r \in ObjReads
    BY <2>3 DEF ObjReads
  <2>4. ASSUME NEW kd \in Kinds, NEW i \in 1..Len(watch'[kd]), r = watch'[kd][i]
        PROVE  r \in ObjReads \/ r = e
    <3>1. watch[kd] \in Seq(ObjEvent)
      BY <2>1
    <3>2. watch'[kd] = watch[kd] \/ watch'[kd] = Append(watch[kd], e)
      BY <2>1
    <3>3. r = e \/ (i \in 1..Len(watch[kd]) /\ r = watch[kd][i])
      BY <2>4, <3>1, <3>2
    <3> QED BY <3>3 DEF ObjReads
  <2>5. \/ \E x \in Key : \/ r = [key |-> x, cell |-> store'[x]]
                          \/ r = [key |-> x, cell |-> cache[x]]
        \/ \E kd \in Kinds : \E i \in 1..Len(watch'[kd]) : r = watch'[kd][i]
    BY DEF ObjReads, ObjNow
  <2> QED BY <2>2, <2>3, <2>4, <2>5 DEF e
<1> QED BY <1>1, <1>2

\* A delivery shows nothing new.
LEMMA DeliverReads ==
  ASSUME TypeInv, NEW kd \in Kinds, DeliverObj(kd),
         NEW r \in (ObjReads \cup ObjNow)'
  PROVE  r \in ObjReads \cup ObjNow
<1>1. /\ watch \in [Kinds -> Seq(ObjEvent)] /\ watch[kd] # <<>>
      /\ cache \in [Key -> Cell(Object)] /\ store' = store
      /\ watch' = [watch EXCEPT ![kd] = Tail(@)]
      /\ cache' = [cache EXCEPT ![Head(watch[kd]).key] = Head(watch[kd]).cell]
  BY DEF DeliverObj, TypeInv, TypeOK, ApiTypeOK
<1>2. watch[kd] \in Seq(ObjEvent)
  BY <1>1
<1>3. Head(watch[kd]) \in ObjReads /\ Head(watch[kd]) \in ObjEvent
  <2>1. 1 \in 1..Len(watch[kd]) /\ Head(watch[kd]) = watch[kd][1]
    BY <1>1, <1>2
  <2> QED BY <1>2, <2>1 DEF ObjReads
<1>4. ASSUME NEW x \in Key, r = [key |-> x, cell |-> cache'[x]]
      PROVE  r \in ObjReads
  <2>1. CASE x = Head(watch[kd]).key
    <3>1. r = Head(watch[kd])
      BY <1>1, <1>3, <1>4, <2>1 DEF ObjEvent
    <3> QED BY <1>3, <3>1
  <2>2. CASE x # Head(watch[kd]).key
    BY <1>1, <1>4, <2>2 DEF ObjReads
  <2> QED BY <2>1, <2>2
<1>5. ASSUME NEW y \in Kinds, NEW i \in 1..Len(watch'[y]), r = watch'[y][i]
      PROVE  r \in ObjReads
  <2>1. CASE y # kd
    <3>1. watch'[y] = watch[y]
      BY <1>1, <2>1
    <3> QED BY <1>5, <3>1 DEF ObjReads
  <2>2. CASE y = kd
    <3>1. i + 1 \in 1..Len(watch[kd]) /\ r = watch[kd][i + 1]
      BY <1>1, <1>2, <1>5, <2>2
    <3> QED BY <3>1 DEF ObjReads
  <2> QED BY <2>1, <2>2
<1> QED BY <1>1, <1>4, <1>5 DEF ObjReads, ObjNow

LEMMA HomeMadeSteps ==
  ASSUME ObjInv, HomeMade, [Next]_vars
  PROVE  HomeMade'
<1>0. TypeInv
  BY DEF ObjInv
<1>1. ASSUME NEW k \in Key, NEW o \in Object \cup {NoObj}, Write(k, o),
             cache' = cache,
             o # NoObj /\ ~HasSyncLabel(o) => o.data.at = k.ns
      PROVE  HomeMade'
  <2> SUFFICES ASSUME NEW r \in (ObjReads \cup ObjNow)' PROVE AtHome(r)
    BY DEF HomeMade, AtHome, HasSyncLabel
  <2> QED BY <1>0, <1>1, WriteReads DEF HomeMade, AtHome
<1>2. ASSUME NEW i \in items, CopyWrite(i), cache' = cache
      PROVE  HomeMade'
  BY <1>0, <1>1, <1>2, CopyOverCopy, CopyLabels
<1>3. CASE UNCHANGED objVars
  BY <1>3 DEF objVars, HomeMade, ObjReads, ObjNow, AtHome, HasSyncLabel
<1>4. ASSUME NEW kd \in Kinds, DeliverObj(kd)
      PROVE  HomeMade'
  BY <1>0, <1>4, DeliverReads DEF HomeMade, AtHome, HasSyncLabel
<1>5. CASE Restart
  <2>1. store' = store /\ cache' = store /\ \A kd \in Kinds : watch'[kd] = <<>>
    BY <1>5 DEF Restart
  <2>2. (ObjReads \cup ObjNow)' \subseteq ObjNow
    BY <2>1 DEF ObjReads, ObjNow
  <2> QED BY <2>2 DEF HomeMade, AtHome, HasSyncLabel
<1>6. ASSUME NEW k \in Key, NEW o \in Object \cup {NoObj}, UserWrite(k, o),
             cache' = cache
      PROVE  HomeMade'
  BY <1>1, <1>6 DEF UserWrite
<1>7. ASSUME NEW k \in Key, Write(k, NoObj), cache' = cache
      PROVE  HomeMade'
  BY <1>1, <1>7
<1> QED BY <1>0, <1>2, <1>3, <1>4, <1>5, <1>6, <1>7, ObjSteps

-----------------------------------------------------------------------------
\* The worker

\* A spec leads neither into its source namespace nor into a system one.
LEMMA TargetsApart ==
  ASSUME NEW spec \in ConfigSyncSpec, NEW existing \in SUBSET Namespaces
  PROVE  getTargetNamespaces(spec, existing)
           \cap (SystemNamespaces \cup {SourceNamespace(spec)}) = {}
BY DEF getTargetNamespaces, filterNamespaces

LEMMA RoutedSteps ==
  ASSUME TypeInv, HomeMade, Routed, [Next]_vars
  PROVE  Routed'
<1>1. CASE UNCHANGED recVars
  BY <1>1 DEF recVars, Routed, CurSpec
<1>2. CASE Return
  BY <1>2 DEF Return, Routed
<1>3. ASSUME NEW c \in Syncs, ReconcileDeleted(c) \/ ReconcileSync(c)
      PROVE  Routed'
  <2>1. /\ csCache[c].obj \in ConfigSync /\ nsCache \in SUBSET Namespaces
        /\ snap' = csCache[c] /\ items' = {} /\ pc' \in {"clean", "prune"}
        /\ targets' = getTargetNamespaces(csCache[c].obj.spec, nsCache)
    BY <1>3 DEF ReconcileDeleted, ReconcileSync, Begin, TypeInv, TypeOK,
                      ApiTypeOK, Cell
  <2>2. targets' \cap (SystemNamespaces
                         \cup {SourceNamespace(csCache[c].obj.spec)}) = {}
    BY <2>1, TargetsApart DEF ConfigSync
  <2> QED BY <2>1, <2>2 DEF Routed, CurSpec
<1>4. CASE PruneDone
  <2>1. EnabledKinds(CurSpec) \subseteq Kinds
    BY DEF EnabledKinds
  <2> QED BY <1>4, <2>1 DEF PruneDone, Routed, CurSpec
<1>5. ASSUME NEW w \in work, SyncList(w)
      PROVE  Routed'
  <2>1. /\ pc = "sync" /\ UNCHANGED <<pc, snap, targets>>
        /\ work' = work \ {w} /\ w \in Kinds \X targets
        /\ items' = {[key |-> [k EXCEPT !.ns = w[2]], obj |-> cache[k].obj] :
                       k \in listSource(cache, w[1], CurSpec)}
    BY <1>5 DEF SyncList, Routed
  <2>2. ASSUME NEW i \in items'
        PROVE  i.key.ns \in targets /\ i.obj.data.at = SourceNamespace(CurSpec)
    <3>1. PICK k \in listSource(cache, w[1], CurSpec) :
            i = [key |-> [k EXCEPT !.ns = w[2]], obj |-> cache[k].obj]
      BY <2>1, <2>2
    <3>2. /\ k \in Key /\ k.ns = SourceNamespace(CurSpec)
          /\ cache[k].obj # NoObj /\ ~HasSyncLabel(cache[k].obj)
      BY <3>1 DEF listSource
    <3>3. [key |-> k, cell |-> cache[k]] \in ObjReads
      BY <3>2 DEF ObjReads
    <3>4. cache[k].obj.data.at = SourceNamespace(CurSpec)
      BY <3>2, <3>3 DEF HomeMade, AtHome
    <3>5. i.key.ns = w[2] /\ w[2] \in targets
      BY <2>1, <3>1, <3>2 DEF Key
    <3> QED BY <3>1, <3>4, <3>5
  <2> QED BY <2>1, <2>2 DEF Routed, CurSpec
<1>6. ASSUME UNCHANGED <<pc, snap, targets>>, work' \subseteq work,
             items' \subseteq items
      PROVE  Routed'
  BY <1>6 DEF Routed, CurSpec
<1>7. CASE ReconcileStep
  <2>1. ASSUME NEW w \in work,
               \/ PruneList(w) \/ CleanList(w) \/ CleanListFails(w)
               \/ SyncListFails(w)
        PROVE  Routed'
    BY <1>6, <2>1 DEF PruneList, CleanList, CleanListFails, SyncListFails
  <2>2. ASSUME NEW k \in dels, PruneDelete(k) \/ CleanDelete(k)
        PROVE  Routed'
    BY <1>6, <2>2 DEF PruneDelete, CleanDelete, Delete
  <2>3. ASSUME NEW i \in items, SyncItem(i)
        PROVE  Routed'
    BY <1>6, <2>3 DEF SyncItem
  <2>4. CASE ListFails \/ CleanDone \/ SyncDone
    BY <1>2, <2>4 DEF ListFails, CleanDone, SyncDone, ReturnError
  <2> QED BY <1>4, <1>5, <1>7, <2>1, <2>2, <2>3, <2>4 DEF ReconcileStep
<1>8. ASSUME NEW c \in Syncs, ReconcileStart(c)
      PROVE  Routed'
  BY <1>1, <1>3, <1>8 DEF ReconcileStart, ReconcileFails, ReconcileGone,
                          ReconcileAddFinalizer
<1>9. CASE \/ UNCHANGED vars \/ DeliverSync \/ DeliverNs \/ User \/ Cluster
           \/ NsWorker \/ \E c \in Syncs : Timer(c)
           \/ \E kd \in Kinds : DeliverObj(kd) \/ ObjWorker(kd)
  BY <1>1, <1>9 DEF vars, DeliverSync, DeliverNs, DeliverObj, User, Cluster,
                    NsWorker, ObjWorker, Timer, TimerFires
<1>10. CASE Restart
  BY <1>2, <1>10 DEF Restart
<1> QED BY <1>7, <1>8, <1>9, <1>10 DEF Next, MainWorker

-----------------------------------------------------------------------------
\* The copies

LEMMA ProvenanceSteps ==
  ASSUME Protected, ContentInv, [Next]_vars
  PROVE  CopyProvenance'
<1> DEFINE Right(k, o) ==
      o # NoObj /\ HasSyncLabel(o) =>
        /\ k.ns # o.from /\ k.ns \notin SystemNamespaces
        /\ o.data.at = o.from
<1>0. /\ TypeInv /\ ObjInv /\ Routed /\ Labelled
      /\ \A k \in Key : Right(k, store[k].obj)
  BY DEF ContentInv, ObjInv, CopyProvenance, Copies
<1> SUFFICES ASSUME NEW k \in Key PROVE Right(k, store'[k].obj)
  BY DEF CopyProvenance, Copies, HasSyncLabel
<1>1. ASSUME NEW x \in Key, NEW o \in Object \cup {NoObj}, Write(x, o),
             Right(x, o)
      PROVE  Right(k, store'[k].obj)
  BY <1>0, <1>1, WrittenSlot
<1>2. ASSUME NEW i \in items, CopyWrite(i)
      PROVE  Right(k, store'[k].obj)
  <2>1. /\ i.key \in Key /\ CopyFor(i) \in Object /\ Write(i.key, CopyFor(i))
        /\ i.obj \in Object /\ pc = "sync"
    BY <1>0, <1>2, CopyOverCopy
       DEF CopyWrite, SyncItem, TypeInv, TypeOK, RecTypeOK, Item
  <2>2. /\ CopyFor(i).from = SourceNamespace(CurSpec)
        /\ CopyFor(i).data = i.obj.data
    BY <2>1 DEF CopyFor, CopyOf, Object
  <2>3. Right(i.key, CopyFor(i))
    BY <1>0, <2>1, <2>2 DEF Routed
  <2> QED BY <1>1, <2>1, <2>3
<1>3. ASSUME NEW x \in Key, NEW o \in Object \cup {NoObj}, UserWrite(x, o)
      PROVE  Right(k, store'[k].obj)
  <2>1. ~(o # NoObj /\ HasSyncLabel(o))
    BY <1>0, <1>3, ApiAssumption DEF UserWrite, Labelled, HasSyncLabel
  <2> QED BY <1>1, <1>3, <2>1 DEF UserWrite
<1>4. CASE UNCHANGED store
  BY <1>0, <1>4
<1>5. (\E kd \in Kinds : DeliverObj(kd)) \/ Restart \/ UNCHANGED objVars
        => UNCHANGED store
  BY DEF DeliverObj, Restart, objVars
<1>6. ASSUME NEW x \in Key, Write(x, NoObj)
      PROVE  Right(k, store'[k].obj)
  BY <1>1, <1>6
<1> HIDE DEF Right
<1> QED BY <1>0, <1>2, <1>3, <1>4, <1>5, <1>6, ObjSteps

LEMMA ContentInit == Init => ContentInv
<1> SUFFICES ASSUME Init PROVE ContentInv
  OBVIOUS
<1>1. /\ cache = store /\ \A kd \in Kinds : watch[kd] = <<>>
      /\ pc = "idle" /\ items = {}
      /\ \A k \in Key : store[k].obj # NoObj =>
           ~HasSyncLabel(store[k].obj) /\ store[k].obj.data.at = k.ns
  BY InitAssumption DEF Init, InitStore, RecInit
<1>2. ObjReads \cup ObjNow \subseteq ObjNow
  BY <1>1 DEF ObjReads, ObjNow
<1>3. HomeMade
  BY <1>1, <1>2 DEF HomeMade, AtHome, ObjNow
<1> QED BY <1>1, <1>3, ObjInit
           DEF ContentInv, Labelled, Routed, CopyProvenance, Copies

LEMMA ContentSteps ==
  ASSUME Protected, ContentInv, [Next]_vars
  PROVE  ContentInv'
<1>1. ObjInv /\ TypeInv /\ Labelled /\ HomeMade /\ Routed
  BY DEF ContentInv, ObjInv
<1>2. ObjInv'
  BY <1>1, ObjVersionsSteps, NextTypes DEF ObjInv
<1> QED BY <1>1, <1>2, LabelledSteps, HomeMadeSteps, RoutedSteps,
           ProvenanceSteps DEF ContentInv

\* With the webhook on and no cluster-admin at work, a copy holds data of the
\* namespace its label names, and lies neither there nor in a system
\* namespace, however the spec is edited during a sync (CopyProvenance).
THEOREM CopiesHoldTheirSource ==
  ASSUME Protected PROVE Spec => []CopyProvenance
<1>1. ContentInv => CopyProvenance
  BY DEF ContentInv
<1> QED BY <1>1, ContentInit, ContentSteps, PTL DEF Spec

-----------------------------------------------------------------------------
\* Another process of the operator

\* What this process hears of the steps of another one, which keep users'
\* objects at home, changes nothing for it.
LEMMA HearsContent ==
  ASSUME TypeInv, HomeMade, Routed, Hears, ServerTypes',
         \A k \in Key : LET o == store'[k].obj
                         IN  o # NoObj /\ ~HasSyncLabel(o) => o.data.at = k.ns
  PROVE  HomeMade' /\ Routed'
<1>1. \A r \in ObjNow' : AtHome(r)
  BY DEF ObjNow, AtHome
<1>2. \A r \in ObjReads : AtHome(r)
  BY DEF HomeMade
<1>3. (\A r \in ObjReads' \cup ObjNow' : AtHome(r)) => HomeMade'
  BY DEF HomeMade, AtHome, HasSyncLabel
<1>4. Routed'
  BY DEF Hears, memory, recVars, Routed, CurSpec
<1> QED BY <1>1, <1>2, <1>3, <1>4, HearsObjects

=============================================================================
