--------------------------- MODULE FinalizerSafety ---------------------------
(***************************************************************************)
(* Why no copy is made for a ConfigSync that is already let go of, for any *)
(* cluster. A cache shows the versions of a ConfigSync in their order, and *)
(* one worker does all the copying and all the cleaning up: once it has    *)
(* read that a ConfigSync is being deleted, no later read shows it a       *)
(* version from before that. And why no ConfigSync ever falls out of the   *)
(* periodic sync, and the operator implements SyncLifecycle.               *)
(***************************************************************************)
EXTENDS ContentSafety

\* The versions of a ConfigSync reach the cache in their order
NewsInOrder ==
  /\ \A i, j \in 1..Len(csWatch) :
       i < j /\ csWatch[i].sync = csWatch[j].sync =>
         csWatch[i].cell.rv <= csWatch[j].cell.rv
  /\ \A e \in Coming : csCache[e.sync].rv <= e.cell.rv

\* The cache only moves on from what the worker has read
SnapBehind == cur # None => snap.rv <= csCache[cur].rv

Holds(c) == Exists(c) /\ cs[c].obj.finalizer

\* Wherever a ConfigSync is seen, or will be seen, under its finalizer and not
\* being deleted, it exists and has the finalizer
FinalizerHolds ==
  /\ \A r \in Cached \cup Coming :
       r.cell.obj # NoObj /\ CanSync(r.cell.obj) => Holds(r.sync)
  /\ pc \in {"prune", "sync"} => Holds(cur)

FinInv == CsInv /\ NewsInOrder /\ SnapBehind /\ FinalizerHolds

-----------------------------------------------------------------------------
\* The order of the news

\* A delivery takes the first of the news and leaves the others.
LEMMA Delivered ==
  ASSUME TypeInv, DeliverSync
  PROVE  LET h == Head(csWatch)
         IN  /\ h \in Coming /\ h \in CsEvent /\ cs' = cs
             /\ csCache' = [csCache EXCEPT ![h.sync] = h.cell]
             /\ Len(csWatch') = Len(csWatch) - 1 /\ Len(csWatch) \in Nat \ {0}
             /\ h = csWatch[1]
             /\ \A i \in 1..Len(csWatch') :
                  i + 1 \in 1..Len(csWatch) /\ csWatch'[i] = csWatch[i + 1]
             /\ Coming' \subseteq Coming
<1>1. csWatch \in Seq(CsEvent) /\ csWatch # <<>> /\ csWatch' = Tail(csWatch)
      /\ cs' = cs
      /\ csCache' = [csCache EXCEPT ![Head(csWatch).sync] = Head(csWatch).cell]
  BY DEF DeliverSync, TypeInv, TypeOK, ApiTypeOK
<1>2. Len(csWatch') = Len(csWatch) - 1 /\ Len(csWatch) \in Nat \ {0}
      /\ Head(csWatch) = csWatch[1] /\ Head(csWatch) \in CsEvent
  BY <1>1
<1>3. \A i \in 1..Len(csWatch') :
        i + 1 \in 1..Len(csWatch) /\ csWatch'[i] = csWatch[i + 1]
  BY <1>1, <1>2
<1>4. Head(csWatch) \in Coming /\ Coming' \subseteq Coming
  BY <1>2, <1>3 DEF Coming
<1> QED BY <1>1, <1>2, <1>3, <1>4

\* A write is the last of the news.
LEMMA Written ==
  ASSUME TypeInv, NEW c \in Syncs, NEW o \in ConfigSync \cup {NoObj},
         CsWrite(c, o)
  PROVE  LET e == [sync |-> c, cell |-> [rv |-> cs[c].rv + 1, obj |-> o]]
         IN  /\ cs' = [cs EXCEPT ![c] = e.cell] /\ cs[c].rv \in Nat
             /\ Len(csWatch') = Len(csWatch) + 1 /\ Len(csWatch) \in Nat
             /\ csWatch'[Len(csWatch) + 1] = e
             /\ \A i \in 1..Len(csWatch) : csWatch'[i] = csWatch[i]
             /\ Coming' = Coming \cup {e}
<1> DEFINE e == [sync |-> c, cell |-> [rv |-> cs[c].rv + 1, obj |-> o]]
<1>1. csWatch \in Seq(CsEvent) /\ csWatch' = Append(csWatch, e)
      /\ cs' = [cs EXCEPT ![c] = e.cell] /\ cs[c].rv \in Nat
  BY DEF CsWrite, TypeInv, TypeOK, ApiTypeOK, Cell
<1> HIDE DEF e
<1>2. /\ Len(csWatch') = Len(csWatch) + 1 /\ Len(csWatch) \in Nat
      /\ csWatch'[Len(csWatch) + 1] = e
      /\ \A i \in 1..Len(csWatch) : csWatch'[i] = csWatch[i]
  BY <1>1
<1>3. Coming' = Coming \cup {e}
  BY <1>2 DEF Coming
<1> QED BY <1>1, <1>2, <1>3 DEF e

LEMMA NewsTypes ==
  ASSUME TypeInv
  PROVE  /\ csWatch \in Seq(CsEvent)
         /\ \A i \in 1..Len(csWatch) :
              csWatch[i] \in Coming /\ csWatch[i].cell.rv \in Nat
         /\ \A r \in Cached \cup Coming : r.sync \in Syncs /\ r.cell.rv \in Nat
         /\ \A c \in Syncs : csCache[c].rv \in Nat /\ cs[c].rv \in Nat
<1>1. /\ csWatch \in Seq(CsEvent)
      /\ \A c \in Syncs : csCache[c].rv \in Nat /\ cs[c].rv \in Nat
  BY DEF TypeInv, TypeOK, ApiTypeOK, Cell
<1>2. \A r \in Cached \cup Coming : r.sync \in Syncs /\ r.cell.rv \in Nat
  BY ReadTypes DEF CsReads
<1> QED BY <1>1, <1>2 DEF Coming

LEMMA NewsSteps ==
  ASSUME CsInv, NewsInOrder, [Next]_vars
  PROVE  /\ NewsInOrder'
         /\ \A c \in Syncs : csCache[c].rv <= csCache'[c].rv
<1>0. /\ TypeInv /\ CsVersions /\ SnapFits
      /\ csCache \in [Syncs -> Cell(ConfigSync)]
      /\ \A r \in Cached \cup Coming : r.cell.rv <= cs[r.sync].rv
  BY DEF CsInv, TypeInv, TypeOK, ApiTypeOK, CsVersions, CsReads, VersionOf
<1>a. ASSUME NEW c \in Syncs
      PROVE  csCache[c].rv <= cs[c].rv
  <2>1. [sync |-> c, cell |-> csCache[c]] \in Cached
    BY DEF Cached
  <2> QED BY <1>0, <2>1
<1>1. CASE UNCHANGED csVars
  BY <1>0, <1>1, NewsTypes DEF csVars, NewsInOrder, Coming
<1>2. CASE CsStep
  <2>1. PICK c \in Syncs, o \in ConfigSync \cup {NoObj} :
          CsWrite(c, o) /\ csCache' = csCache
    BY <1>2 DEF CsStep
  <2> DEFINE e == [sync |-> c, cell |-> [rv |-> cs[c].rv + 1, obj |-> o]]
  <2>2. /\ Len(csWatch') = Len(csWatch) + 1 /\ Len(csWatch) \in Nat
        /\ csWatch'[Len(csWatch) + 1] = e
        /\ \A i \in 1..Len(csWatch) : csWatch'[i] = csWatch[i]
        /\ Coming' = Coming \cup {e} /\ cs[c].rv \in Nat
    BY <1>0, <2>1, Written
  <2>3. csCache[c].rv <= cs[c].rv
    BY <1>a
  <2>4. \A x \in Coming' : csCache'[x.sync].rv <= x.cell.rv
    BY <1>0, <2>1, <2>2, <2>3, NewsTypes DEF NewsInOrder
  <2>5. ASSUME NEW i \in 1..Len(csWatch'), NEW j \in 1..Len(csWatch'), i < j,
               csWatch'[i].sync = csWatch'[j].sync
        PROVE  csWatch'[i].cell.rv <= csWatch'[j].cell.rv
    <3>1. i \in 1..Len(csWatch) /\ csWatch'[i] = csWatch[i]
          /\ csWatch[i] \in Coming /\ csWatch[i].cell.rv \in Nat
      BY <1>0, <2>2, <2>5, NewsTypes
    <3>2. CASE j \in 1..Len(csWatch)
      BY <2>2, <2>5, <3>1, <3>2 DEF NewsInOrder
    <3>3. CASE j = Len(csWatch) + 1
      <4>1. csWatch[i].sync = c /\ csWatch[i].cell.rv <= cs[c].rv
        BY <1>0, <2>2, <2>5, <3>1, <3>3
      <4> QED BY <2>2, <3>1, <3>3, <4>1
    <3> QED BY <2>2, <3>2, <3>3
  <2> QED BY <1>0, <2>1, <2>4, <2>5, NewsTypes DEF NewsInOrder
<1>3. CASE DeliverSync
  <2> DEFINE h == Head(csWatch)
  <2>1. /\ h \in Coming /\ h \in CsEvent /\ h = csWatch[1]
        /\ csCache' = [csCache EXCEPT ![h.sync] = h.cell]
        /\ Len(csWatch') = Len(csWatch) - 1 /\ Len(csWatch) \in Nat \ {0}
        /\ \A i \in 1..Len(csWatch') :
             i + 1 \in 1..Len(csWatch) /\ csWatch'[i] = csWatch[i + 1]
        /\ Coming' \subseteq Coming
    BY <1>0, <1>3, Delivered
  <2> HIDE DEF h
  <2>2. ASSUME NEW i \in 1..Len(csWatch'), NEW j \in 1..Len(csWatch'), i < j,
               csWatch'[i].sync = csWatch'[j].sync
        PROVE  csWatch'[i].cell.rv <= csWatch'[j].cell.rv
    BY <2>1, <2>2 DEF NewsInOrder
  <2>3. ASSUME NEW i \in 1..Len(csWatch')
        PROVE  csCache'[csWatch'[i].sync].rv <= csWatch'[i].cell.rv
    <3>1. i + 1 \in 1..Len(csWatch) /\ csWatch'[i] = csWatch[i + 1]
          /\ csWatch[i + 1] \in Coming /\ csWatch[i + 1].sync \in Syncs
      BY <1>0, <2>1, NewsTypes
    <3>2. CASE csWatch[i + 1].sync = h.sync
      <4>1. 1 < i + 1 /\ 1 \in 1..Len(csWatch)
        BY <2>1
      <4>2. csWatch[1].cell.rv <= csWatch[i + 1].cell.rv
        BY <2>1, <3>1, <3>2, <4>1 DEF NewsInOrder
      <4> QED BY <1>0, <2>1, <3>1, <3>2, <4>2
    <3>3. CASE csWatch[i + 1].sync # h.sync
      BY <1>0, <2>1, <3>1, <3>3 DEF NewsInOrder
    <3> QED BY <3>2, <3>3
  <2>4. \A e \in Coming' : csCache'[e.sync].rv <= e.cell.rv
    BY <2>3 DEF Coming
  <2>5. \A c \in Syncs : csCache[c].rv <= csCache'[c].rv
    BY <1>0, <2>1, NewsTypes DEF NewsInOrder
  <2> QED BY <2>2, <2>4, <2>5 DEF NewsInOrder
<1>4. CASE Restart
  <2>1. csWatch' = <<>> /\ csCache' = cs
    BY <1>4 DEF Restart
  <2> QED BY <1>a, <2>1 DEF NewsInOrder, Coming
<1> QED BY <1>0, <1>1, <1>2, <1>3, <1>4, CsSteps

LEMMA SnapBehindSteps ==
  ASSUME CsInv, NewsInOrder, SnapBehind, [Next]_vars
  PROVE  SnapBehind'
<1>0. /\ cur \in Syncs \cup {None} /\ None \notin Syncs
      /\ snap.rv \in Nat /\ \A c \in Syncs : csCache[c].rv \in Nat
      /\ \A c \in Syncs : csCache'[c].rv \in Nat
  BY ApiAssumption, NextTypes
     DEF CsInv, TypeInv, TypeOK, ApiTypeOK, RecTypeOK, Cell
<1>1. CASE UNCHANGED <<pc, cur, snap>> \/ PruneDone
  <2>1. UNCHANGED <<cur, snap>>
    BY <1>1 DEF PruneDone
  <2> QED BY <1>0, <2>1, NewsSteps DEF SnapBehind
<1>2. ASSUME NEW c \in Syncs, ReconcileDeleted(c) \/ ReconcileSync(c)
      PROVE  SnapBehind'
  <2>1. cur' = c /\ snap' = csCache[c] /\ csCache' = csCache
    BY <1>2 DEF ReconcileDeleted, ReconcileSync, Begin, apiVars
  <2> QED BY <1>0, <2>1 DEF SnapBehind
<1>3. CASE cur' = None
  BY <1>3 DEF SnapBehind
<1> QED BY <1>1, <1>2, <1>3, WorkerSteps

-----------------------------------------------------------------------------
\* The finalizer

\* It stays until the worker takes it off, and it takes it off the version of
\* the ConfigSync that it has read.
LEMMA HoldsSteps ==
  ASSUME CsInv, [Next]_vars, NEW c \in Syncs, Holds(c)
  PROVE  \/ Holds(c)'
         \/ CleanDone /\ c = cur /\ snap = cs[c] /\ CanClean(cs[c].obj)
<1>0. TypeInv /\ CsVersions /\ SnapFits /\ cs \in [Syncs -> Cell(ConfigSync)]
      /\ cs[c].obj # NoObj /\ cs[c].obj.finalizer
  BY DEF CsInv, TypeInv, TypeOK, ApiTypeOK, Holds, Exists
<1>1. CASE UNCHANGED csVars \/ DeliverSync \/ Restart
  <2>1. cs' = cs
    BY <1>1 DEF csVars, DeliverSync, Restart
  <2> QED BY <1>0, <2>1 DEF Holds, Exists
<1>2. CASE CsStep
  <2>1. PICK x \in Syncs, o \in ConfigSync \cup {NoObj} :
          /\ CsWrite(x, o)
          /\ \/ Created(cs[x].obj, o) \/ Kept(cs[x].obj, o)
             \/ Bound(cs[x].obj, o) \/ Asked(cs[x].obj, o)
             \/ Released(x, cs[x].obj, o)
    BY <1>2 DEF CsStep
  <2>2. CASE x # c
    <3>1. cs'[c] = cs[c]
      BY <1>0, <2>1, <2>2 DEF CsWrite
    <3> QED BY <1>0, <3>1 DEF Holds, Exists
  <2>3. CASE x = c
    <3>1. cs'[c].obj = o
      BY <1>0, <2>1, <2>3 DEF CsWrite
    <3>2. CASE Released(c, cs[c].obj, o)
      BY <3>2 DEF Released
    <3>3. CASE ~Released(c, cs[c].obj, o)
      <4>1. o # NoObj /\ o.finalizer
        BY <1>0, <2>1, <2>3, <3>3 DEF Created, Kept, Bound, Asked
      <4> QED BY <3>1, <4>1 DEF Holds, Exists
    <3> QED BY <3>2, <3>3
  <2> QED BY <2>2, <2>3
<1> QED BY <1>0, <1>1, <1>2, CsSteps

\* A delivery only moves news to the cache.
LEMMA DeliveredReads ==
  ASSUME TypeInv, DeliverSync
  PROVE  (Cached \cup Coming)' \subseteq Cached \cup Coming
<1> DEFINE h == Head(csWatch)
<1>1. /\ h \in Coming /\ h \in CsEvent /\ Coming' \subseteq Coming
      /\ csCache' = [csCache EXCEPT ![h.sync] = h.cell]
      /\ csCache \in [Syncs -> Cell(ConfigSync)]
  BY Delivered DEF TypeInv, TypeOK, ApiTypeOK
<1> HIDE DEF h
<1>2. ASSUME NEW c \in Syncs
      PROVE  [sync |-> c, cell |-> csCache'[c]] \in Cached \cup Coming
  <2>1. CASE c = h.sync
    <3>1. csCache'[c] = h.cell
      BY <1>1, <2>1
    <3>2. h = [sync |-> c, cell |-> csCache'[c]]
      BY <1>1, <2>1, <3>1 DEF CsEvent
    <3> QED BY <1>1, <3>2
  <2>2. CASE c # h.sync
    BY <1>1, <2>2 DEF Cached
  <2> QED BY <2>1, <2>2
<1> QED BY <1>1, <1>2 DEF Cached

\* A reading that the cache shows, or will show, is at least as new as what
\* the worker holds of the same ConfigSync.
LEMMA ReadAfterSnap ==
  ASSUME TypeInv, NewsInOrder, SnapBehind, NEW r \in Cached \cup Coming,
         r.sync = cur, cur # None
  PROVE  snap.rv <= r.cell.rv
<1>0. /\ snap.rv \in Nat /\ cur \in Syncs
      /\ csCache[cur].rv \in Nat /\ r.cell.rv \in Nat
  BY NewsTypes DEF TypeInv, TypeOK, RecTypeOK, Cell
<1>1. CASE r \in Cached
  <2>1. r.cell = csCache[cur]
    BY <1>1 DEF Cached
  <2> QED BY <2>1 DEF SnapBehind
<1>2. CASE r \in Coming
  <2>1. csCache[cur].rv <= r.cell.rv
    BY <1>2 DEF NewsInOrder
  <2> QED BY <1>0, <2>1 DEF SnapBehind
<1> QED BY <1>1, <1>2

LEMMA FinalizerSteps ==
  ASSUME FinInv, [Next]_vars
  PROVE  FinalizerHolds'
<1>0. /\ CsInv /\ TypeInv /\ CsVersions /\ SnapFits /\ NewsInOrder /\ SnapBehind
      /\ FinalizerHolds
  BY DEF FinInv, CsInv
<1>1. ASSUME NEW r \in Cached \cup Coming, r.cell.obj # NoObj,
             CanSync(r.cell.obj)
      PROVE  Holds(r.sync)'
  <2>1. r.sync \in Syncs /\ Holds(r.sync) /\ r.cell.rv \in Nat
        /\ cs[r.sync].rv \in Nat
    BY <1>0, <1>1, NewsTypes DEF FinalizerHolds
  <2>2. SUFFICES ASSUME r.sync = cur, snap = cs[cur], CanClean(cs[cur].obj)
                 PROVE  FALSE
    BY <1>0, <2>1, HoldsSteps
  <2>3. snap.rv <= r.cell.rv /\ VersionOf(r.cell, cs[cur])
    <3>1. cur # None
      BY <2>1, <2>2, ApiAssumption
    <3>2. snap.rv <= r.cell.rv
      BY <1>0, <2>2, <3>1, ReadAfterSnap
    <3>3. r \in CsReads
      BY DEF CsReads
    <3> QED BY <1>0, <2>2, <3>2, <3>3 DEF CsVersions
  <2>4. r.cell = cs[cur]
    BY <2>1, <2>2, <2>3 DEF VersionOf
  <2> QED BY <1>1, <2>2, <2>4 DEF CanSync, CanClean
<1>2. ASSUME NEW r \in (Cached \cup Coming)', r.cell.obj # NoObj,
             CanSync(r.cell.obj)
      PROVE  Holds(r.sync)'
  <2>1. CASE r \in Cached \cup Coming
    BY <1>1, <1>2, <2>1
  <2>2. CASE UNCHANGED csVars
    <3>1. r \in Cached \cup Coming
      BY <1>2, <2>2 DEF csVars, Cached, Coming
    <3> QED BY <2>1, <3>1
  <2>3. CASE CsStep
    <3>1. PICK c \in Syncs, o \in ConfigSync \cup {NoObj} :
            CsWrite(c, o) /\ csCache' = csCache
      BY <2>3 DEF CsStep
    <3> DEFINE e == [sync |-> c, cell |-> [rv |-> cs[c].rv + 1, obj |-> o]]
    <3>2. Coming' = Coming \cup {e} /\ cs' = [cs EXCEPT ![c] = e.cell]
      BY <1>0, <3>1, Written
    <3>3. CASE r = e
      <4>1. r.sync = c /\ cs'[c] = r.cell
        BY <1>0, <3>2, <3>3 DEF TypeInv, TypeOK, ApiTypeOK
      <4> QED BY <1>2, <4>1 DEF Holds, Exists, CanSync
    <3> HIDE DEF e
    <3>4. CASE r # e
      <4>1. r \in Cached \cup Coming
        BY <1>2, <3>1, <3>2, <3>4 DEF Cached
      <4> QED BY <2>1, <4>1
    <3> QED BY <3>3, <3>4
  <2>4. CASE DeliverSync
    BY <1>0, <1>2, <2>1, <2>4, DeliveredReads
  <2>5. CASE Restart
    <3>1. csCache' = cs' /\ csWatch' = <<>>
      BY <2>5 DEF Restart
    <3>2. r \in Cached'
      BY <1>2, <3>1 DEF Coming
    <3>3. r.cell = cs'[r.sync]
      BY <3>1, <3>2 DEF Cached
    <3> QED BY <1>2, <3>3 DEF Holds, Exists, CanSync
  <2> QED BY <1>0, <2>2, <2>3, <2>4, <2>5, CsSteps
<1>3. ASSUME pc' \in {"prune", "sync"}
      PROVE  Holds(cur)'
  <2>1. ASSUME pc \in {"prune", "sync"}, cur' = cur
        PROVE  Holds(cur)'
    <3>1. cur \in Syncs /\ Holds(cur) /\ pc # "clean"
      BY <1>0, <2>1, WorkerTypes DEF FinalizerHolds
    <3>2. \E c \in Syncs : c = cur' /\ Holds(c)'
      BY <1>0, <2>1, <3>1, HoldsSteps DEF CleanDone
    <3> QED BY <3>2 DEF Holds, Exists
  <2>2. CASE UNCHANGED <<pc, cur, snap>>
    BY <1>3, <2>1, <2>2
  <2>3. CASE PruneDone
    BY <2>1, <2>3 DEF PruneDone
  <2>4. ASSUME NEW c \in Syncs, ReconcileSync(c)
        PROVE  Holds(cur)'
    <3>1. /\ cur' = c /\ cs' = cs
          /\ csCache[c].obj # NoObj /\ CanSync(csCache[c].obj)
      BY <2>4 DEF ReconcileSync, Begin, apiVars
    <3>2. [sync |-> c, cell |-> csCache[c]] \in Cached
      BY DEF Cached
    <3>3. Holds(c)
      BY <1>0, <3>1, <3>2 DEF FinalizerHolds
    <3> QED BY <3>1, <3>3 DEF Holds, Exists
  <2>5. ASSUME NEW c \in Syncs
        PROVE  ~ReconcileDeleted(c)
    BY <1>3 DEF ReconcileDeleted
  <2>6. pc' # "idle"
    BY <1>3
  <2> QED BY <2>2, <2>3, <2>4, <2>5, <2>6, WorkerSteps
<1> QED BY <1>2, <1>3 DEF FinalizerHolds

\* What the worker copies for, and will copy for, is under its finalizer.
LEMMA FinInvariant == Spec => []FinInv
<1>1. Init /\ CsInv => FinInv
  <2> SUFFICES ASSUME Init PROVE NewsInOrder /\ SnapBehind /\ FinalizerHolds
    BY DEF FinInv
  <2>1. csCache = NoSyncs /\ csWatch = <<>> /\ cur = None /\ pc = "idle"
    BY DEF Init, RecInit
  <2>2. Coming = {} /\ \A r \in Cached : r.cell.obj = NoObj
    BY <2>1 DEF Coming, Cached, NoSyncs
  <2> QED BY <2>1, <2>2 DEF NewsInOrder, SnapBehind, FinalizerHolds
<1>2. FinInv /\ CsInv' /\ [Next]_vars => FinInv'
  BY NewsSteps, SnapBehindSteps, FinalizerSteps DEF FinInv
<1> QED BY <1>1, <1>2, CsInvariant, PTL DEF Spec

\* However old the worker's reading of a ConfigSync is, no copy is made for
\* it after its finalizer has gone (CopiesMadeUnderFinalizer).
THEOREM CopiesUnderFinalizer == Spec => CopiesMadeUnderFinalizer
<1>1. FinInv /\ ObjInv /\ [Next]_vars =>
        [ops' = ops =>
           \A k \in Key :
             store'[k].obj # store[k].obj /\ store'[k].obj # NoObj =>
               LET c == store'[k].obj.by
               IN  c \in Syncs /\ Exists(c) /\ cs[c].obj.finalizer]_vars
  <2> SUFFICES ASSUME FinInv, ObjInv, [Next]_vars, ops' = ops, NEW k \in Key,
                      store'[k].obj # store[k].obj, store'[k].obj # NoObj
               PROVE  store'[k].obj.by \in Syncs /\ Holds(store'[k].obj.by)
    BY DEF Holds
  <2>0. TypeInv /\ FinalizerHolds /\ store \in [Key -> Cell(Object)]
    BY DEF FinInv, ObjInv, TypeInv, TypeOK, ApiTypeOK
  <2>1. ASSUME NEW x \in Key, Write(x, NoObj)
        PROVE  FALSE
    BY <2>0, <2>1 DEF Write
  <2>2. ASSUME NEW i \in items, CopyWrite(i)
        PROVE  store'[k].obj.by \in Syncs /\ Holds(store'[k].obj.by)
    <3>1. i.key \in Key /\ CopyFor(i) \in Object /\ Write(i.key, CopyFor(i))
      BY <2>2, CopyOverCopy
    <3>2. store'[k].obj = CopyFor(i)
      BY <2>0, <3>1 DEF Write
    <3>3. pc = "sync" /\ cur \in Syncs /\ i.obj \in Object
      BY <2>0, <2>2, WorkerTypes
         DEF CopyWrite, SyncItem, TypeInv, TypeOK, RecTypeOK, Item
    <3>4. store'[k].obj.by = cur
      BY <3>2, <3>3 DEF CopyFor, CopyOf, Object
    <3> QED BY <2>0, <3>3, <3>4 DEF FinalizerHolds
  <2>3. ASSUME UNCHANGED store
        PROVE  FALSE
    BY <2>3
  <2>4. (\E kd \in Kinds : DeliverObj(kd)) \/ Restart \/ UNCHANGED objVars
          => UNCHANGED store
    BY DEF DeliverObj, Restart, objVars
  <2>5. ASSUME NEW x \in Key, NEW o \in Object \cup {NoObj}, UserWrite(x, o)
        PROVE  FALSE
    BY <2>5 DEF UserWrite
  <2> QED BY <2>0, <2>1, <2>2, <2>3, <2>4, <2>5, ObjSteps
<1> QED BY <1>1, FinInvariant, ObjVersionsInv, PTL
        DEF Spec, CopiesMadeUnderFinalizer

-----------------------------------------------------------------------------
\* Why the periodic sync never dies. The last news of a ConfigSync is what it
\* is, so a worker that drops one from the queue has read what is there, or
\* will be told of it; and what is being deleted still has its finalizer, so a
\* ConfigSync that is there is never dropped as gone.

\* The news of c still to come
NewsOf(c) == {i \in 1..Len(csWatch) : csWatch[i].sync = c}

\* What comes last is what is there; where nothing comes, the cache shows it
NewsComplete ==
  \A c \in Syncs :
    /\ NewsOf(c) = {} => csCache[c] = cs[c]
    /\ \A i \in NewsOf(c) :
         (\A j \in NewsOf(c) : j <= i) => csWatch[i].cell = cs[c]

DeletingHasFinalizer ==
  \A c \in Syncs :
    Exists(c) /\ cs[c].obj.deleting => cs[c].obj.finalizer

IdleHasNone == pc = "idle" => cur = None

LoopInv ==
  /\ CsInv /\ NewsComplete /\ DeletingHasFinalizer /\ IdleHasNone
  /\ PeriodicLoopAlive

-----------------------------------------------------------------------------
\* The news

\* A change of one ConfigSync adds itself to the news.
Added(x) ==
  /\ Len(csWatch') = Len(csWatch) + 1
  /\ csWatch'[Len(csWatch) + 1] = [sync |-> x, cell |-> cs'[x]]
  /\ \A i \in 1..Len(csWatch) : csWatch'[i] = csWatch[i]
  /\ \A c \in Syncs : c # x => cs'[c] = cs[c]

LEMMA AddedNews ==
  ASSUME Len(csWatch) \in Nat, NEW x \in Syncs, Added(x),
         NEW c \in Syncs, NewsOf(c)' = {}
  PROVE  NewsOf(c) = {} /\ cs'[c] = cs[c]
<1>1. Len(csWatch) + 1 \in NewsOf(x)'
  BY DEF NewsOf, Added
<1>2. NewsOf(c) \subseteq NewsOf(c)'
  BY DEF NewsOf, Added
<1> QED BY <1>1, <1>2 DEF Added

LEMMA AddedComplete ==
  ASSUME NewsComplete, Len(csWatch) \in Nat, csCache' = csCache,
         NEW x \in Syncs, Added(x)
  PROVE  NewsComplete'
<1> DEFINE n == Len(csWatch) + 1
<1> SUFFICES ASSUME NEW c \in Syncs
             PROVE  /\ NewsOf(c)' = {} => csCache'[c] = cs'[c]
                    /\ \A i \in NewsOf(c)' :
                         (\A j \in NewsOf(c)' : j <= i) =>
                           csWatch'[i].cell = cs'[c]
  BY DEF NewsComplete
<1>1. CASE c = x
  <2>1. n \in NewsOf(c)' /\ cs'[c] = csWatch'[n].cell
    BY <1>1 DEF NewsOf, Added
  <2>2. ASSUME NEW i \in NewsOf(c)', \A j \in NewsOf(c)' : j <= i
        PROVE  i = n
    BY <2>1, <2>2 DEF NewsOf, Added
  <2> QED BY <2>1, <2>2
<1>2. CASE c # x
  <2>1. NewsOf(c)' = NewsOf(c) /\ cs'[c] = cs[c]
    BY <1>2 DEF NewsOf, Added
  <2>2. \A i \in NewsOf(c) : csWatch'[i] = csWatch[i]
    BY DEF NewsOf, Added
  <2> QED BY <2>1, <2>2 DEF NewsComplete
<1> QED BY <1>1, <1>2

LEMMA WriteAdds ==
  ASSUME TypeInv, NEW c \in Syncs, NEW o \in ConfigSync \cup {NoObj},
         CsWrite(c, o)
  PROVE  Added(c)
<1> DEFINE e == [sync |-> c, cell |-> [rv |-> cs[c].rv + 1, obj |-> o]]
<1>1. cs \in [Syncs -> Cell(ConfigSync)]
  BY DEF TypeInv, TypeOK, ApiTypeOK
<1>2. /\ cs' = [cs EXCEPT ![c] = e.cell] /\ Len(csWatch') = Len(csWatch) + 1
      /\ csWatch'[Len(csWatch) + 1] = e
      /\ \A i \in 1..Len(csWatch) : csWatch'[i] = csWatch[i]
  BY Written
<1> QED BY <1>1, <1>2 DEF Added

LEMMA NewsCompleteSteps ==
  ASSUME CsInv, NewsComplete, [Next]_vars
  PROVE  NewsComplete'
<1>0. /\ TypeInv /\ CsVersions /\ SnapFits
      /\ cs \in [Syncs -> Cell(ConfigSync)]
      /\ csCache \in [Syncs -> Cell(ConfigSync)] /\ Len(csWatch) \in Nat
  BY DEF CsInv, TypeInv, TypeOK, ApiTypeOK
<1>1. CASE UNCHANGED csVars
  BY <1>1 DEF csVars, NewsComplete, NewsOf
<1>2. CASE CsStep
  <2>1. PICK x \in Syncs, o \in ConfigSync \cup {NoObj} :
          CsWrite(x, o) /\ csCache' = csCache
    BY <1>2 DEF CsStep
  <2> QED BY <1>0, <2>1, WriteAdds, AddedComplete
<1>3. CASE DeliverSync
  <2> DEFINE h == Head(csWatch)
  <2>1. /\ cs' = cs /\ h = csWatch[1] /\ h \in CsEvent
        /\ csCache' = [csCache EXCEPT ![h.sync] = h.cell]
        /\ Len(csWatch') = Len(csWatch) - 1 /\ Len(csWatch) \in Nat \ {0}
        /\ \A i \in 1..Len(csWatch') :
             i + 1 \in 1..Len(csWatch) /\ csWatch'[i] = csWatch[i + 1]
    BY <1>0, <1>3, Delivered
  <2> HIDE DEF h
  <2>2. ASSUME NEW c \in Syncs, NEW j \in NewsOf(c), j # 1
        PROVE  j - 1 \in NewsOf(c)'
    BY <2>1, <2>2 DEF NewsOf
  <2>3. ASSUME NEW c \in Syncs, NEW i \in NewsOf(c)'
        PROVE  i + 1 \in NewsOf(c) /\ csWatch'[i] = csWatch[i + 1] /\ i \in Nat
    BY <2>1, <2>3 DEF NewsOf
  <2>4. ASSUME NEW c \in Syncs, NewsOf(c)' = {}
        PROVE  csCache'[c] = cs'[c]
    <3>1. \A j \in NewsOf(c) : j = 1
      BY <2>2, <2>4
    <3>2. CASE h.sync = c
      <4>1. 1 \in NewsOf(c)
        BY <2>1, <3>2 DEF NewsOf
      <4>2. csWatch[1].cell = cs[c]
        BY <3>1, <4>1 DEF NewsComplete
      <4> QED BY <1>0, <2>1, <3>2, <4>2
    <3>3. CASE h.sync # c
      <4>1. NewsOf(c) = {}
        BY <2>1, <3>1, <3>3 DEF NewsOf
      <4> QED BY <1>0, <2>1, <3>3, <4>1 DEF NewsComplete
    <3> QED BY <3>2, <3>3
  <2>5. ASSUME NEW c \in Syncs, NEW i \in NewsOf(c)',
               \A j \in NewsOf(c)' : j <= i
        PROVE  csWatch'[i].cell = cs'[c]
    <3>1. i + 1 \in NewsOf(c) /\ csWatch'[i] = csWatch[i + 1] /\ i \in Nat
      BY <2>3
    <3>2. ASSUME NEW j \in NewsOf(c)
          PROVE  j <= i + 1
      <4>1. CASE j = 1
        BY <3>1, <4>1
      <4>2. CASE j # 1
        <5>1. j - 1 <= i /\ j \in Nat
          BY <2>2, <2>5, <4>2 DEF NewsOf
        <5> QED BY <3>1, <5>1
      <4> QED BY <4>1, <4>2
    <3> QED BY <2>1, <3>1, <3>2 DEF NewsComplete
  <2> QED BY <2>4, <2>5 DEF NewsComplete
<1>4. CASE Restart
  <2>1. csCache' = cs' /\ csWatch' = <<>>
    BY <1>4 DEF Restart
  <2> QED BY <2>1 DEF NewsComplete, NewsOf
<1> QED BY <1>0, <1>1, <1>2, <1>3, <1>4, CsSteps

LEMMA DeletingSteps ==
  ASSUME CsInv, DeletingHasFinalizer, [Next]_vars
  PROVE  DeletingHasFinalizer'
<1>0. TypeInv /\ CsVersions /\ SnapFits /\ cs \in [Syncs -> Cell(ConfigSync)]
  BY DEF CsInv, TypeInv, TypeOK, ApiTypeOK
<1>1. CASE CsStep
  <2>1. PICK c \in Syncs, o \in ConfigSync \cup {NoObj} :
          /\ CsWrite(c, o)
          /\ \/ Created(cs[c].obj, o) \/ Kept(cs[c].obj, o)
             \/ Bound(cs[c].obj, o) \/ Asked(cs[c].obj, o)
             \/ Released(c, cs[c].obj, o)
    BY <1>1 DEF CsStep
  <2>2. o # NoObj /\ o.deleting => o.finalizer
    BY <2>1 DEF Created, Kept, Bound, Asked, Released, DeletingHasFinalizer,
                Exists
  <2>3. cs' = [cs EXCEPT ![c] = [rv |-> cs[c].rv + 1, obj |-> o]]
    BY <2>1 DEF CsWrite
  <2> QED BY <1>0, <2>2, <2>3 DEF DeletingHasFinalizer, Exists
<1>2. CASE UNCHANGED csVars \/ DeliverSync \/ Restart
  <2>1. cs' = cs
    BY <1>2 DEF csVars, DeliverSync, Restart
  <2> QED BY <2>1 DEF DeletingHasFinalizer, Exists
<1> QED BY <1>0, <1>1, <1>2, CsSteps

\* A change of a ConfigSync is news, and news goes only by being delivered or
\* with the process.
LEMMA NewsOfSteps ==
  ASSUME CsInv, [Next]_vars, ~Restart, NEW c \in Syncs, NewsOf(c)' = {}
  PROVE  /\ cs'[c] = cs[c]
         /\ \/ NewsOf(c) = {}
            \/ DeliverSync /\ c = Head(csWatch).sync
<1>0. /\ TypeInv /\ CsVersions /\ SnapFits
      /\ cs \in [Syncs -> Cell(ConfigSync)] /\ Len(csWatch) \in Nat
  BY DEF CsInv, TypeInv, TypeOK, ApiTypeOK
<1>1. CASE UNCHANGED csVars
  BY <1>1 DEF csVars, NewsOf
<1>2. CASE CsStep
  <2>1. PICK x \in Syncs, o \in ConfigSync \cup {NoObj} : CsWrite(x, o)
    BY <1>2 DEF CsStep
  <2> QED BY <1>0, <2>1, WriteAdds, AddedNews
<1>3. CASE DeliverSync
  <2> DEFINE h == Head(csWatch)
  <2>1. /\ cs' = cs /\ h = csWatch[1]
        /\ Len(csWatch') = Len(csWatch) - 1 /\ Len(csWatch) \in Nat \ {0}
        /\ \A i \in 1..Len(csWatch') :
             i + 1 \in 1..Len(csWatch) /\ csWatch'[i] = csWatch[i + 1]
    BY <1>0, <1>3, Delivered
  <2> HIDE DEF h
  <2>2. ASSUME NEW j \in NewsOf(c), j # 1
        PROVE  j - 1 \in NewsOf(c)'
    BY <2>1, <2>2 DEF NewsOf
  <2>3. NewsOf(c) = {} \/ c = h.sync
    BY <2>1, <2>2 DEF NewsOf
  <2> QED BY <1>3, <2>1, <2>3 DEF h
<1> QED BY <1>0, <1>1, <1>2, <1>3, CsSteps

-----------------------------------------------------------------------------
\* The queue

LEMMA IdleSteps ==
  ASSUME IdleHasNone, [Next]_vars
  PROVE  IdleHasNone'
<1>1. CASE PruneDone \/ \E c \in Syncs : ReconcileDeleted(c) \/ ReconcileSync(c)
  BY <1>1 DEF PruneDone, ReconcileDeleted, ReconcileSync, IdleHasNone
<1> QED BY <1>1, WorkerSteps DEF IdleHasNone

\* What a step does to the queue, the timers and the worker's ConfigSync.
LEMMA QueueSteps ==
  ASSUME [Next]_vars
  PROVE  \/ UNCHANGED <<csQueue, timers, cur>>
         \/ DeliverSync
         \/ \E c \in Syncs : Timer(c) \/ Begin(c) \/ ReconcileGone(c)
         \/ ReturnError
         \/ CleanDone \/ SyncDone
         \/ Restart
<1>1. CASE ReconcileStep
  BY <1>1 DEF ReconcileStep, PruneList, CleanList, CleanListFails, SyncList,
              SyncListFails, PruneDelete, CleanDelete, Delete, SyncItem,
              ListFails, PruneDone, queueVars
<1>2. ASSUME NEW c \in Syncs, ReconcileStart(c)
      PROVE  \/ UNCHANGED <<csQueue, timers, cur>>
             \/ Begin(c) \/ ReconcileGone(c)
  BY <1>2 DEF ReconcileStart, ReconcileFails, ReconcileAddFinalizer,
              ReconcileDeleted, ReconcileSync, queueVars, recVars
<1>3. CASE \/ UNCHANGED vars \/ DeliverNs \/ User \/ Cluster \/ NsWorker
           \/ \E kd \in Kinds : DeliverObj(kd) \/ ObjWorker(kd)
  BY <1>3 DEF vars, DeliverNs, DeliverObj, User, Cluster, NsWorker, ObjWorker,
              recVars, queueVars
<1> QED BY <1>1, <1>2, <1>3 DEF Next, MainWorker

LEMMA LoopSteps ==
  ASSUME LoopInv, [Next]_vars
  PROVE  PeriodicLoopAlive'
<1> DEFINE Waits(c) == c \in csQueue \cup timers \cup {cur}
<1>0. /\ CsInv /\ TypeInv /\ CsVersions /\ NewsComplete
      /\ DeletingHasFinalizer /\ IdleHasNone /\ PeriodicLoopAlive
      /\ cs \in [Syncs -> Cell(ConfigSync)]
  BY DEF LoopInv, CsInv, TypeInv, TypeOK, ApiTypeOK
<1> SUFFICES ASSUME NEW c \in Syncs, Exists(c)',
                    getSyncInterval(cs'[c].obj.spec) > 0, NewsOf(c)' = {}
             PROVE  Waits(c)'
  BY DEF PeriodicLoopAlive, NewsOf
<1>1. CASE Restart
  BY <1>1 DEF Restart, Exists
<1>2. ASSUME ~Restart
      PROVE  Waits(c)'
  <2>1. cs'[c] = cs[c] /\ Exists(c) /\ getSyncInterval(cs[c].obj.spec) > 0
    BY <1>0, <1>2, NewsOfSteps DEF Exists
  <2>2. CASE DeliverSync
    <3>1. csQueue' = csQueue \cup {Head(csWatch).sync} /\ UNCHANGED <<timers, cur>>
      BY <2>2 DEF DeliverSync, recVars
    <3>2. c = Head(csWatch).sync \/ NewsOf(c) = {}
      BY <1>0, <1>2, NewsOfSteps
    <3> QED BY <1>0, <2>1, <3>1, <3>2 DEF PeriodicLoopAlive, NewsOf
  <2>3. CASE ~DeliverSync
    <3>1. NewsOf(c) = {}
      BY <1>0, <1>2, <2>3, NewsOfSteps
    <3>2. Waits(c) /\ csCache[c] = cs[c]
      BY <1>0, <2>1, <3>1 DEF PeriodicLoopAlive, NewsOf, NewsComplete
    <3>3. CASE UNCHANGED <<csQueue, timers, cur>>
      BY <3>2, <3>3
    <3>4. ASSUME NEW x \in Syncs, Timer(x)
          PROVE  Waits(c)'
      BY <3>2, <3>4 DEF Timer, TimerFires, recVars
    <3>5. ASSUME NEW x \in Syncs, Begin(x)
          PROVE  Waits(c)'
      <4>1. cur = None /\ c # None
        BY <1>0, <3>5, ApiAssumption DEF Begin, Take, IdleHasNone
      <4> QED BY <3>2, <3>5, <4>1 DEF Begin
    <3>6. ASSUME NEW x \in Syncs, ReconcileGone(x)
          PROVE  Waits(c)'
      <4>1. /\ csQueue' = csQueue \ {x} /\ UNCHANGED <<timers, cur>>
            /\ csCache[x].obj # NoObj =>
                 csCache[x].obj.deleting /\ ~csCache[x].obj.finalizer
        BY <3>6 DEF ReconcileGone, recVars
      <4>2. x # c
        BY <1>0, <2>1, <3>2, <4>1 DEF Exists, DeletingHasFinalizer
      <4> QED BY <3>2, <4>1, <4>2
    <3>7. CASE ReturnError
      BY <3>2, <3>7 DEF ReturnError
    <3>8. CASE CleanDone
      <4>1. CASE CsWrite(cur, NoObj) /\ UNCHANGED queueVars
        <5>1. c # cur
          BY <1>0, <4>1 DEF CsWrite, Exists
        <5> QED BY <3>2, <4>1, <5>1 DEF queueVars
      <4> QED BY <3>7, <3>8, <4>1 DEF CleanDone
    <3>9. CASE SyncDone
      <4>1. CASE CsCanUpdate(cur, snap.rv) /\ RequeueAfter /\ pc = "sync"
        <5>1. CASE c = cur
          <6>1. cur # None
            BY <5>1, ApiAssumption
          <6>2. [sync |-> cur, cell |-> snap] \in CsReads
            BY <6>1 DEF CsReads, Held
          <6>3. snap = cs[c]
            BY <1>0, <4>1, <5>1, <6>2, ReadsCurrent DEF CsCanUpdate
          <6> QED BY <2>1, <4>1, <5>1, <6>3 DEF RequeueAfter, CurSpec
        <5>2. CASE c # cur
          BY <3>2, <4>1, <5>2 DEF RequeueAfter
        <5> QED BY <5>1, <5>2
      <4> QED BY <3>7, <3>9, <4>1 DEF SyncDone
    <3> QED BY <1>2, <2>3, <3>3, <3>4, <3>5, <3>6, <3>7, <3>8, <3>9, QueueSteps
  <2> QED BY <2>2, <2>3
<1> QED BY <1>1, <1>2

LEMMA LoopInit == Init => LoopInv
<1> SUFFICES ASSUME Init PROVE LoopInv
  OBVIOUS
<1>1. /\ csCache = cs /\ csWatch = <<>> /\ cur = None
      /\ \A c \in Syncs : ~Exists(c)
  BY DEF Init, RecInit, NoSyncs, Exists
<1> QED BY <1>1, CsInit
           DEF LoopInv, NewsComplete, NewsOf, DeletingHasFinalizer,
               IdleHasNone, PeriodicLoopAlive

LEMMA LoopInvSteps ==
  ASSUME LoopInv, [Next]_vars
  PROVE  LoopInv'
BY CsInvSteps, NewsCompleteSteps, DeletingSteps, IdleSteps, LoopSteps
   DEF LoopInv

\* Nothing the operator, its caches, its crashes or its users do takes a
\* ConfigSync out of the periodic sync, unless its interval overflows
\* (PeriodicLoopAlive).
THEOREM PeriodicLoopNeverDies == Spec => []PeriodicLoopAlive
<1>1. LoopInv => PeriodicLoopAlive
  BY DEF LoopInv
<1> QED BY <1>1, LoopInit, LoopInvSteps, PTL DEF Spec

-----------------------------------------------------------------------------
\* Another process of the operator

\* What this process hears of the step of another one is the change it makes.
LEMMA HearsNews ==
  ASSUME TypeInv, Hears, Moves, ServerTypes'
  PROVE  \/ cs' = cs /\ csWatch' = csWatch
         \/ \E x \in Syncs : Added(x)
<1> DEFINE S == {[sync |-> c, cell |-> cs'[c]] :
                   c \in {d \in Syncs : cs'[d] # cs[d]}}
<1>0. /\ csWatch \in Seq(CsEvent) /\ csWatch' = csWatch \o Told(S)
      /\ cs \in [Syncs -> Cell(ConfigSync)]
      /\ cs' \in [Syncs -> Cell(ConfigSync)]
  BY DEF Hears, CsNews, TypeInv, TypeOK, ApiTypeOK, ServerTypes
<1>1. CASE \A c \in Syncs : cs'[c] = cs[c]
  <2>1. S = {} /\ cs' = cs
    BY <1>0, <1>1
  <2>2. csWatch' = csWatch \o <<>>
    BY <1>0, <2>1 DEF Told
  <2> HIDE DEF S
  <2>3. csWatch' = csWatch
    BY <1>0, <2>2
  <2> QED BY <2>1, <2>3
<1>2. ASSUME NEW x \in Syncs, cs'[x] # cs[x]
      PROVE  Added(x)
  <2> DEFINE e == [sync |-> x, cell |-> cs'[x]]
  <2>1. \A c \in Syncs : c # x => cs'[c] = cs[c]
    BY <1>2 DEF Moves
  <2>2. S = {e}
    BY <1>2, <2>1
  <2>3. Told(S) = <<e>>
    BY <2>2 DEF Told
  <2>4. csWatch' = csWatch \o <<e>>
    BY <1>0, <2>3
  <2> HIDE DEF e, S
  <2>5. /\ Len(csWatch') = Len(csWatch) + 1
        /\ csWatch'[Len(csWatch) + 1] = e
        /\ \A i \in 1..Len(csWatch) : csWatch'[i] = csWatch[i]
    BY <1>0, <2>4
  <2> QED BY <2>1, <2>5 DEF Added, e
<1> QED BY <1>1, <1>2

\* So it stays in its own periodic sync whatever the others do.
LEMMA HearsLoop ==
  ASSUME LoopInv, Hears, Moves, ServerTypes', CsInv', DeletingHasFinalizer'
  PROVE  LoopInv'
<1>0. /\ TypeInv /\ NewsComplete /\ IdleHasNone /\ PeriodicLoopAlive
      /\ Len(csWatch) \in Nat
      /\ UNCHANGED <<csCache, csQueue, timers, cur, pc>>
  BY DEF LoopInv, CsInv, TypeInv, TypeOK, ApiTypeOK, Hears, memory, queueVars,
         recVars
<1>1. NewsComplete'
  BY <1>0, HearsNews, AddedComplete DEF NewsComplete, NewsOf
<1>2. ASSUME NEW c \in Syncs, NewsOf(c)' = {}
      PROVE  NewsOf(c) = {} /\ cs'[c] = cs[c]
  BY <1>0, <1>2, HearsNews, AddedNews DEF NewsOf
<1>3. PeriodicLoopAlive'
  BY <1>0, <1>2 DEF PeriodicLoopAlive, NewsOf, Exists
<1> QED BY <1>0, <1>1, <1>3 DEF LoopInv, IdleHasNone

-----------------------------------------------------------------------------
\* The abstract specification: every step of a controller, an informer or a
\* user is a step of the life of a ConfigSync, a change of owner of one
\* object, or neither

LifeInv == FinInv /\ ObjInv /\ Labelled

life == [c \in Syncs |-> Life(c)]
owner == [k \in Key |-> Owner(k)]

-----------------------------------------------------------------------------
\* The objects

\* A write changes the owner of one slot.
LEMMA OwnerOf ==
  ASSUME TypeInv, NEW k \in Key, NEW o \in Object \cup {NoObj}, Write(k, o)
  PROVE  owner' = [owner EXCEPT ![k] =
                     IF o = NoObj THEN NoObj
                     ELSE IF HasSyncLabel(o) THEN o.by ELSE None]
BY WrittenSlot DEF owner, Owner

LEMMA OwnerSteps ==
  ASSUME LifeInv, [Next]_vars, cs' = cs
  PROVE  \/ UNCHANGED <<life, owner>>
         \/ \E k \in Key : \/ Lifecycle!Empty(k) \/ Lifecycle!Put(k)
                           \/ \E c \in Syncs : Lifecycle!Copy(c, k)
<1> USE DEF Lifecycle!Empty, Lifecycle!Put, Lifecycle!Copy, Lifecycle!Own
<1>0. TypeInv /\ ObjInv /\ FinInv /\ Labelled
  BY DEF LifeInv, ObjInv
<1>1. life' = life
  BY DEF life, Life, Exists
<1>2. ASSUME NEW k \in Key, Write(k, NoObj)
      PROVE  Lifecycle!Empty(k)
  BY <1>0, <1>1, <1>2, OwnerOf DEF life, owner
<1>3. ASSUME NEW i \in items, CopyWrite(i)
      PROVE  \E k \in Key : \E c \in Syncs : Lifecycle!Copy(c, k)
  <2>1. /\ i.key \in Key /\ CopyFor(i) \in Object /\ Write(i.key, CopyFor(i))
        /\ store[i.key].obj # NoObj => HasSyncLabel(store[i.key].obj)
        /\ cur \in Syncs /\ Holds(cur) /\ HasSyncLabel(CopyFor(i))
        /\ CopyFor(i).by = cur /\ CopyFor(i) # NoObj
    BY <1>0, <1>3, CopyOverCopy, CopyLabels
       DEF CopyWrite, SyncItem, FinInv, FinalizerHolds
  <2>2. owner' = [owner EXCEPT ![i.key] = cur]
    BY <1>0, <2>1, OwnerOf
  <2>3. owner[i.key] # None
    BY <1>0, <2>1, NoObjAssumption, ApiAssumption DEF owner, Owner, Labelled
  <2>4. life[cur] \in {"bound", "leaving"}
    BY <2>1 DEF life, Life, Holds
  <2>5. Lifecycle!Copy(cur, i.key)
    BY <1>1, <2>2, <2>3, <2>4 DEF life, owner
  <2> QED BY <2>1, <2>5
<1>4. ASSUME NEW k \in Key, NEW o \in Object \cup {NoObj}, UserWrite(k, o)
      PROVE  \/ UNCHANGED owner \/ Lifecycle!Empty(k) \/ Lifecycle!Put(k)
  <2>1. owner' = [owner EXCEPT ![k] =
                    IF o = NoObj THEN NoObj
                    ELSE IF HasSyncLabel(o) THEN o.by ELSE None]
    BY <1>0, <1>4, OwnerOf DEF UserWrite
  <2>2. CASE o = NoObj
    BY <1>1, <2>1, <2>2 DEF life, owner
  <2>3. CASE o # NoObj /\ ~HasSyncLabel(o)
    BY <1>1, <2>1, <2>3 DEF life, owner
  <2>4. CASE o # NoObj /\ HasSyncLabel(o)
    <3>1. owner[k] = o.by
      BY <1>4, <2>4 DEF UserWrite, owner, Owner, HasSyncLabel
    <3> QED BY <2>1, <2>4, <3>1 DEF owner
  <2> QED BY <2>2, <2>3, <2>4
<1>5. (\E kd \in Kinds : DeliverObj(kd)) \/ Restart \/ UNCHANGED objVars
        => owner' = owner
  BY DEF DeliverObj, Restart, objVars, owner, Owner
<1> QED BY <1>0, <1>1, <1>2, <1>3, <1>4, <1>5, ObjSteps

-----------------------------------------------------------------------------
\* The ConfigSyncs

LEMMA LifeSteps ==
  ASSUME LifeInv, CsStep
  PROVE  \/ UNCHANGED <<life, owner>>
         \/ \E c \in Syncs :
              \/ Lifecycle!Create(c) \/ Lifecycle!Bind(c)
              \/ Lifecycle!Forget(c) \/ Lifecycle!Leave(c)
              \/ Lifecycle!Release(c)
<1> USE DEF Lifecycle!Create, Lifecycle!Bind, Lifecycle!Forget,
            Lifecycle!Leave, Lifecycle!Release, Lifecycle!Step
<1>1. PICK c \in Syncs, o \in ConfigSync \cup {NoObj} :
        /\ CsWrite(c, o) /\ UNCHANGED store
        /\ \/ Created(cs[c].obj, o) \/ Kept(cs[c].obj, o)
           \/ Bound(cs[c].obj, o) \/ Asked(cs[c].obj, o)
           \/ Released(c, cs[c].obj, o)
  BY DEF CsStep
<1>2. owner' = owner
  BY <1>1 DEF owner, Owner
<1>3. cs \in [Syncs -> Cell(ConfigSync)] /\ cs[c].obj \in ConfigSync \cup {NoObj}
  BY DEF LifeInv, ObjInv, TypeInv, TypeOK, ApiTypeOK, Cell
<1>4. /\ cs'[c].obj = o
      /\ \A x \in Syncs : x # c => cs'[x] = cs[x]
  BY <1>1, <1>3 DEF CsWrite
<1>5. life' = [life EXCEPT ![c] = Life(c)'] /\ life[c] = Life(c)
  BY <1>4 DEF life, Life, Exists
<1>6. /\ Life(c) = IF cs[c].obj = NoObj THEN "absent"
                   ELSE IF ~cs[c].obj.finalizer THEN "new"
                   ELSE IF cs[c].obj.deleting THEN "leaving" ELSE "bound"
      /\ Life(c)' = IF o = NoObj THEN "absent"
                    ELSE IF ~o.finalizer THEN "new"
                    ELSE IF o.deleting THEN "leaving" ELSE "bound"
  BY <1>4 DEF Life, Exists
<1> HIDE DEF life, owner
<1>7. CASE Created(cs[c].obj, o)
  <2>1. Life(c) = "absent" /\ Life(c)' = "new"
    BY <1>6, <1>7 DEF Created
  <2>2. Lifecycle!Create(c)
    BY <1>2, <1>5, <2>1 DEF life, owner
  <2> QED BY <2>2
<1>8. CASE Kept(cs[c].obj, o)
  <2>1. Life(c) = Life(c)'
    BY <1>6, <1>8 DEF Kept
  <2>2. life' = life
    BY <1>5, <2>1 DEF life
  <2> QED BY <1>2, <2>2
<1>9. CASE Bound(cs[c].obj, o)
  <2>1. Life(c) = "new" /\ Life(c)' = "bound"
    BY <1>6, <1>9 DEF Bound
  <2>2. Lifecycle!Bind(c)
    BY <1>2, <1>5, <2>1 DEF life, owner
  <2> QED BY <2>2
<1>10. CASE Asked(cs[c].obj, o)
  <2>1. \/ Life(c) = "new" /\ Life(c)' = "absent"
        \/ Life(c) = "bound" /\ Life(c)' = "leaving"
    BY <1>6, <1>10 DEF Asked
  <2>2. Lifecycle!Forget(c) \/ Lifecycle!Leave(c)
    BY <1>2, <1>5, <2>1 DEF life, owner
  <2> QED BY <2>2
<1>11. CASE Released(c, cs[c].obj, o)
  <2>1. Life(c) = "leaving" /\ Life(c)' = "absent"
    BY <1>6, <1>11 DEF Released, CanClean
  <2>2. Lifecycle!Release(c)
    BY <1>2, <1>5, <2>1 DEF life, owner
  <2> QED BY <2>2
<1> QED BY <1>1, <1>7, <1>8, <1>9, <1>10, <1>11

\* Every copy names its ConfigSync.
LEMMA LifeInvariant == Spec => []LifeInv
BY LabelledInvariant, FinInvariant, ObjVersionsInv, PTL DEF LifeInv

\* The operator keeps the promises of SyncLifecycle (KeepsLifecycle): copies
\* are made only for a ConfigSync that is bound to clean up after them, an
\* object of a user's becomes none, and a ConfigSync is let go of, for good,
\* only after its user asked for it.
THEOREM ImplementsLifecycle == Spec => KeepsLifecycle
<1>1. Init => Lifecycle!Init
  <2> SUFFICES ASSUME Init PROVE Lifecycle!Init
    OBVIOUS
  <2>1. /\ \A k \in Key : store[k].obj # NoObj => ~HasSyncLabel(store[k].obj)
        /\ \A c \in Syncs : ~Exists(c)
    BY InitAssumption DEF Init, InitStore, NoSyncs, Exists
  <2>2. [c \in Syncs |-> Life(c)] = [c \in Syncs |-> "absent"]
    BY <2>1 DEF Life
  <2>3. [k \in Key |-> Owner(k)] \in [Key -> {NoObj, None}]
    BY <2>1 DEF Owner
  <2> QED BY <2>2, <2>3 DEF Lifecycle!Init
<1>2. LifeInv /\ [Next]_vars => [Lifecycle!Next]_(Lifecycle!lifecycleVars)
  <2> SUFFICES ASSUME LifeInv, [Next]_vars
               PROVE  Lifecycle!Next \/ UNCHANGED <<life, owner>>
    BY DEF Lifecycle!lifecycleVars, life, owner
  <2>1. CASE CsStep
    BY <2>1, LifeSteps DEF Lifecycle!Next
  <2>2. CASE UNCHANGED csVars \/ DeliverSync \/ Restart
    <3>1. cs' = cs
      BY <2>2 DEF csVars, DeliverSync, Restart
    <3> QED BY <3>1, OwnerSteps DEF Lifecycle!Next
  <2> QED BY <2>1, <2>2, CsSteps DEF LifeInv, FinInv, CsInv
<1> QED BY <1>1, <1>2, LifeInvariant, PTL DEF Spec, KeepsLifecycle, Lifecycle!Spec

=============================================================================
