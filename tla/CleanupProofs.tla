---------------------------- MODULE CleanupProofs ----------------------------
(***************************************************************************)
(* Why the cleanup finds every copy when the caches it reads are not       *)
(* behind: an informer that has no news left shows what is there, nothing  *)
(* but the worker itself makes copies, and objects lie in namespaces that  *)
(* exist.                                                                  *)
(***************************************************************************)
EXTENDS FinalizerSafety, OperatorHistory

-----------------------------------------------------------------------------
\* An informer without news shows what is there

ObjNewsOf(k) == {i \in 1..Len(watch[k.kind]) : watch[k.kind][i].key = k}
NsNewsOf(n) == {i \in 1..Len(nsWatch) : nsWatch[i].ns = n}

\* The news of an object comes down the watch of its kind
NewsByKind ==
  \A kd \in Kinds : \A i \in 1..Len(watch[kd]) : watch[kd][i].key.kind = kd

\* What comes last is what is there; where nothing comes, the cache shows it
ObjNewsComplete ==
  \A k \in Key :
    /\ ObjNewsOf(k) = {} => cache[k] = store[k]
    /\ \A i \in ObjNewsOf(k) :
         (\A j \in ObjNewsOf(k) : j <= i) => watch[k.kind][i].cell = store[k]

NsNewsComplete ==
  \A n \in Namespaces :
    /\ NsNewsOf(n) = {} => (n \in nsCache <=> n \in nss)
    /\ \A i \in NsNewsOf(n) :
         (\A j \in NsNewsOf(n) : j <= i) => (nsWatch[i].exists <=> n \in nss)

\* Objects lie in namespaces that exist
Lodged == \A k \in Key : store[k].obj # NoObj => k.ns \in nss

NewsInv ==
  LifeInv /\ NewsByKind /\ ObjNewsComplete /\ NsNewsComplete /\ Lodged

\* A write that changes an object is the last of the news of its kind.
LEMMA ObjWritten ==
  ASSUME TypeInv, NEW k \in Key, NEW o \in Object \cup {NoObj}, Write(k, o),
         store[k].obj # o
  PROVE  LET e == [key |-> k, cell |-> [rv |-> store[k].rv + 1, obj |-> o]]
             n == Len(watch[k.kind])
         IN  /\ store' = [store EXCEPT ![k] = e.cell]
             /\ n \in Nat /\ Len(watch'[k.kind]) = n + 1
             /\ watch'[k.kind][n + 1] = e
             /\ \A i \in 1..n : watch'[k.kind][i] = watch[k.kind][i]
             /\ \A kd \in Kinds : kd # k.kind => watch'[kd] = watch[kd]
<1> DEFINE e == [key |-> k, cell |-> [rv |-> store[k].rv + 1, obj |-> o]]
<1>1. /\ store' = [store EXCEPT ![k] = e.cell]
      /\ watch' = [watch EXCEPT ![k.kind] = Append(@, e)]
  BY DEF Write
<1>2. watch \in [Kinds -> Seq(ObjEvent)] /\ k.kind \in Kinds
  BY DEF TypeInv, TypeOK, ApiTypeOK, Key
<1>3. watch[k.kind] \in Seq(ObjEvent)
  BY <1>2
<1> HIDE DEF e
<1>4. watch'[k.kind] = Append(watch[k.kind], e)
  BY <1>1, <1>2
<1>5. /\ Len(watch[k.kind]) \in Nat
      /\ Len(watch'[k.kind]) = Len(watch[k.kind]) + 1
      /\ watch'[k.kind][Len(watch[k.kind]) + 1] = e
      /\ \A i \in 1..Len(watch[k.kind]) : watch'[k.kind][i] = watch[k.kind][i]
  BY <1>3, <1>4
<1>6. \A kd \in Kinds : kd # k.kind => watch'[kd] = watch[kd]
  BY <1>1, <1>2
<1> QED BY <1>1, <1>5, <1>6 DEF e

\* A delivery takes the first of the news of a kind and leaves the others.
LEMMA ObjDelivered ==
  ASSUME TypeInv, NEW kd \in Kinds, DeliverObj(kd)
  PROVE  LET h == Head(watch[kd])
         IN  /\ store' = store /\ h = watch[kd][1] /\ h \in ObjEvent
             /\ cache' = [cache EXCEPT ![h.key] = h.cell]
             /\ Len(watch[kd]) \in Nat \ {0}
             /\ Len(watch'[kd]) = Len(watch[kd]) - 1
             /\ \A i \in 1..Len(watch'[kd]) :
                  i + 1 \in 1..Len(watch[kd]) /\ watch'[kd][i] = watch[kd][i + 1]
             /\ \A x \in Kinds : x # kd => watch'[x] = watch[x]
<1>1. /\ store' = store /\ watch[kd] # <<>>
      /\ cache' = [cache EXCEPT ![Head(watch[kd]).key] = Head(watch[kd]).cell]
      /\ watch' = [watch EXCEPT ![kd] = Tail(@)]
      /\ watch \in [Kinds -> Seq(ObjEvent)]
  BY DEF DeliverObj, TypeInv, TypeOK, ApiTypeOK
<1>2. watch[kd] \in Seq(ObjEvent) /\ watch'[kd] = Tail(watch[kd])
  BY <1>1
<1>3. /\ Len(watch[kd]) \in Nat \ {0} /\ Head(watch[kd]) = watch[kd][1]
      /\ Head(watch[kd]) \in ObjEvent /\ Len(watch'[kd]) = Len(watch[kd]) - 1
  BY <1>1, <1>2
<1>4. \A i \in 1..Len(watch'[kd]) :
        i + 1 \in 1..Len(watch[kd]) /\ watch'[kd][i] = watch[kd][i + 1]
  BY <1>2, <1>3
<1>5. \A x \in Kinds : x # kd => watch'[x] = watch[x]
  BY <1>1
<1> QED BY <1>1, <1>3, <1>4, <1>5

LEMMA ObjNewsWrite ==
  ASSUME TypeInv, NewsByKind, ObjNewsComplete, cache' = cache,
         NEW k \in Key, NEW o \in Object \cup {NoObj}, Write(k, o)
  PROVE  NewsByKind' /\ ObjNewsComplete'
<1>1. CASE store[k].obj = o
  <2>1. UNCHANGED <<store, watch>>
    BY <1>1 DEF Write
  <2> QED BY <2>1 DEF NewsByKind, ObjNewsComplete, ObjNewsOf
<1>2. CASE store[k].obj # o
  <2> DEFINE e == [key |-> k, cell |-> [rv |-> store[k].rv + 1, obj |-> o]]
             n == Len(watch[k.kind])
  <2>1. /\ store' = [store EXCEPT ![k] = e.cell]
        /\ n \in Nat /\ Len(watch'[k.kind]) = n + 1
        /\ watch'[k.kind][n + 1] = e
        /\ \A i \in 1..n : watch'[k.kind][i] = watch[k.kind][i]
        /\ \A kd \in Kinds : kd # k.kind => watch'[kd] = watch[kd]
    BY <1>2, ObjWritten
  <2>2. e.key = k /\ store \in [Key -> Cell(Object)]
        /\ n = Len(watch[k.kind]) /\ \A x \in Key : x.kind \in Kinds
    BY DEF TypeInv, TypeOK, ApiTypeOK, Key
  <2> HIDE DEF e, n
  <2>3. NewsByKind'
    <3> SUFFICES ASSUME NEW kd \in Kinds, NEW i \in 1..Len(watch'[kd])
                 PROVE  watch'[kd][i].key.kind = kd
      BY DEF NewsByKind
    <3>1. CASE kd = k.kind
      <4>1. i \in 1..n + 1 /\ kd = k.kind
        BY <2>1, <3>1
      <4>2. CASE i = n + 1
        BY <2>1, <2>2, <3>1, <4>2
      <4>3. CASE i \in 1..n
        BY <2>1, <2>2, <3>1, <4>3 DEF NewsByKind
      <4> QED BY <2>1, <4>1, <4>2, <4>3
    <3>2. CASE kd # k.kind
      BY <2>1, <3>2 DEF NewsByKind
    <3> QED BY <3>1, <3>2
  <2>4. ASSUME NEW x \in Key
        PROVE  /\ ObjNewsOf(x)' = {} => cache'[x] = store'[x]
               /\ \A i \in ObjNewsOf(x)' :
                    (\A j \in ObjNewsOf(x)' : j <= i) =>
                      watch'[x.kind][i].cell = store'[x]
    <3>1. CASE x = k
      <4>1. n + 1 \in ObjNewsOf(x)' /\ store'[x] = watch'[x.kind][n + 1].cell
        BY <2>1, <2>2, <3>1 DEF ObjNewsOf
      <4>2. ASSUME NEW i \in ObjNewsOf(x)', \A j \in ObjNewsOf(x)' : j <= i
            PROVE  i = n + 1
        <5>1. n + 1 <= i
          BY <4>1, <4>2
        <5>2. i \in 1..Len(watch'[x.kind]) /\ Len(watch'[x.kind]) = n + 1
          BY <2>1, <3>1, <4>2 DEF ObjNewsOf
        <5> QED BY <2>1, <5>1, <5>2
      <4> QED BY <4>1, <4>2
    <3>2. CASE x # k
      <4>1. ObjNewsOf(x)' = ObjNewsOf(x) /\ store'[x] = store[x]
        <5>1. CASE x.kind = k.kind
          BY <2>1, <2>2, <3>2, <5>1 DEF ObjNewsOf
        <5>2. CASE x.kind # k.kind
          BY <2>1, <2>2, <3>2, <5>2 DEF ObjNewsOf
        <5> QED BY <5>1, <5>2
      <4>2. \A i \in ObjNewsOf(x) : watch'[x.kind][i] = watch[x.kind][i]
        BY <2>1, <2>2 DEF ObjNewsOf
      <4> QED BY <4>1, <4>2 DEF ObjNewsComplete
    <3> QED BY <3>1, <3>2
  <2> QED BY <2>3, <2>4 DEF ObjNewsComplete
<1> QED BY <1>1, <1>2

LEMMA ObjNewsDeliver ==
  ASSUME TypeInv, NewsByKind, ObjNewsComplete, NEW kd \in Kinds, DeliverObj(kd)
  PROVE  NewsByKind' /\ ObjNewsComplete'
<1> DEFINE h == Head(watch[kd])
<1>1. /\ store' = store /\ h = watch[kd][1] /\ h \in ObjEvent
      /\ cache' = [cache EXCEPT ![h.key] = h.cell]
      /\ Len(watch[kd]) \in Nat \ {0}
      /\ Len(watch'[kd]) = Len(watch[kd]) - 1
      /\ \A i \in 1..Len(watch'[kd]) :
           i + 1 \in 1..Len(watch[kd]) /\ watch'[kd][i] = watch[kd][i + 1]
      /\ \A x \in Kinds : x # kd => watch'[x] = watch[x]
  BY ObjDelivered
<1>2. /\ cache \in [Key -> Cell(Object)] /\ \A x \in Key : x.kind \in Kinds
  BY DEF TypeInv, TypeOK, ApiTypeOK, Key
<1> HIDE DEF h
<1>3. NewsByKind'
  <2> SUFFICES ASSUME NEW x \in Kinds, NEW i \in 1..Len(watch'[x])
               PROVE  watch'[x][i].key.kind = x
    BY DEF NewsByKind
  <2>1. CASE x = kd
    BY <1>1, <2>1 DEF NewsByKind
  <2>2. CASE x # kd
    BY <1>1, <2>2 DEF NewsByKind
  <2> QED BY <2>1, <2>2
<1>4. h.key.kind = kd
  BY <1>1 DEF NewsByKind
<1>5. ASSUME NEW x \in Key
      PROVE  /\ ObjNewsOf(x)' = {} => cache'[x] = store'[x]
             /\ \A i \in ObjNewsOf(x)' :
                  (\A j \in ObjNewsOf(x)' : j <= i) =>
                    watch'[x.kind][i].cell = store'[x]
  <2>1. CASE x.kind # kd
    <3>1. watch'[x.kind] = watch[x.kind] /\ cache'[x] = cache[x]
      BY <1>1, <1>2, <1>4, <2>1
    <3>2. ObjNewsOf(x)' = ObjNewsOf(x)
      BY <3>1 DEF ObjNewsOf
    <3> QED BY <1>1, <3>1, <3>2 DEF ObjNewsComplete
  <2>2. CASE x.kind = kd
    <3>1. ASSUME NEW j \in ObjNewsOf(x), j # 1
          PROVE  j - 1 \in ObjNewsOf(x)'
      BY <1>1, <2>2, <3>1 DEF ObjNewsOf
    <3>2. ASSUME NEW i \in ObjNewsOf(x)'
          PROVE  /\ i + 1 \in ObjNewsOf(x) /\ i \in Nat
                 /\ watch'[x.kind][i] = watch[x.kind][i + 1]
      BY <1>1, <2>2, <3>2 DEF ObjNewsOf
    <3>3. ASSUME ObjNewsOf(x)' = {}
          PROVE  cache'[x] = store'[x]
      <4>1. \A j \in ObjNewsOf(x) : j = 1
        BY <3>1, <3>3
      <4>2. CASE h.key = x
        <5>1. 1 \in ObjNewsOf(x)
          BY <1>1, <2>2, <4>2 DEF ObjNewsOf
        <5>2. h.cell = store[x]
          BY <1>1, <2>2, <4>1, <5>1 DEF ObjNewsComplete
        <5> QED BY <1>1, <1>2, <4>2, <5>2
      <4>3. CASE h.key # x
        <5>1. ObjNewsOf(x) = {}
          BY <1>1, <2>2, <4>1, <4>3 DEF ObjNewsOf
        <5> QED BY <1>1, <1>2, <4>3, <5>1 DEF ObjNewsComplete
      <4> QED BY <4>2, <4>3
    <3>4. ASSUME NEW i \in ObjNewsOf(x)', \A j \in ObjNewsOf(x)' : j <= i
          PROVE  watch'[x.kind][i].cell = store'[x]
      <4>1. /\ i + 1 \in ObjNewsOf(x) /\ i \in Nat
            /\ watch'[x.kind][i] = watch[x.kind][i + 1]
        BY <3>2
      <4>2. ASSUME NEW j \in ObjNewsOf(x)
            PROVE  j <= i + 1
        <5>1. CASE j = 1
          BY <4>1, <5>1
        <5>2. CASE j # 1
          <6>1. j - 1 <= i /\ j \in Nat
            BY <3>1, <3>4, <5>2 DEF ObjNewsOf
          <6> QED BY <4>1, <6>1
        <5> QED BY <5>1, <5>2
      <4> QED BY <1>1, <4>1, <4>2 DEF ObjNewsComplete
    <3> QED BY <3>3, <3>4
  <2> QED BY <2>1, <2>2
<1> QED BY <1>3, <1>5 DEF ObjNewsComplete

LEMMA ObjNewsSteps ==
  ASSUME ObjInv, NewsByKind, ObjNewsComplete, [Next]_vars
  PROVE  NewsByKind' /\ ObjNewsComplete'
<1>0. TypeInv
  BY DEF ObjInv
<1>1. CASE UNCHANGED objVars
  BY <1>1 DEF objVars, NewsByKind, ObjNewsComplete, ObjNewsOf
<1>2. ASSUME NEW i \in items, CopyWrite(i), cache' = cache
      PROVE  NewsByKind' /\ ObjNewsComplete'
  BY <1>0, <1>2, CopyOverCopy, ObjNewsWrite
<1>3. CASE Restart
  <2>1. store' = store /\ cache' = store /\ \A kd \in Kinds : watch'[kd] = <<>>
    BY <1>3 DEF Restart
  <2>2. \A k \in Key : k.kind \in Kinds
    BY DEF Key
  <2> QED BY <2>1, <2>2 DEF NewsByKind, ObjNewsComplete, ObjNewsOf
<1>4. CASE cache' = cache /\ \E k \in Key : Write(k, NoObj)
  BY <1>0, <1>4, ObjNewsWrite
<1>5. CASE cache' = cache /\ \E k \in Key, o \in Object \cup {NoObj} : UserWrite(k, o)
  BY <1>0, <1>5, ObjNewsWrite DEF UserWrite
<1>6. CASE \E kd \in Kinds : DeliverObj(kd)
  BY <1>0, <1>6, ObjNewsDeliver
<1> QED BY <1>0, <1>1, <1>2, <1>3, <1>4, <1>5, <1>6, ObjSteps

-----------------------------------------------------------------------------
\* The namespaces

Appears(n) ==
  /\ nss' = nss \cup {n}
  /\ nsWatch' = Append(nsWatch, [ns |-> n, exists |-> TRUE])
Vanishes(n) ==
  /\ \A k \in Key : k.ns = n => store[k].obj = NoObj
  /\ nss' = nss \ {n}
  /\ nsWatch' = Append(nsWatch, [ns |-> n, exists |-> FALSE])

\* What a step does to the namespaces: nothing, one appears or vanishes, or a
\* delivery.
LEMMA NsSteps ==
  ASSUME [Next]_vars
  PROVE  \/ UNCHANGED <<nss, nsCache, nsWatch>>
         \/ /\ UNCHANGED <<store, nsCache>>
            /\ \E n \in Namespaces : Appears(n) \/ Vanishes(n)
         \/ DeliverNs
         \/ Restart
<1>1. CASE ReconcileStep \/ \E c \in Syncs : ReconcileStart(c) \/ Timer(c)
  BY <1>1 DEF ReconcileStart, ReconcileFails, ReconcileGone, Timer, TimerFires,
              ReconcileAddFinalizer, ReconcileDeleted, ReconcileSync, Begin,
              ReconcileStep, PruneList, CleanList, CleanListFails, SyncList,
              SyncListFails, PruneDelete, CleanDelete, Delete, SyncItem,
              ListFails, PruneDone, CleanDone, SyncDone, apiVars, nsVars
<1>2. CASE NsWorker \/ \E kd \in Kinds : ObjWorker(kd) \/ DeliverObj(kd)
  BY <1>2 DEF NsWorker, NsStart, NsFails, NsReconcile, NsStep, NsStamp,
              ObjWorker, ObjStart, ObjFails, ObjSkip, ObjDeleted, ObjChanged,
              ObjTake, ObjStep, ObjDeleteCopy, ObjStamp, DeliverObj, apiVars,
              nsVars
<1>3. CASE User
  BY <1>3, BoundsAssumption
     DEF User, UserRequest, Request, UserCreate, UserUpdate, UserDelete,
         CreateConfigSync, EditConfigSync, DeleteConfigSync, CreateNamespace,
         DeleteNamespace, Appears
<1>4. CASE Cluster
  BY <1>4 DEF Cluster, NamespaceController, Evict, NamespaceGone, objVars,
              nsVars, Vanishes
<1>5. CASE DeliverSync \/ UNCHANGED vars
  BY <1>5 DEF DeliverSync, vars, apiVars, nsVars
<1> QED BY <1>1, <1>2, <1>3, <1>4, <1>5 DEF Next, MainWorker

LEMMA NsNewsWrite ==
  ASSUME TypeInv, NsNewsComplete, nsCache' = nsCache, NEW n \in Namespaces,
         Appears(n) \/ Vanishes(n)
  PROVE  NsNewsComplete'
<1> DEFINE m == Len(nsWatch)
<1>1. PICK b \in BOOLEAN :
        /\ nss' = IF b THEN nss \cup {n} ELSE nss \ {n}
        /\ nsWatch' = Append(nsWatch, [ns |-> n, exists |-> b])
  BY DEF Appears, Vanishes
<1> DEFINE e == [ns |-> n, exists |-> b]
<1>2. nsWatch \in Seq(NsEvent) /\ e.ns = n /\ e.exists = b
  BY DEF TypeInv, TypeOK, ApiTypeOK
<1>3. nsWatch' = Append(nsWatch, e)
  BY <1>1
<1> HIDE DEF e
<1>4. /\ m \in Nat /\ m = Len(nsWatch) /\ Len(nsWatch') = m + 1
      /\ nsWatch'[m + 1] = e
      /\ \A i \in 1..m : nsWatch'[i] = nsWatch[i]
  BY <1>2, <1>3
<1> HIDE DEF m
<1> SUFFICES ASSUME NEW x \in Namespaces
             PROVE  /\ NsNewsOf(x)' = {} => (x \in nsCache' <=> x \in nss')
                    /\ \A i \in NsNewsOf(x)' :
                         (\A j \in NsNewsOf(x)' : j <= i) =>
                           (nsWatch'[i].exists <=> x \in nss')
  BY DEF NsNewsComplete
<1>5. CASE x = n
  <2>1. m + 1 \in NsNewsOf(x)'
    BY <1>2, <1>4, <1>5 DEF NsNewsOf
  <2>2. nsWatch'[m + 1].exists <=> x \in nss'
    BY <1>1, <1>2, <1>4, <1>5
  <2>3. ASSUME NEW i \in NsNewsOf(x)', \A j \in NsNewsOf(x)' : j <= i
        PROVE  i = m + 1
    <3>1. m + 1 <= i
      BY <2>1, <2>3
    <3>2. i \in 1..Len(nsWatch')
      BY <2>3 DEF NsNewsOf
    <3> QED BY <1>4, <3>1, <3>2
  <2> QED BY <2>1, <2>2, <2>3
<1>6. CASE x # n
  <2>1. x \in nss' <=> x \in nss
    BY <1>1, <1>6
  <2>2. NsNewsOf(x)' = NsNewsOf(x)
    BY <1>2, <1>4, <1>6 DEF NsNewsOf
  <2>3. \A i \in NsNewsOf(x) : nsWatch'[i] = nsWatch[i]
    BY <1>4 DEF NsNewsOf
  <2> QED BY <2>1, <2>2, <2>3 DEF NsNewsComplete
<1> QED BY <1>5, <1>6

LEMMA NsNewsDeliver ==
  ASSUME TypeInv, NsNewsComplete, DeliverNs
  PROVE  NsNewsComplete'
<1> DEFINE h == Head(nsWatch)
<1>1. /\ nsWatch \in Seq(NsEvent) /\ nsWatch # <<>> /\ nss' = nss
      /\ nsWatch' = Tail(nsWatch)
      /\ nsCache' = IF h.exists THEN nsCache \cup {h.ns} ELSE nsCache \ {h.ns}
  BY DEF DeliverNs, TypeInv, TypeOK, ApiTypeOK
<1>2. /\ Len(nsWatch) \in Nat \ {0} /\ h = nsWatch[1]
      /\ Len(nsWatch') = Len(nsWatch) - 1
      /\ \A i \in 1..Len(nsWatch') :
           i + 1 \in 1..Len(nsWatch) /\ nsWatch'[i] = nsWatch[i + 1]
  BY <1>1
<1> HIDE DEF h
<1> SUFFICES ASSUME NEW x \in Namespaces
             PROVE  /\ NsNewsOf(x)' = {} => (x \in nsCache' <=> x \in nss')
                    /\ \A i \in NsNewsOf(x)' :
                         (\A j \in NsNewsOf(x)' : j <= i) =>
                           (nsWatch'[i].exists <=> x \in nss')
  BY DEF NsNewsComplete
<1>3. ASSUME NEW j \in NsNewsOf(x), j # 1
      PROVE  j - 1 \in NsNewsOf(x)'
  BY <1>2, <1>3 DEF NsNewsOf
<1>4. ASSUME NEW i \in NsNewsOf(x)'
      PROVE  /\ i + 1 \in NsNewsOf(x) /\ i \in Nat
             /\ nsWatch'[i] = nsWatch[i + 1]
  BY <1>2, <1>4 DEF NsNewsOf
<1>5. ASSUME NsNewsOf(x)' = {}
      PROVE  x \in nsCache' <=> x \in nss'
  <2>1. \A j \in NsNewsOf(x) : j = 1
    BY <1>3, <1>5
  <2>2. CASE h.ns = x
    <3>1. 1 \in NsNewsOf(x)
      BY <1>2, <2>2 DEF NsNewsOf
    <3>2. h.exists <=> x \in nss
      BY <1>2, <2>1, <3>1 DEF NsNewsComplete
    <3> QED BY <1>1, <2>2, <3>2
  <2>3. CASE h.ns # x
    <3>1. NsNewsOf(x) = {}
      BY <1>2, <2>1, <2>3 DEF NsNewsOf
    <3> QED BY <1>1, <2>3, <3>1 DEF NsNewsComplete
  <2> QED BY <2>2, <2>3
<1>6. ASSUME NEW i \in NsNewsOf(x)', \A j \in NsNewsOf(x)' : j <= i
      PROVE  nsWatch'[i].exists <=> x \in nss'
  <2>1. i + 1 \in NsNewsOf(x) /\ i \in Nat /\ nsWatch'[i] = nsWatch[i + 1]
    BY <1>4
  <2>2. ASSUME NEW j \in NsNewsOf(x)
        PROVE  j <= i + 1
    <3>1. CASE j = 1
      BY <2>1, <3>1
    <3>2. CASE j # 1
      <4>1. j - 1 <= i /\ j \in Nat
        BY <1>3, <1>6, <3>2 DEF NsNewsOf
      <4> QED BY <2>1, <4>1
    <3> QED BY <3>1, <3>2
  <2> QED BY <1>1, <2>1, <2>2 DEF NsNewsComplete
<1> QED BY <1>5, <1>6

LEMMA NsNewsSteps ==
  ASSUME TypeInv, NsNewsComplete, [Next]_vars
  PROVE  NsNewsComplete'
<1>1. CASE UNCHANGED <<nss, nsCache, nsWatch>>
  BY <1>1 DEF NsNewsComplete, NsNewsOf
<1>2. CASE Restart
  BY <1>2 DEF Restart, NsNewsComplete, NsNewsOf
<1> QED BY <1>1, <1>2, NsSteps, NsNewsWrite, NsNewsDeliver

LEMMA LodgedSteps ==
  ASSUME ObjInv, Lodged, [Next]_vars
  PROVE  Lodged'
<1>0. TypeInv
  BY DEF ObjInv
<1>1. CASE UNCHANGED store
  BY <1>1, NsSteps
     DEF Lodged, Appears, Vanishes, DeliverNs, Restart
<1>2. ASSUME NEW k \in Key, NEW o \in Object \cup {NoObj}, Write(k, o),
             o # NoObj => store[k].obj # NoObj \/ k.ns \in nss,
             store' # store
      PROVE  Lodged'
  <2>1. nss' = nss
    BY <1>2, NsSteps DEF DeliverNs, Restart, objVars
  <2> QED BY <1>0, <1>2, <2>1, WrittenSlot DEF Lodged
<1>3. ASSUME NEW i \in items, CopyWrite(i), store' # store
      PROVE  Lodged'
  <2>1. i.key \in Key /\ CopyFor(i) \in Object /\ Write(i.key, CopyFor(i))
    BY <1>3, CopyOverCopy
  <2>2. store[i.key].obj # NoObj \/ i.key.ns \in nss
    BY <1>3 DEF CopyWrite, Accepted, CanCreate, CanUpdate
  <2> QED BY <1>2, <1>3, <2>1, <2>2
<1>4. ASSUME NEW k \in Key, NEW o \in Object \cup {NoObj}, UserWrite(k, o),
             store' # store
      PROVE  Lodged'
  BY <1>2, <1>4 DEF UserWrite
<1>5. (\E kd \in Kinds : DeliverObj(kd)) \/ Restart \/ UNCHANGED objVars
        => UNCHANGED store
  BY DEF DeliverObj, Restart, objVars
<1>6. ASSUME NEW k \in Key, Write(k, NoObj), store' # store
      PROVE  Lodged'
  BY <1>2, <1>6
<1> QED BY <1>0, <1>1, <1>3, <1>4, <1>5, <1>6, ObjSteps

\* Where an informer has no news, its cache shows what is there.
LEMMA NewsInvariant == Spec => []NewsInv
<1>1. Init => NewsByKind /\ ObjNewsComplete /\ NsNewsComplete /\ Lodged
  <2> SUFFICES ASSUME Init
               PROVE  NewsByKind /\ ObjNewsComplete /\ NsNewsComplete /\ Lodged
    OBVIOUS
  <2>1. /\ cache = store /\ nsCache = nss /\ nsWatch = <<>>
        /\ \A kd \in Kinds : watch[kd] = <<>>
        /\ \A k \in Key : k.kind \in Kinds
        /\ \A k \in Key : store[k].obj # NoObj => k.ns \in nss
    BY InitAssumption DEF Init, InitStore, Key
  <2> QED BY <2>1 DEF NewsByKind, ObjNewsComplete, ObjNewsOf, NsNewsComplete,
                      NsNewsOf, Lodged
<1>2. NewsInv /\ LifeInv' /\ [Next]_vars => NewsInv'
  <2> SUFFICES ASSUME NewsInv, LifeInv', [Next]_vars PROVE NewsInv'
    OBVIOUS
  <2>1. ObjInv /\ TypeInv
    BY DEF NewsInv, LifeInv, ObjInv
  <2> QED BY <2>1, ObjNewsSteps, NsNewsSteps, LodgedSteps DEF NewsInv
<1>3. LifeInv /\ Init => NewsInv
  BY <1>1 DEF NewsInv
<1> QED BY <1>2, <1>3, LifeInvariant, PTL DEF Spec

-----------------------------------------------------------------------------
\* What the worker has still to delete

\* The worker deletes copies of its own ConfigSync
DelsOurs ==
  /\ dels # {} => pc \in {"prune", "clean"}
  /\ \A k \in dels \cap Copies : store[k].obj.by = cur

\* A labelled object is the one that was there, or the copy the worker writes.
LEMMA LabelSteps ==
  ASSUME LifeInv, [Next]_vars, NEW k \in Copies'
  PROVE  \/ /\ k \in Copies
            /\ store'[k].obj.from = store[k].obj.from
            /\ store'[k].obj.by = store[k].obj.by
         \/ \E i \in items :
              CopyWrite(i) /\ k = i.key /\ store'[k].obj = CopyFor(i)
<1>0. TypeInv /\ ObjInv /\ k \in Key
      /\ store'[k].obj # NoObj /\ HasSyncLabel(store'[k].obj)
  BY DEF LifeInv, ObjInv, Copies, HasSyncLabel
<1>1. CASE store'[k] = store[k]
  BY <1>0, <1>1 DEF Copies
<1>2. ASSUME NEW x \in Key, NEW o \in Object \cup {NoObj}, Write(x, o),
             store'[k] # store[k]
      PROVE  x = k /\ store'[k].obj = o
  BY <1>0, <1>2, WrittenSlot
<1>3. ASSUME NEW i \in items, CopyWrite(i), store'[k] # store[k]
      PROVE  k = i.key /\ store'[k].obj = CopyFor(i)
  BY <1>0, <1>2, <1>3, CopyOverCopy
<1>4. ASSUME NEW x \in Key, NEW o \in Object \cup {NoObj}, UserWrite(x, o),
             store'[k] # store[k]
      PROVE  /\ k \in Copies
             /\ store'[k].obj.from = store[k].obj.from
             /\ store'[k].obj.by = store[k].obj.by
  <2>1. x = k /\ o = store'[k].obj
    BY <1>2, <1>4 DEF UserWrite
  <2> QED BY <1>0, <1>4, <2>1 DEF UserWrite, Copies, HasSyncLabel
<1>5. ASSUME NEW x \in Key, Write(x, NoObj), store'[k] # store[k]
      PROVE  FALSE
  BY <1>0, <1>2, <1>5
<1>6. (\E kd \in Kinds : DeliverObj(kd)) \/ Restart \/ UNCHANGED objVars
        => UNCHANGED store
  BY DEF DeliverObj, Restart, objVars
<1> QED BY <1>0, <1>1, <1>3, <1>4, <1>5, <1>6, ObjSteps

LEMMA FreshNextNext ==
  ASSUME [FreshNext]_vars PROVE [Next]_vars
BY DEF FreshNext, Next

\* What the worker deletes, it finds in caches that show what is there.
LEMMA FreshSteps ==
  ASSUME NewsInv, [FreshNext]_vars
  PROVE  \/ UNCHANGED recVars
         \/ Restart
         \/ /\ MainWorker
            /\ pc = "idle" => nsCache = nss
            /\ ListsToDelete => cache = store
<1>0. /\ TypeInv /\ ObjNewsComplete /\ NsNewsComplete
      /\ \A k \in Key : k.kind \in Kinds
      /\ store \in [Key -> Cell(Object)] /\ cache \in [Key -> Cell(Object)]
      /\ nss \subseteq Namespaces /\ nsCache \subseteq Namespaces
  BY DEF NewsInv, LifeInv, ObjInv, TypeInv, TypeOK, ApiTypeOK, Key
<1>1. ASSUME nsWatch = <<>>
      PROVE  nsCache = nss
  <2>1. \A n \in Namespaces : NsNewsOf(n) = {}
    BY <1>1 DEF NsNewsOf
  <2> QED BY <1>0, <2>1 DEF NsNewsComplete
<1>2. ASSUME \A kd \in Kinds : watch[kd] = <<>>
      PROVE  cache = store
  <2>1. \A k \in Key : ObjNewsOf(k) = {}
    BY <1>0, <1>2 DEF ObjNewsOf
  <2>2. \A k \in Key : cache[k] = store[k]
    BY <2>1, <1>0 DEF ObjNewsComplete
  <2> QED BY <1>0, <2>2
<1>3. CASE MainWorker /\ FreshReads
  BY <1>1, <1>2, <1>3 DEF FreshReads
<1>4. CASE \/ UNCHANGED vars \/ DeliverSync \/ DeliverNs \/ User \/ Cluster
           \/ NsWorker \/ \E c \in Syncs : Timer(c)
           \/ \E kd \in Kinds : DeliverObj(kd) \/ ObjWorker(kd)
  BY <1>4 DEF vars, DeliverSync, DeliverNs, DeliverObj, User, Cluster,
              NsWorker, ObjWorker, Timer, TimerFires
<1> QED BY <1>3, <1>4 DEF FreshNext

LEMMA DelsOursSteps ==
  ASSUME NewsInv, DelsOurs, [FreshNext]_vars
  PROVE  DelsOurs'
<1>0. LifeInv /\ [Next]_vars
  BY FreshNextNext DEF NewsInv
<1>1. ASSUME UNCHANGED <<pc, cur>>, dels' \subseteq dels
      PROVE  DelsOurs'
  <2> SUFFICES ASSUME NEW k \in dels', k \in Copies'
               PROVE  store'[k].obj.by = cur'
    BY <1>1 DEF DelsOurs
  <2>1. k \in dels /\ pc # "sync"
    BY <1>1 DEF DelsOurs
  <2>2. ~\E i \in items : CopyWrite(i)
    BY <2>1 DEF CopyWrite, SyncItem
  <2> QED BY <1>0, <1>1, <2>1, <2>2, LabelSteps DEF DelsOurs
<1>2. CASE dels' = {}
  BY <1>2 DEF DelsOurs
<1>3. ASSUME NEW w \in work, PruneList(w) \/ CleanList(w),
             ListsToDelete => cache = store
      PROVE  DelsOurs'
  <2>1. ListsToDelete
    BY <1>3 DEF ListsToDelete, PruneList, CleanList
  <2> QED BY <1>3, <2>1 DEF PruneList, CleanList, Owned, SyncedBy, apiVars, DelsOurs
<1>4. ASSUME ReconcileStep, ListsToDelete => cache = store
      PROVE  DelsOurs'
  <2>1. ASSUME NEW w \in work, CleanListFails(w) \/ SyncList(w) \/ SyncListFails(w)
        PROVE  DelsOurs'
    BY <1>1, <2>1 DEF CleanListFails, SyncList, SyncListFails
  <2>2. ASSUME NEW k \in dels, PruneDelete(k) \/ CleanDelete(k)
        PROVE  DelsOurs'
    BY <1>1, <2>2 DEF PruneDelete, CleanDelete, Delete
  <2>3. ASSUME NEW i \in items, SyncItem(i)
        PROVE  DelsOurs'
    BY <1>1, <2>3 DEF SyncItem
  <2>4. CASE PruneDone \/ ListFails \/ CleanDone \/ SyncDone
    BY <1>2, <2>4 DEF PruneDone, ListFails, CleanDone, SyncDone, ReturnError,
                      Return
  <2> QED BY <1>3, <1>4, <2>1, <2>2, <2>3, <2>4 DEF ReconcileStep
<1>5. ASSUME NEW c \in Syncs, ReconcileStart(c)
      PROVE  DelsOurs'
  BY <1>1, <1>2, <1>5 DEF ReconcileStart, ReconcileFails, ReconcileGone,
                          ReconcileAddFinalizer, ReconcileDeleted,
                          ReconcileSync, Begin, recVars
<1>6. CASE UNCHANGED recVars
  BY <1>1, <1>6 DEF recVars
<1>7. CASE Restart
  BY <1>2, <1>7 DEF Restart, Return
<1>8. ReconcileStep => pc # "idle"
  BY DEF ReconcileStep, PruneList, CleanList, CleanListFails, SyncList,
         SyncListFails, PruneDelete, CleanDelete, SyncItem, ListFails,
         PruneDone, CleanDone, SyncDone
<1> QED BY <1>4, <1>5, <1>6, <1>7, <1>8, FreshSteps DEF MainWorker

\* The invariants of every behaviour hold of those with fresh caches.
LEMMA FreshInvariant == FreshSpec => [](NewsInv /\ DelsOurs)
<1>1. [FreshNext]_vars => [Next]_vars
  BY FreshNextNext
<1>2. Init => DelsOurs
  BY DEF Init, RecInit, DelsOurs
<1>3. NewsInv /\ DelsOurs /\ [FreshNext]_vars => DelsOurs'
  BY DelsOursSteps
<1> QED BY <1>1, <1>2, <1>3, NewsInvariant, PTL DEF Spec, FreshSpec

\* With caches that are not behind, neither the cleanup nor the pruning of a
\* ConfigSync removes a copy that another one has taken over, however many
\* write to one slot and in which order (CleanupSparesOthers). This says
\* nothing of an object that has lost its labels since it was listed: it is no
\* copy any more, and is deleted.
THEOREM OthersKeepTheirCopies == FreshSpec => CleanupSparesOthers
<1>1. NewsInv /\ DelsOurs /\ [FreshNext]_vars =>
        [dels' # dels =>
           \A k \in Copies : store'[k].obj # store[k].obj =>
                              store[k].obj.by = cur]_vars
  <2> SUFFICES ASSUME NewsInv, DelsOurs, [FreshNext]_vars, dels' # dels,
                      NEW k \in Copies, store'[k].obj # store[k].obj
               PROVE  k \in dels
    BY DEF DelsOurs
  <2>0. k \in Key /\ TypeInv
    BY DEF NewsInv, LifeInv, ObjInv, Copies
  <2>1. CASE UNCHANGED recVars \/ Restart
    BY <2>1 DEF recVars, Restart
  <2>2. CASE MainWorker
    <3>1. ASSUME NEW d \in dels, PruneDelete(d) \/ CleanDelete(d)
          PROVE  k \in dels
      <4>1. d \in Key /\ (Write(d, NoObj) \/ store' = store)
        BY <2>0, <3>1 DEF PruneDelete, CleanDelete, Delete, TypeInv, TypeOK,
                          RecTypeOK
      <4> QED BY <2>0, <4>1, WrittenSlot
    <3>2. ASSUME NEW i \in items, SyncItem(i)
          PROVE  FALSE
      BY <3>2 DEF SyncItem
    <3>3. ASSUME NEW w \in work,
                 \/ PruneList(w) \/ CleanList(w) \/ CleanListFails(w)
                 \/ SyncList(w) \/ SyncListFails(w)
          PROVE  FALSE
      BY <3>3 DEF PruneList, CleanList, CleanListFails, SyncList,
                  SyncListFails, apiVars, objVars
    <3>4. CASE \/ ListFails \/ PruneDone \/ CleanDone \/ SyncDone
               \/ \E c \in Syncs : ReconcileStart(c)
      BY <3>4 DEF ListFails, PruneDone, CleanDone, SyncDone, ReconcileStart,
                  ReconcileFails, ReconcileGone, ReconcileAddFinalizer,
                  ReconcileDeleted, ReconcileSync, Begin, apiVars, objVars
    <3> QED BY <2>2, <3>1, <3>2, <3>3, <3>4 DEF MainWorker, ReconcileStep
  <2> QED BY <2>1, <2>2, FreshSteps
<1> QED BY <1>1, FreshInvariant, PTL DEF FreshSpec, CleanupSparesOthers

\* The copies a spec of c leads to
LedTo(spec, c) ==
  {k \in Copies : /\ k.kind \in EnabledKinds(spec)
                  /\ k.ns \in getTargetNamespaces(spec, nss)
                  /\ SyncedBy(store[k].obj, SourceNamespace(spec), c)}

\* The cleanup is to delete each of them, or still to list it
Found ==
  pc = "clean" =>
    \A k \in LedTo(CurSpec, cur) : k \in dels \/ <<k.kind, k.ns>> \in work

\* No call fails where none may.
LEMMA NoFaults ==
  ASSUME TypeInv, [Next]_vars, faults = 0
  PROVE  faults' = 0
<1>1. ~Fail
  BY DEF Fail
<1>2. CASE ReconcileStep \/ \E c \in Syncs : ReconcileStart(c) \/ Timer(c)
  BY <1>1, <1>2
     DEF ReconcileStart, ReconcileFails, ReconcileGone, Timer, TimerFires,
         ReconcileAddFinalizer, ReconcileDeleted, ReconcileSync, Begin,
         ReconcileStep, PruneList, CleanList, CleanListFails, SyncList,
         SyncListFails, PruneDelete, CleanDelete, Delete, SyncItem, ListFails,
         PruneDone, CleanDone, SyncDone, apiVars
<1>3. CASE NsWorker \/ \E kd \in Kinds : ObjWorker(kd) \/ DeliverObj(kd)
  BY <1>1, <1>3
     DEF NsWorker, NsStart, NsFails, NsReconcile, NsStep, NsStamp, StampFails,
         ObjWorker, ObjStart, ObjFails, ObjSkip, ObjDeleted, ObjChanged,
         ObjTake, ObjStep, ObjDeleteCopy, ObjStamp, DeliverObj, apiVars
<1>4. CASE User
  BY <1>4 DEF User, UserRequest, UserCreate, UserUpdate, UserDelete,
              CreateConfigSync, EditConfigSync, DeleteConfigSync,
              CreateNamespace, DeleteNamespace
<1>5. CASE \/ Cluster \/ DeliverSync \/ DeliverNs \/ Restart \/ UNCHANGED vars
  BY <1>5 DEF Cluster, NamespaceController, Evict, NamespaceGone, DeliverSync,
              DeliverNs, Restart, vars, apiVars
<1> QED BY <1>2, <1>3, <1>4, <1>5 DEF Next, MainWorker

\* Nobody but the worker makes copies, and a namespace that appears is empty.
LEMMA LedToSteps ==
  ASSUME NewsInv, [Next]_vars, pc # "sync", UNCHANGED <<cur, snap>>
  PROVE  LedTo(CurSpec, cur)' \subseteq LedTo(CurSpec, cur)
<1> SUFFICES ASSUME NEW k \in LedTo(CurSpec, cur)'
             PROVE  k \in LedTo(CurSpec, cur)
  OBVIOUS
<1>1. /\ k \in Copies' /\ k.kind \in EnabledKinds(CurSpec)
      /\ k.ns \in getTargetNamespaces(CurSpec, nss')
      /\ SyncedBy(store'[k].obj, SourceNamespace(CurSpec), cur)
  BY DEF LedTo, CurSpec, SyncedBy
<1>2. ~\E i \in items : CopyWrite(i)
  BY DEF CopyWrite, SyncItem
<1>3. /\ k \in Copies
      /\ store'[k].obj.from = store[k].obj.from
      /\ store'[k].obj.by = store[k].obj.by
  BY <1>1, <1>2, LabelSteps DEF NewsInv
<1>4. k.ns \in nss
  BY <1>3 DEF NewsInv, Lodged, Copies
<1>5. k.ns \in getTargetNamespaces(CurSpec, nss)
  BY <1>1, <1>4 DEF getTargetNamespaces, filterNamespaces
<1> QED BY <1>1, <1>3, <1>5 DEF LedTo, SyncedBy

LEMMA FoundSteps ==
  ASSUME NewsInv, Found, faults = 0, [FreshNext]_vars
  PROVE  Found'
<1>0. /\ [Next]_vars /\ TypeInv /\ dels \subseteq Key
  BY FreshNextNext
     DEF NewsInv, LifeInv, ObjInv, TypeInv, TypeOK, RecTypeOK
<1>1. CASE pc' # "clean"
  BY <1>1 DEF Found
<1>2. ASSUME UNCHANGED recVars
      PROVE  Found'
  <2>1. pc = "clean" => LedTo(CurSpec, cur)' \subseteq LedTo(CurSpec, cur)
    BY <1>0, <1>2, LedToSteps DEF recVars
  <2> QED BY <1>2, <2>1 DEF Found, recVars
<1>3. ASSUME NEW c \in Syncs, ReconcileDeleted(c), nsCache = nss
      PROVE  Found'
  <2>1. /\ cur' = c /\ CurSpec' = csCache[c].obj.spec /\ nss' = nss
        /\ work' = EnabledKinds(CurSpec') \X getTargetNamespaces(CurSpec', nss')
    BY <1>3 DEF ReconcileDeleted, Begin, CurSpec, apiVars
  <2>2. \A k \in LedTo(CurSpec, cur)' :
          /\ k.kind \in EnabledKinds(CurSpec')
          /\ k.ns \in getTargetNamespaces(CurSpec', nss')
    BY DEF LedTo
  <2> QED BY <2>1, <2>2 DEF Found
<1>4. ASSUME NEW w \in work, CleanList(w), ListsToDelete => cache = store
      PROVE  Found'
  <2>1. /\ pc = "clean" /\ dels = {} /\ work' = work \ {w}
        /\ dels' = {k \in Key : k.kind = w[1] /\ k.ns = w[2]
                                /\ Owned(k, SourceNamespace(CurSpec))}
        /\ UNCHANGED <<pc, cur, snap>> /\ cache = store
    BY <1>4 DEF CleanList, ListsToDelete
  <2> SUFFICES ASSUME NEW k \in LedTo(CurSpec, cur)'
               PROVE  k \in dels' \/ <<k.kind, k.ns>> \in work'
    BY DEF Found
  <2>2. k \in LedTo(CurSpec, cur)
    BY <1>0, <2>1, LedToSteps
  <2>3. <<k.kind, k.ns>> \in work
    BY <2>1, <2>2 DEF Found
  <2>4. k \in Key /\ Owned(k, SourceNamespace(CurSpec))
    BY <2>1, <2>2 DEF LedTo, Copies, Owned
  <2> QED BY <2>1, <2>3, <2>4
<1>5. ASSUME NEW d \in dels, CleanDelete(d)
      PROVE  Found'
  <2>1. /\ pc = "clean" /\ dels' = dels \ {d}
        /\ UNCHANGED <<pc, cur, snap, work>>
        /\ \/ Write(d, NoObj)
           \/ store[d].obj = NoObj /\ UNCHANGED store
    BY <1>5 DEF CleanDelete, Delete, CanDelete, Fail
  <2>2. store'[d].obj = NoObj
    BY <1>0, <2>1, WrittenSlot
  <2> SUFFICES ASSUME NEW k \in LedTo(CurSpec, cur)'
               PROVE  k \in dels' \/ <<k.kind, k.ns>> \in work'
    BY DEF Found
  <2>3. k \in LedTo(CurSpec, cur)
    BY <1>0, <2>1, LedToSteps
  <2>4. k # d
    BY <2>2 DEF LedTo, Copies
  <2> QED BY <2>1, <2>3, <2>4 DEF Found
<1>6. ASSUME ReconcileStep, ListsToDelete => cache = store, pc' = "clean"
      PROVE  Found'
  <2>1. ASSUME NEW w \in work
        PROVE  ~CleanListFails(w)
    BY DEF CleanListFails, Fail
  <2>2. ASSUME NEW w \in work
        PROVE  ~PruneList(w) /\ ~SyncList(w) /\ ~SyncListFails(w)
    BY <1>6 DEF PruneList, SyncList, SyncListFails
  <2>3. ASSUME NEW d \in dels
        PROVE  ~PruneDelete(d)
    BY <1>6 DEF PruneDelete, Delete
  <2>4. /\ \A i \in items : ~SyncItem(i)
        /\ ~ListFails /\ ~PruneDone /\ ~CleanDone /\ ~SyncDone
    BY <1>6 DEF SyncItem, ListFails, PruneDone, CleanDone, SyncDone,
                ReturnError, Return
  <2> QED BY <1>4, <1>5, <1>6, <2>1, <2>2, <2>3, <2>4 DEF ReconcileStep
<1>7. ASSUME NEW c \in Syncs, ReconcileStart(c), nsCache = nss, pc' = "clean"
      PROVE  Found'
  BY <1>2, <1>3, <1>7 DEF ReconcileStart, ReconcileFails, ReconcileGone,
                          ReconcileAddFinalizer, ReconcileSync
<1>8. CASE Restart
  BY <1>1, <1>8 DEF Restart, Return
<1>9. /\ ReconcileStep => pc # "idle"
      /\ \A c \in Syncs : ReconcileStart(c) => pc = "idle"
  BY DEF ReconcileStep, PruneList, CleanList, CleanListFails, SyncList,
         SyncListFails, PruneDelete, CleanDelete, SyncItem, ListFails,
         PruneDone, CleanDone, SyncDone, ReconcileStart, ReconcileFails,
         ReconcileGone, ReconcileAddFinalizer, ReconcileDeleted,
         ReconcileSync, Begin, Take
<1> QED BY <1>1, <1>2, <1>6, <1>7, <1>8, <1>9, FreshSteps DEF MainWorker

CleanupInv == NewsInv /\ faults = 0 /\ Found

LEMMA CleanupInvariant ==
  ASSUME MaxFaults = 0 PROVE FreshSpec => []CleanupInv
<1>1. Init => faults = 0 /\ Found
  BY DEF Init, RecInit, Found
<1>2. CleanupInv /\ NewsInv' /\ [FreshNext]_vars => CleanupInv'
  <2> SUFFICES ASSUME CleanupInv, NewsInv', [FreshNext]_vars PROVE CleanupInv'
    OBVIOUS
  <2>1. NewsInv /\ TypeInv /\ [Next]_vars /\ faults = 0 /\ Found
    BY FreshNextNext DEF CleanupInv, NewsInv, LifeInv, ObjInv
  <2> QED BY <2>1, NoFaults, FoundSteps DEF CleanupInv
<1>3. NewsInv /\ faults = 0 /\ Found => CleanupInv
  BY DEF CleanupInv
<1> QED BY <1>1, <1>2, <1>3, FreshInvariant, PTL DEF FreshSpec

\* Where no call fails and the caches are not behind, a ConfigSync is let go
\* of only when no copy is left that its spec leads to: whatever was edited,
\* created or relabelled, or crashed, while it was cleaned up
\* (CleanupComplete).
THEOREM CleanupLeavesNothing ==
  ASSUME MaxFaults = 0 PROVE FreshSpec => CleanupComplete
<1>1. CleanupInv /\ [FreshNext]_vars =>
        [\A c \in Syncs :
           /\ Exists(c) /\ cs[c].obj.finalizer /\ cs'[c].obj = NoObj
           => LET spec == cs[c].obj.spec IN
              \A k \in Copies :
                /\ k.kind \in EnabledKinds(spec)
                /\ k.ns \in getTargetNamespaces(spec, nss)
                => ~SyncedBy(store[k].obj, SourceNamespace(spec), c)]_vars
  <2> SUFFICES ASSUME CleanupInv, [FreshNext]_vars, NEW c \in Syncs,
                      Exists(c), cs[c].obj.finalizer, cs'[c].obj = NoObj,
                      NEW k \in LedTo(cs[c].obj.spec, c)
               PROVE  FALSE
    BY DEF LedTo
  <2>1. CsInv /\ [Next]_vars /\ Holds(c) /\ ~Holds(c)'
    BY FreshNextNext DEF CleanupInv, NewsInv, LifeInv, FinInv, Holds, Exists
  <2>2. CleanDone /\ c = cur /\ snap = cs[c]
    BY <2>1, HoldsSteps
  <2>3. k \in LedTo(CurSpec, cur) /\ pc = "clean" /\ dels = {} /\ work = {}
    BY <2>2 DEF CleanDone, CurSpec
  <2> QED BY <2>3 DEF CleanupInv, Found
<1> QED BY <1>1, CleanupInvariant, PTL DEF FreshSpec, CleanupComplete

-----------------------------------------------------------------------------
\* What the cleanup will find

\* Every spec that is read anywhere is one that users write
SpecsKnown ==
  \A r \in CsReads \cup CsNow :
    r.cell.obj # NoObj => r.cell.obj.spec \in Specs

LEMMA SpecsKnownInit == Init => SpecsKnown
<1> SUFFICES ASSUME Init PROVE SpecsKnown
  OBVIOUS
<1>1. /\ csCache = cs /\ csWatch = <<>> /\ cur = None /\ ntrig = {}
      /\ \A kd \in Kinds : otrig[kd] = {}
      /\ \A c \in Syncs : cs[c].obj = NoObj
  BY DEF Init, RecInit, WatchIdle, NoSyncs
<1>2. Held = {} /\ Coming = {}
  BY <1>1 DEF Held, Coming
<1>3. CsReads \cup CsNow = CsNow
  BY <1>1, <1>2 DEF CsReads, Cached, CsNow
<1> QED BY <1>1, <1>3 DEF SpecsKnown, CsNow

LEMMA SpecsKnownSteps ==
  ASSUME CsInv, SpecsKnown, [Next]_vars
  PROVE  SpecsKnown'
<1> DEFINE Known(r) == r.cell.obj # NoObj => r.cell.obj.spec \in Specs
<1>0. /\ TypeInv /\ CsVersions /\ SnapFits /\ Held' \subseteq Held \cup Cached
      /\ cs \in [Syncs -> Cell(ConfigSync)]
      /\ \A r \in CsReads \cup CsNow : Known(r)
  BY HeldSteps DEF CsInv, TypeInv, TypeOK, ApiTypeOK, SpecsKnown
<1> SUFFICES ASSUME NEW r \in (CsReads \cup CsNow)' PROVE Known(r)
  BY DEF SpecsKnown
<1>1. CASE UNCHANGED csVars
  BY <1>0, <1>1 DEF csVars, CsReads, CsNow, Cached, Coming
<1>2. CASE CsStep
  <2>1. PICK c \in Syncs, o \in ConfigSync \cup {NoObj} :
          /\ CsWrite(c, o) /\ csCache' = csCache
          /\ \/ Created(cs[c].obj, o) \/ Kept(cs[c].obj, o)
             \/ Bound(cs[c].obj, o) \/ Asked(cs[c].obj, o)
             \/ Released(c, cs[c].obj, o)
    BY <1>2 DEF CsStep
  <2> DEFINE e == [sync |-> c, cell |-> [rv |-> cs[c].rv + 1, obj |-> o]]
  <2>2. [sync |-> c, cell |-> cs[c]] \in CsNow
    BY DEF CsNow
  <2>3. Known(e)
    BY <1>0, <2>1, <2>2 DEF Created, Kept, Bound, Asked, Released
  <2>4. Coming' = Coming \cup {e} /\ cs' = [cs EXCEPT ![c] = e.cell]
        /\ e.sync = c
    BY <1>0, <2>1, Written
  <2> HIDE DEF e
  <2>5. \A x \in Syncs : [sync |-> x, cell |-> cs'[x]] = e
                          \/ cs'[x] = cs[x]
    BY <1>0, <2>4 DEF e
  <2>6. r \in CsReads \cup CsNow \cup {e}
    BY <1>0, <2>1, <2>4, <2>5 DEF CsReads, CsNow, Cached
  <2> HIDE DEF Known
  <2> QED BY <1>0, <2>3, <2>6
<1>3. CASE DeliverSync
  <2>1. (Cached \cup Coming)' \subseteq Cached \cup Coming /\ cs' = cs
    BY <1>0, <1>3, DeliveredReads DEF DeliverSync
  <2>2. r \in CsReads \cup CsNow
    BY <1>0, <2>1 DEF CsReads, CsNow
  <2> QED BY <1>0, <2>2
<1>4. CASE Restart
  <2>1. /\ csCache' = cs /\ csWatch' = <<>> /\ cs' = cs
        /\ cur' = None /\ ntrig' = {} /\ \A kd \in Kinds : otrig'[kd] = {}
    BY <1>4 DEF Restart, Return, WatchReset
  <2>2. Held' = {} /\ Coming' = {}
    BY <2>1 DEF Held, Coming
  <2>3. r \in CsNow
    BY <2>1, <2>2 DEF CsReads, CsNow, Cached
  <2> QED BY <1>0, <2>3
<1> QED BY <1>0, <1>1, <1>2, <1>3, <1>4, CsSteps

\* What a ConfigSync was given is what users write, and what it has is of it
SpecsGiven ==
  \A c \in Syncs :
    /\ given[c] \subseteq Specs
    /\ cs[c].obj # NoObj => cs[c].obj.spec \in given[c]

\* Every spec that its ConfigSync was ever given leads to the copy in k
Followed(k) == \A spec \in given[store[k].obj.by] : LeadsTo(spec, k)

\* Such a copy belongs to a ConfigSync that has its finalizer
Rooted ==
  \A k \in Copies :
    store[k].obj.by \in Syncs /\ (Followed(k) => Holds(store[k].obj.by))

LEMMA SpecsGivenSteps ==
  ASSUME SpecsGiven, SpecsKnown', Records PROVE SpecsGiven'
<1> SUFFICES ASSUME NEW c \in Syncs
             PROVE  /\ given'[c] \subseteq Specs
                    /\ cs'[c].obj # NoObj => cs'[c].obj.spec \in given'[c]
  BY DEF SpecsGiven
<1>1. cs'[c].obj # NoObj => cs'[c].obj.spec \in Specs
  <2>1. [sync |-> c, cell |-> cs'[c]] \in CsNow'
    BY DEF CsNow
  <2> QED BY <2>1 DEF SpecsKnown
<1> QED BY <1>1 DEF Records, SpecsGiven

LEMMA RootedSteps ==
  ASSUME CleanupInv, SpecsGiven, Rooted, [FreshNext]_vars,
         Records \/ UNCHANGED given
  PROVE  Rooted'
<1>0. /\ LifeInv /\ CsInv /\ ObjInv /\ FinInv /\ TypeInv /\ [Next]_vars
      /\ Lodged /\ Found
  BY FreshNextNext DEF CleanupInv, NewsInv, LifeInv, ObjInv, FinInv
<1> SUFFICES ASSUME NEW k \in Copies', NEW c, c = store'[k].obj.by
             PROVE  c \in Syncs /\ (Followed(k)' => Holds(c)')
  BY DEF Rooted, Holds, Exists
<1>1. k \in Key
  BY DEF Copies
<1>2. CASE /\ k \in Copies
           /\ store'[k].obj.from = store[k].obj.from
           /\ store'[k].obj.by = store[k].obj.by
  <2>1. c \in Syncs /\ c = store[k].obj.by
    BY <1>2 DEF Rooted
  <2>2. given[c] \subseteq given'[c]
    BY <2>1 DEF Records
  <2>3. Followed(k)' => Followed(k)
    BY <1>2, <2>1, <2>2 DEF Followed, LeadsTo
  <2> SUFFICES ASSUME Followed(k), ~Holds(c)'
               PROVE  FALSE
    BY <2>1, <2>3
  <2>4. Holds(c)
    BY <1>2, <2>1 DEF Rooted
  <2>5. CleanDone /\ c = cur /\ snap = cs[c]
    BY <1>0, <2>1, <2>4, HoldsSteps
  <2>6. pc = "clean" /\ dels = {} /\ work = {} /\ CurSpec = cs[c].obj.spec
    BY <2>5 DEF CleanDone, CurSpec
  <2>7. LeadsTo(CurSpec, k)
    BY <2>1, <2>4, <2>6 DEF SpecsGiven, Followed, Holds, Exists
  <2>8. k.ns \in nss
    BY <1>0, <1>1, <1>2 DEF Lodged, Copies
  <2>9. k.ns \in getTargetNamespaces(CurSpec, nss)
    BY <2>7, <2>8 DEF LeadsTo, getTargetNamespaces, filterNamespaces
  <2>10. k \in LedTo(CurSpec, cur)
    BY <1>2, <2>1, <2>5, <2>7, <2>9 DEF LedTo, LeadsTo, SyncedBy
  <2> QED BY <1>0, <2>6, <2>10 DEF Found
<1>3. ASSUME NEW i \in items, CopyWrite(i), k = i.key,
             store'[k].obj = CopyFor(i)
      PROVE  c \in Syncs /\ Holds(c)'
  <2>1. c = cur /\ cur \in Syncs /\ Holds(cur) /\ cs' = cs
    BY <1>0, <1>3, CopyLabels
       DEF CopyWrite, SyncItem, csVars, FinInv, FinalizerHolds
  <2> QED BY <2>1 DEF Holds, Exists
<1>4. \/ /\ k \in Copies
         /\ store'[k].obj.from = store[k].obj.from
         /\ store'[k].obj.by = store[k].obj.by
      \/ \E i \in items : CopyWrite(i) /\ k = i.key /\ store'[k].obj = CopyFor(i)
  BY <1>0, LabelSteps
<1> QED BY <1>2, <1>3, <1>4

\* Where no call fails and the caches are not behind, a copy that every spec of
\* its ConfigSync has led to never outlives it, through crashes, whatever else
\* is edited, and however namespaces come and go (NothingLeftBehind); even less
\* one that every spec of all leads to (NoCopyOutlivesItsSync).
THEOREM NothingOutlives ==
  ASSUME MaxFaults = 0
  PROVE  FreshHistSpec => [](NothingLeftBehind /\ NoCopyOutlivesItsSync)
<1>1. HistInit => SpecsKnown /\ SpecsGiven /\ Rooted
  <2> SUFFICES ASSUME HistInit PROVE SpecsKnown /\ SpecsGiven /\ Rooted
    OBVIOUS
  <2>1. /\ \A c \in Syncs : cs[c].obj = NoObj
        /\ \A k \in Key : store[k].obj # NoObj => ~HasSyncLabel(store[k].obj)
        /\ \A c \in Syncs : given[c] = {}
    BY InitAssumption DEF HistInit, Init, NoSyncs, InitStore
  <2>2. SpecsKnown
    BY SpecsKnownInit DEF HistInit
  <2> QED BY <2>1, <2>2 DEF SpecsGiven, Rooted, Copies
<1>2. CleanupInv /\ SpecsKnown /\ SpecsGiven /\ Rooted
        /\ [FreshNext /\ Records]_histVars
        => SpecsKnown' /\ SpecsGiven' /\ Rooted'
  <2> SUFFICES ASSUME CleanupInv, SpecsKnown, SpecsGiven, Rooted,
                      [FreshNext /\ Records]_histVars
               PROVE  SpecsKnown' /\ SpecsGiven' /\ Rooted'
    OBVIOUS
  <2>1. [FreshNext]_vars /\ (Records \/ UNCHANGED <<cs, given>>)
    BY DEF histVars, vars, apiVars
  <2>2. CsInv /\ [Next]_vars
    BY <2>1, FreshNextNext DEF CleanupInv, NewsInv, LifeInv, FinInv
  <2>3. SpecsKnown'
    BY <2>2, SpecsKnownSteps
  <2>4. SpecsGiven'
    BY <2>1, <2>3, SpecsGivenSteps DEF SpecsGiven
  <2> QED BY <2>1, <2>3, <2>4, RootedSteps
<1>3. SpecsGiven /\ Rooted => NothingLeftBehind /\ NoCopyOutlivesItsSync
  BY DEF SpecsGiven, Rooted, Followed, NothingLeftBehind, NoCopyOutlivesItsSync,
         Holds
<1>4. HistInit => Init
  BY DEF HistInit
<1>5. [FreshNext /\ Records]_histVars => [FreshNext]_vars
  BY DEF histVars
<1>6. FreshHistSpec => FreshSpec
  BY <1>4, <1>5, PTL DEF FreshHistSpec, FreshSpec
<1> QED BY <1>1, <1>2, <1>3, <1>6, CleanupInvariant, PTL DEF FreshHistSpec

=============================================================================
