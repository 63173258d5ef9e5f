------------------------ MODULE ConfigSyncReconciler ------------------------
(***************************************************************************)
(* The main controller (controllers/configsync_controller.go): one worker  *)
(* that takes a ConfigSync off its queue and either adds its finalizer, or *)
(* removes strays and copies the sources into the targets, or, when the    *)
(* ConfigSync is being deleted, removes the copies and the finalizer.      *)
(*                                                                         *)
(* Each call to the API server is an action of its own, so that everything *)
(* else may happen between two calls. A Get that the code follows at once  *)
(* by the write it decides is one action with that write: what it reads is *)
(* the cache, which may be stale anyway.                                   *)
(***************************************************************************)
EXTENDS ApiServer

VARIABLES
  csQueue,  \* ConfigSyncs waiting for the worker
  timers,   \* ConfigSyncs waiting for their RequeueAfter
  pc,       \* what the worker is doing
  cur,      \* the ConfigSync it is doing it for
  snap,     \* that ConfigSync as Reconcile read it
  targets,  \* targetNamespaces
  work,     \* the (kind, namespace) listings still to make
  dels,     \* keys of the last listing still to delete
  items,    \* source objects of the last listing still to copy, as read
  report    \* namespaceStatuses

queueVars == <<csQueue, timers>>
recVars == <<pc, cur, snap, targets, work, dels, items, report>>

AllNamespaces == None  \* a List without a namespace

Item == [key : Key, obj : Object]

RecTypeOK ==
  /\ csQueue \subseteq Syncs /\ timers \subseteq Syncs
  /\ pc \in {"idle", "prune", "sync", "clean"}
  /\ cur \in Syncs \cup {None}
  /\ snap \in Cell(ConfigSync)
  /\ targets \subseteq Namespaces
  /\ work \subseteq Kinds \X (Namespaces \cup {AllNamespaces})
  /\ dels \subseteq Key
  /\ items \subseteq Item
  /\ report \in Status

RecInit ==
  /\ pc = "idle" /\ cur = None /\ snap = [rv |-> 0, obj |-> NoObj]
  /\ targets = {} /\ work = {} /\ dels = {} /\ items = {}
  /\ report = NoStatus

\* Reconcile returns
Return ==
  /\ pc' = "idle" /\ cur' = None /\ snap' = [rv |-> 0, obj |-> NoObj]
  /\ targets' = {} /\ work' = {} /\ dels' = {} /\ items' = {}
  /\ report' = NoStatus

\* Mutant: the error is logged and nil is returned
ReturnError_swallowed == Return /\ UNCHANGED queueVars

\* An error is retried
ReturnError == Return /\ csQueue' = csQueue \cup {cur} /\ UNCHANGED timers

CurSpec == snap.obj.spec

-----------------------------------------------------------------------------
\* Taking a ConfigSync off the queue

Take(c) == pc = "idle" /\ c \in csQueue

\* Mutant: the finalizer is not waited for
CanSync_unfinalized(o) == ~o.deleting

\* Mutant: the deletion timestamp is not looked at
CanClean_any(o) == o.finalizer

CanSync(o) == o.finalizer /\ ~o.deleting
CanClean(o) == o.finalizer /\ o.deleting

\* A call before the first listing fails: the Get, the List of namespaces or
\* the update that adds the finalizer. The ConfigSync stays on the queue.
ReconcileFails(c) ==
  /\ Take(c) /\ Fail
  /\ UNCHANGED <<objVars, csVars, nsVars, ops, queueVars, recVars>>

\* It is gone, or it is being deleted and the finalizer is off
ReconcileGone(c) ==
  /\ Take(c)
  /\ csCache[c].obj # NoObj =>
       csCache[c].obj.deleting /\ ~csCache[c].obj.finalizer
  /\ csQueue' = csQueue \ {c}
  /\ UNCHANGED <<apiVars, timers, recVars>>

\* Mutant: the update carries no version
ReconcileAddFinalizer_forced(c) ==
  /\ Take(c)
  /\ csCache[c].obj # NoObj
  /\ ~csCache[c].obj.deleting /\ ~csCache[c].obj.finalizer
  /\ cs[c].obj # NoObj /\ cs[c].rv < MaxRV
  /\ CsWrite(c, [csCache[c].obj EXCEPT !.finalizer = TRUE])
  /\ UNCHANGED <<objVars, csCache, nsVars, ops, faults, queueVars, recVars>>

\* The ConfigSync stays on the queue: Requeue after the update, a retry after
\* a refused one (which changes nothing)
ReconcileAddFinalizer(c) ==
  /\ Take(c)
  /\ csCache[c].obj # NoObj
  /\ ~csCache[c].obj.deleting /\ ~csCache[c].obj.finalizer
  /\ CsCanUpdate(c, csCache[c].rv)
  /\ CsWrite(c, [csCache[c].obj EXCEPT !.finalizer = TRUE])
  /\ UNCHANGED <<objVars, csCache, nsVars, ops, faults, queueVars, recVars>>

Begin(c) ==
  /\ Take(c)
  /\ csCache[c].obj # NoObj
  /\ csQueue' = csQueue \ {c}
  /\ cur' = c /\ snap' = csCache[c]
  /\ targets' = getTargetNamespaces(csCache[c].obj.spec, nsCache)
  /\ dels' = {} /\ items' = {}
  /\ UNCHANGED <<apiVars, timers>>

\* Mutant: the ConfigMaps are forgotten
ReconcileDeleted_secrets(c) ==
  /\ Begin(c) /\ CanClean(csCache[c].obj)
  /\ pc' = "clean"
  /\ work' = (EnabledKinds(csCache[c].obj.spec) \cap {"Secret"}) \X targets'
  /\ report' = NoStatus

ReconcileDeleted(c) ==
  /\ Begin(c) /\ CanClean(csCache[c].obj)
  /\ pc' = "clean"
  /\ work' = EnabledKinds(csCache[c].obj.spec) \X targets'
  /\ report' = NoStatus

ReconcileSync(c) ==
  /\ Begin(c) /\ CanSync(csCache[c].obj)
  /\ pc' = "prune"
  /\ work' = Kinds \X {AllNamespaces}
  /\ report' = [n \in Namespaces |->
                  [NoStatus[n] EXCEPT !.status =
                     IF n \in targets' THEN "Success" ELSE "None"]]

-----------------------------------------------------------------------------
\* Listing copies and deleting them

\* Namespaces in any order, Secrets before ConfigMaps
KindTurn == {w \in work : w[1] = FirstKind({v[1] : v \in work})}

\* Mutant: whose copy it is is not looked at
Owned_anyones(k, src) == cache[k].obj # NoObj /\ cache[k].obj.from = src

Owned(k, src) ==
  cache[k].obj # NoObj /\ SyncedBy(cache[k].obj, src, cur)

Delete(k) ==
  /\ dels' = dels \ {k}
  /\ \/ CanDelete(k) /\ Write(k, NoObj) /\ UNCHANGED faults
     \/ ~CanDelete(k) /\ UNCHANGED <<store, watch, faults>>
     \/ Fail /\ UNCHANGED <<store, watch>>   \* logged, and the loop goes on
  /\ UNCHANGED <<cache, csVars, nsVars, ops, queueVars, pc, cur, snap, targets,
                 work, items, report>>

PruneList(w) ==
  /\ pc = "prune" /\ dels = {} /\ w \in KindTurn
  /\ work' = work \ {w}
  /\ dels' = {k \in Key : k.kind = w[1] /\ Owned(k, SourceNamespace(CurSpec))
                          /\ shouldDeleteFrom(k.ns, CurSpec, targets)}
  /\ UNCHANGED <<apiVars, queueVars, pc, cur, snap, targets, items, report>>

PruneDelete(k) == pc = "prune" /\ k \in dels /\ Delete(k)

PruneDone ==
  /\ pc = "prune" /\ dels = {} /\ work = {}
  /\ pc' = "sync" /\ work' = EnabledKinds(CurSpec) \X targets
  /\ UNCHANGED <<apiVars, queueVars, cur, snap, targets, dels, items, report>>

CleanList(w) ==
  /\ pc = "clean" /\ dels = {} /\ w \in KindTurn
  /\ work' = work \ {w}
  /\ dels' = {k \in Key : k.kind = w[1] /\ k.ns = w[2]
                          /\ Owned(k, SourceNamespace(CurSpec))}
  /\ UNCHANGED <<apiVars, queueVars, pc, cur, snap, targets, items, report>>

\* A namespace whose listing fails is passed over
CleanListFails(w) ==
  /\ pc = "clean" /\ dels = {} /\ w \in KindTurn
  /\ Fail
  /\ work' = work \ {w}
  /\ UNCHANGED <<objVars, csVars, nsVars, ops, queueVars, pc, cur, snap,
                 targets, dels, items, report>>

CleanDelete(k) == pc = "clean" /\ k \in dels /\ Delete(k)

\* Taking the last finalizer off an object that is being deleted removes it
CleanDone ==
  /\ pc = "clean" /\ dels = {} /\ work = {}
  /\ \/ CsCanUpdate(cur, snap.rv) /\ CsWrite(cur, NoObj)
        /\ Return /\ UNCHANGED <<queueVars, faults>>
     \/ ~CsCanUpdate(cur, snap.rv) /\ ReturnError
        /\ UNCHANGED <<cs, csWatch, faults>>
     \/ Fail /\ ReturnError /\ UNCHANGED <<cs, csWatch>>
  /\ UNCHANGED <<objVars, csCache, nsVars, ops>>

\* A List of everything fails, before the sync
ListFails ==
  /\ pc = "prune" /\ dels = {} /\ work # {}
  /\ Fail /\ ReturnError
  /\ UNCHANGED <<objVars, csVars, nsVars, ops>>

-----------------------------------------------------------------------------
\* Copying

\* One namespace after the other, Secrets before ConfigMaps in each
Started(n) == \E kd \in EnabledKinds(CurSpec) : <<kd, n>> \notin work
SyncTurn ==
  {w \in work :
     /\ w[1] = FirstKind({kd \in Kinds : <<kd, w[2]>> \in work})
     /\ \A v \in work : Started(v[2]) => v[2] = w[2]}

SyncList(w) ==
  /\ pc = "sync" /\ items = {} /\ w \in SyncTurn
  /\ CurSpec.selector[w[1]].valid
  /\ work' = work \ {w}
  /\ items' = {[key |-> [k EXCEPT !.ns = w[2]], obj |-> cache[k].obj] :
                 k \in listSource(cache, w[1], CurSpec)}
  /\ UNCHANGED <<apiVars, queueVars, pc, cur, snap, targets, dels, report>>

SyncListFails(w) ==
  /\ pc = "sync" /\ items = {} /\ w \in SyncTurn
  /\ \/ ~CurSpec.selector[w[1]].valid /\ UNCHANGED faults
     \/ Fail
  /\ work' = work \ {w}
  /\ report' = [report EXCEPT ![w[2]].status = "Failed"]
  /\ UNCHANGED <<objVars, csVars, nsVars, ops, queueVars, pc, cur, snap,
                 targets, dels, items>>

\* Mutant: the wrong sign
Synced_down(k) ==
  report' = [report EXCEPT ![k.ns].synced[k.kind] = @ - 1]

Synced(k) ==
  report' = [report EXCEPT ![k.ns].synced[k.kind] = @ + 1]

\* Mutant: the spec is read again for each item
CopyFor_reread(i) ==
  CopyOf(i.obj, SourceNamespace(csCache[cur].obj.spec), cur)

\* Mutants: any object is overwritten; only missing copies are made; the
\* update carries no version
Managed_any(o) == TRUE
Managed_missing(o) == o = NoObj
Accepted_forced(k, old, copy) ==
  IF old.obj = NoObj THEN CanCreate(k) ELSE CanUpdate(k, store[k].rv, copy)

\* What syncSecret and syncConfigMap write, and over what: over nothing, or
\* over an object with the synced-from label, whoever made it
CopyFor(i) == CopyOf(i.obj, SourceNamespace(CurSpec), cur)
Managed(o) == o # NoObj => HasSyncLabel(o)
Accepted(k, old, copy) ==
  IF old.obj = NoObj THEN CanCreate(k) ELSE CanUpdate(k, old.rv, copy)

\* Only a refused or failed write is not counted
SyncItem(i) ==
  /\ pc = "sync" /\ i \in items
  /\ items' = items \ {i}
  /\ LET old == cache[i.key] IN
     \/ /\ Managed(old.obj) /\ Accepted(i.key, old, CopyFor(i))
        /\ Write(i.key, CopyFor(i)) /\ Synced(i.key) /\ UNCHANGED faults
     \/ /\ Managed(old.obj)
        /\ \/ ~Accepted(i.key, old, CopyFor(i)) /\ UNCHANGED faults
           \/ Fail
        /\ UNCHANGED <<store, watch, report>>
     \/ /\ ~Managed(old.obj)
        /\ Synced(i.key) /\ UNCHANGED <<store, watch, faults>>
  /\ UNCHANGED <<cache, csVars, nsVars, ops, queueVars, pc, cur, snap, targets,
                 work, dels>>

\* The status carries the time: written in the second of the last one it may
\* be the status already there, and the write then changes nothing
StatusWrite ==
  LET o == [cs[cur].obj EXCEPT !.status = report]
  IN  \/ o = cs[cur].obj /\ UNCHANGED <<cs, csWatch>>
      \/ (o # cs[cur].obj \/ snap.rv < TickRV) /\ CsWrite(cur, o)

\* Mutant: no further sync is scheduled
RequeueAfter_never == UNCHANGED queueVars

\* Mutant: Requeue instead, as after the update that adds the finalizer
RequeueAfter_now == csQueue' = csQueue \cup {cur} /\ UNCHANGED timers

\* The next periodic sync. A RequeueAfter that is not positive is none.
RequeueAfter ==
  /\ timers' = IF getSyncInterval(CurSpec) > 0 THEN timers \cup {cur} ELSE timers
  /\ UNCHANGED csQueue

SyncDone ==
  /\ pc = "sync" /\ work = {} /\ items = {}
  /\ \/ CsCanUpdate(cur, snap.rv) /\ StatusWrite
        /\ Return /\ RequeueAfter /\ UNCHANGED faults
     \/ ~CsCanUpdate(cur, snap.rv) /\ ReturnError
        /\ UNCHANGED <<cs, csWatch, faults>>
     \/ Fail /\ ReturnError /\ UNCHANGED <<cs, csWatch>>
  /\ UNCHANGED <<objVars, csCache, nsVars, ops>>

TimerFires(c) ==
  /\ c \in timers
  /\ timers' = timers \ {c} /\ csQueue' = csQueue \cup {c}
  /\ UNCHANGED <<apiVars, recVars>>

-----------------------------------------------------------------------------
ReconcileStart(c) ==
  \/ ReconcileFails(c) \/ ReconcileGone(c) \/ ReconcileAddFinalizer(c)
  \/ ReconcileDeleted(c) \/ ReconcileSync(c)

ReconcileStep ==
  \/ \E w \in work : PruneList(w) \/ CleanList(w) \/ CleanListFails(w)
                     \/ SyncList(w) \/ SyncListFails(w)
  \/ \E k \in dels : PruneDelete(k) \/ CleanDelete(k)
  \/ \E i \in items : SyncItem(i)
  \/ ListFails \/ PruneDone \/ CleanDone \/ SyncDone

=============================================================================
