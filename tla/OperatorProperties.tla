------------------------- MODULE OperatorProperties -------------------------
(***************************************************************************)
(* What the operator promises, and what its documentation says it does.    *)
(***************************************************************************)
EXTENDS Operator

Exists(c) == cs[c].obj # NoObj
Live(c) == Exists(c) /\ ~cs[c].obj.deleting
Copies == {k \in Key : store[k].obj # NoObj /\ HasSyncLabel(store[k].obj)}

\* The view of SyncLifecycle: how far each ConfigSync is, and whose each
\* object is
Life(c) ==
  IF ~Exists(c) THEN "absent"
  ELSE IF ~cs[c].obj.finalizer THEN "new"
  ELSE IF cs[c].obj.deleting THEN "leaving" ELSE "bound"
Owner(k) ==
  IF store[k].obj = NoObj THEN NoObj
  ELSE IF HasSyncLabel(store[k].obj) THEN store[k].obj.by ELSE None

Lifecycle == INSTANCE SyncLifecycle
  WITH Keys <- Key, Free <- NoObj, User <- None,
       life <- [c \in Syncs |-> Life(c)], owner <- [k \in Key |-> Owner(k)]

\* Nothing is under way or about to be, short of a timer or a user
Quiet ==
  /\ pc = "idle" /\ csQueue = {} /\ objQueue = {} /\ nsQueue = {}
  /\ \A kd \in Kinds : okey[kd] = None /\ watch[kd] = <<>>
  /\ nkey = None /\ csWatch = <<>> /\ nsWatch = <<>>

\* The sources a ConfigSync selects, and the copies it asks for: a source and
\* the slot its copy goes to
Selected(c) ==
  LET spec == cs[c].obj.spec
  IN  UNION {listSource(store, kd, spec) :
               kd \in {e \in EnabledKinds(spec) : spec.selector[e].valid}}

Wanted(c) ==
  {[from |-> k, to |-> [k EXCEPT !.ns = n]] :
     k \in Selected(c),
     n \in getTargetNamespaces(cs[c].obj.spec, nss) \cap (nss \ ending)}

\* The slot holds the current copy, or an object of a user's that is not
\* to be overwritten
Served(c, w) ==
  LET o == store[w.to].obj
  IN  /\ o # NoObj
      /\ HasSyncLabel(o) => o = CopyOf(store[w.from].obj, w.from.ns, c)

-----------------------------------------------------------------------------
\* Safety

\* An object without the synced-from label is never turned into a copy: the
\* label is looked for in a cache that may be behind, and only the version
\* check of the update keeps an object the user has put there since
\* (configsync_controller.go:332-353).
UserObjectNeverAdopted ==
  [][\A k \in Key :
       /\ store[k].obj # NoObj /\ ~HasSyncLabel(store[k].obj)
       /\ store'[k].obj # NoObj
       => ~HasSyncLabel(store'[k].obj)]_vars

\* Five code paths write whole ConfigSyncs from old reads. None of them ever
\* undoes what a user wrote since: the spec and the request to delete stay,
\* and the object goes only after that request (configsync_controller.go:65,
\* 76 and 193, secret_controller.go:121, namespace_controller.go:91).
UserEditsSurvive ==
  [][ops' = ops =>
       \A c \in Syncs : Exists(c) =>
         IF cs'[c].obj = NoObj THEN cs[c].obj.deleting
         ELSE /\ cs'[c].obj.spec = cs[c].obj.spec
              /\ cs'[c].obj.deleting = cs[c].obj.deleting
              /\ cs[c].obj.finalizer => cs'[c].obj.finalizer]_vars

\* A copy is made or renewed only while the ConfigSync it is labelled with
\* exists and holds the finalizer that will clean up after it, however old
\* the worker's reading of it is (configsync_controller.go:54-81).
CopiesMadeUnderFinalizer ==
  [][ops' = ops =>
       \A k \in Key :
         store'[k].obj # store[k].obj /\ store'[k].obj # NoObj =>
           LET c == store'[k].obj.by
           IN  c \in Syncs /\ Exists(c) /\ cs[c].obj.finalizer]_vars

\* The periodic sync never dies: a ConfigSync that exists is queued, or its
\* timer runs, or the worker is at it, or an event about it is on its way.
\* Only an interval that a time.Duration cannot hold ends it
\* (configsync_controller.go:54-81, 193-201, 508-521).
PeriodicLoopAlive ==
  \A c \in Syncs : Exists(c) /\ getSyncInterval(cs[c].obj.spec) > 0 =>
    \/ c \in csQueue \cup timers \cup {cur}
    \/ \E i \in 1..Len(csWatch) : csWatch[i].sync = c

\* A copy lies in another namespace than the one it says it is from, never in
\* a system namespace, and never carries data of a third namespace, though
\* the spec may be edited between the listing and the write
\* (configsync_controller.go:84-98, 124-146, 224-242, 320-324).
CopyProvenance ==
  \A k \in Copies :
    LET o == store[k].obj
    IN  /\ k.ns # o.from /\ k.ns \notin SystemNamespaces
        /\ o.data.at = o.from

\* The main worker takes the next listing of what it may delete
ListsToDelete == pc \in {"prune", "clean"} /\ pc' = pc /\ work' # work

\* The main worker lists the namespaces when it takes up a ConfigSync, and the
\* objects it may delete, out of caches that are not behind. What it copies,
\* and whether it finds a copy already there, it may read from old ones
FreshReads ==
  /\ pc = "idle" /\ recVars' # recVars => nsWatch = <<>>
  /\ ListsToDelete => \A kd \in Kinds : watch[kd] = <<>>

FreshNext ==
  \/ MainWorker /\ FreshReads
  \/ \E c \in Syncs : Timer(c)
  \/ \E kd \in Kinds : ObjWorker(kd) \/ DeliverObj(kd)
  \/ NsWorker \/ DeliverSync \/ DeliverNs
  \/ User \/ Cluster \/ Restart

FreshSpec == Init /\ [][FreshNext]_vars

\* A ConfigSync is let go of when none of the copies is left that its last
\* spec leads to: of the kinds it copies, from its source, in its targets.
\* Copies that only an earlier spec leads to are not looked for
\* (configsync_controller.go:54-71, 418-506).
CleanupComplete ==
  [][\A c \in Syncs :
       /\ Exists(c) /\ cs[c].obj.finalizer /\ cs'[c].obj = NoObj
       => LET spec == cs[c].obj.spec IN
          \A k \in Copies :
            /\ k.kind \in EnabledKinds(spec)
            /\ k.ns \in getTargetNamespaces(spec, nss)
            => ~SyncedBy(store[k].obj, SourceNamespace(spec), c)]_vars

\* The spec makes the cleanup look where the copy in k is
LeadsTo(spec, k) ==
  /\ k.kind \in EnabledKinds(spec)
  /\ k.ns \in getTargetNamespaces(spec, {k.ns})
  /\ store[k].obj.from = SourceNamespace(spec)

\* With caches that are not behind, the single worker and the finalizer leave
\* no copy of a ConfigSync that is gone, wherever a crash falls and however
\* specs are edited, as long as none of them leads away from the copy
\* (configsync_controller.go:54-71, 418-506).
NoCopyOutlivesItsSync ==
  \A k \in Copies :
    (\A spec \in Specs : LeadsTo(spec, k)) => Exists(store[k].obj.by)

\* With caches that are not behind, neither the cleanup nor the pruning of a
\* ConfigSync removes a copy that another one has taken over
\* (configsync_controller.go:344, 461, 563).
CleanupSparesOthers ==
  [][dels' # dels =>
       \A k \in Copies : store'[k].obj # store[k].obj => store[k].obj.by = cur]_vars

\* The operator keeps the promises of SyncLifecycle, with all the reading of
\* stale caches there is (configsync_controller.go:54-81, 344,
\* secret_controller.go:121, namespace_controller.go:91).
KeepsLifecycle == Lifecycle!Spec

-----------------------------------------------------------------------------
\* Liveness. Users make finitely many requests.

\* In the end every source a ConfigSync selects has its current copy in every
\* target (configsync_controller.go:124-201).
Converged ==
  <>[](\A c \in Syncs : Live(c) => \A w \in Wanted(c) : Served(c, w))

\* In the end no namespace that is not targeted holds a copy of the current
\* source, whichever list an edit took it off
\* (configsync_controller.go:524-601).
EventuallyPruned ==
  <>[](\A c \in Syncs : Live(c) =>
         LET spec == cs[c].obj.spec IN
         \A k \in Copies :
           SyncedBy(store[k].obj, SourceNamespace(spec), c) =>
             k.ns \in getTargetNamespaces(spec, nss))

\* The operator does not keep itself busy. The status that ends a sync is an
\* event for the controller that wrote it, and starts one more sync; again and
\* again one ends that finds all it would write there, its own status
\* included, and leaves the next to the timer. This takes syncs that are
\* shorter than a tick of the clock: TickRV bounds the ticks that fall between
\* two status writes (configsync_controller.go:177-201, 405-409).
ComesToRest ==
  \A c \in Syncs :
    \/ []<>~Live(c)
    \/ []<><<pc = "sync" /\ cur = c /\ pc' = "idle"
            /\ cs' = cs /\ c \in timers'>>_vars

\* A ConfigSync a user deletes goes away (configsync_controller.go:54-71).
DeletionCompletes ==
  \A c \in Syncs :
    (Exists(c) /\ cs[c].obj.deleting) ~> ~(Exists(c) /\ cs[c].obj.deleting)

\* A namespace that is being terminated goes away, unless it holds a copy that
\* nobody will delete: the webhook lets the namespace controller delete none,
\* and the operator only those of a ConfigSync that targets it no more
\* (webhook.go:118-137, configsync_controller.go:534-547).
Stray(k) ==
  LET o == store[k].obj
  IN  /\ Live(o.by)
      /\ o.from = SourceNamespace(cs[o.by].obj.spec)
      /\ k.ns \notin getTargetNamespaces(cs[o.by].obj.spec, nss)
EndingNamespaceFreed ==
  <>[](\A n \in ending : \E k \in Copies : k.ns = n /\ ~Stray(k))

-----------------------------------------------------------------------------
\* What the documentation says and the code does not do

\* webhook.go:129: system components may do what operations need, so that a
\* namespace that is deleted goes away.
EndingNamespaceGoes == \A n \in Namespaces : n \in ending ~> n \notin ending

\* README.md:24: a source that is deleted takes its copies with it.
CascadeDelete ==
  Quiet => \A k \in Copies :
             LET src == [k EXCEPT !.ns = store[k].obj.from]
             IN  store[src].obj # NoObj

\* ARCHITECTURE.md:263: cleaning up removes only what a ConfigSync owns, so
\* only a user removes an object without labels.
OnlyOwnedDeleted ==
  [][\A k \in Key :
       /\ store[k].obj # NoObj /\ ~HasSyncLabel(store[k].obj)
       /\ store'[k].obj = NoObj
       => ops' < ops \/ k.ns \in ending]_vars

\* The comment at configsync_controller.go:417: the cleanup deletes all that was
\* synced for a ConfigSync, so none of its copies is left when it is let go of.
CleanupTakesAll ==
  [][\A c \in Syncs :
       Exists(c) /\ cs[c].obj.finalizer /\ cs'[c].obj = NoObj
       => \A k \in Copies : store[k].obj.by # c]_vars

=============================================================================
