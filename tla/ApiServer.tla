----------------------------- MODULE ApiServer -----------------------------
(***************************************************************************)
(* The Kubernetes API server and the informer caches, as the operator's    *)
(* client uses them: reads come from a cache, writes go to the server,     *)
(* every write is sent down a watch, and an Update is refused when the     *)
(* object it carries is not the latest version. Neither is in this         *)
(* repository; their behaviour is the one the controllers rely on.         *)
(*                                                                         *)
(* The module also holds the requests of the people who use the cluster,   *)
(* and the namespace controller, which empties a namespace being deleted.  *)
(***************************************************************************)
EXTENDS AdmissionWebhook, Sequences

CONSTANTS
  Users,    \* who edits objects by hand: a subset of {"user", "masters"}
  UserKeys, \* the objects they write
  UserNamespaces, \* the namespaces they create and delete
  MaxOps,   \* bound: requests made by users
  MaxFaults,\* bound: calls of the operator the API server fails
  MaxRV,    \* bound: versions of a slot; the server refuses further writes
  TickRV    \* bound: up to this version a status write made in a new
            \* second changes the object even if nothing else did

ASSUME BoundsAssumption ==
  /\ Users \subseteq {"user", "masters"} /\ UserKeys \subseteq Key
  /\ UserNamespaces \subseteq Namespaces \ (SystemNamespaces \cup {DefaultNamespace})
  /\ MaxOps \in Nat /\ MaxFaults \in Nat /\ MaxRV \in Nat /\ TickRV \in Nat

VARIABLES
  store,    \* Secrets and ConfigMaps: [Key -> Cell(Object)]
  cache,    \* the informers' view of store
  watch,    \* per kind, the changes of store not yet seen by the informer
  cs,       \* ConfigSync resources: [Syncs -> Cell(ConfigSync)]
  csCache,  \* the informer's view of cs
  csWatch,  \* the changes of cs not yet seen by the informer
  nss,      \* existing namespaces
  ending,   \* those that are being terminated
  nsCache,  \* the informer's view of nss
  nsWatch,  \* the changes of nss not yet seen by the informer
  ops,      \* requests users may still make
  faults    \* calls that may still fail

objVars == <<store, cache, watch>>
csVars == <<cs, csCache, csWatch>>
nsVars == <<nss, ending, nsCache, nsWatch>>
apiVars == <<store, cache, watch, cs, csCache, csWatch, nss, ending, nsCache,
             nsWatch, ops, faults>>

ObjEvent == [key : Key, cell : Cell(Object)]
CsEvent == [sync : Syncs, cell : Cell(ConfigSync)]
NsEvent == [ns : Namespaces, exists : BOOLEAN]

ApiTypeOK ==
  /\ store \in [Key -> Cell(Object)] /\ cache \in [Key -> Cell(Object)]
  /\ watch \in [Kinds -> Seq(ObjEvent)]
  /\ cs \in [Syncs -> Cell(ConfigSync)]
  /\ csCache \in [Syncs -> Cell(ConfigSync)]
  /\ csWatch \in Seq(CsEvent)
  /\ nss \subseteq Namespaces /\ nsCache \subseteq Namespaces
  /\ ending \subseteq nss /\ nsWatch \in Seq(NsEvent)
  /\ ops \in Nat /\ faults \in Nat

-----------------------------------------------------------------------------
\* Calls on Secrets and ConfigMaps

\* A write that leaves the object as it is makes no version and no event
Write(k, o) ==
  IF store[k].obj = o THEN UNCHANGED <<store, watch>>
  ELSE LET cell == [rv |-> store[k].rv + 1, obj |-> o]
       IN  /\ store' = [store EXCEPT ![k] = cell]
           /\ watch' = [watch EXCEPT ![k.kind] =
                          Append(@, [key |-> k, cell |-> cell])]

\* Nothing is created in a namespace that is being terminated
CanCreate(k) ==
  store[k].obj = NoObj /\ k.ns \in nss \ ending /\ store[k].rv < MaxRV

\* The version must be the latest, and the type of a Secret never changes
CanUpdate(k, rv, o) ==
  /\ store[k].obj # NoObj /\ store[k].rv = rv /\ rv < MaxRV
  /\ k.kind = "Secret" => store[k].obj.type = o.type

\* Delete carries no precondition: it removes whatever is there
CanDelete(k) == store[k].obj # NoObj

Fail == faults > 0 /\ faults' = faults - 1

-----------------------------------------------------------------------------
\* Calls on ConfigSyncs

CsWrite(c, o) ==
  LET cell == [rv |-> cs[c].rv + 1, obj |-> o]
  IN  /\ cs' = [cs EXCEPT ![c] = cell]
      /\ csWatch' = Append(csWatch, [sync |-> c, cell |-> cell])

CsCanUpdate(c, rv) == cs[c].obj # NoObj /\ cs[c].rv = rv /\ rv < MaxRV

-----------------------------------------------------------------------------
\* Requests of users

UserObjects(k) ==
  [data : {[at |-> k.ns, v |-> v] : v \in Versions},
   labels : SUBSET Labels, type : IF k.kind = "Secret" THEN Types
                                  ELSE {"Opaque"},
   from : {None}, by : {None}]

Request == ops > 0 /\ ops' = ops - 1 /\ UNCHANGED <<cache, csCache, nsCache>>

UserCreate(k, o) ==
  /\ Request /\ CanCreate(k)
  /\ Write(k, o)
  /\ UNCHANGED <<cs, csWatch, nss, ending, nsWatch, faults>>

\* The new object is submitted without the sync labels, or with those it has
UserUpdate(who, k, o) ==
  /\ Request /\ CanUpdate(k, store[k].rv, o) /\ store[k].obj # o
  /\ Admitted(who, "UPDATE", store[k].obj, o)
  /\ Write(k, o)
  /\ UNCHANGED <<cs, csWatch, nss, ending, nsWatch, faults>>

UserDelete(who, k) ==
  /\ Request /\ CanDelete(k)
  /\ Admitted(who, "DELETE", store[k].obj, NoObj)
  /\ Write(k, NoObj)
  /\ UNCHANGED <<cs, csWatch, nss, ending, nsWatch, faults>>

CreateConfigSync(c, spec) ==
  /\ Request /\ cs[c].obj = NoObj /\ cs[c].rv < MaxRV
  /\ CsWrite(c, [spec |-> spec, finalizer |-> FALSE, deleting |-> FALSE,
                 status |-> NoStatus])
  /\ UNCHANGED <<store, watch, nss, ending, nsWatch, faults>>

EditConfigSync(c, spec) ==
  /\ Request /\ CsCanUpdate(c, cs[c].rv)
  /\ cs[c].obj.spec # spec
  /\ CsWrite(c, [cs[c].obj EXCEPT !.spec = spec])
  /\ UNCHANGED <<store, watch, nss, ending, nsWatch, faults>>

\* With a finalizer on it, the object stays until the finalizer is removed
DeleteConfigSync(c) ==
  /\ Request /\ CsCanUpdate(c, cs[c].rv) /\ ~cs[c].obj.deleting
  /\ CsWrite(c, IF cs[c].obj.finalizer
                THEN [cs[c].obj EXCEPT !.deleting = TRUE] ELSE NoObj)
  /\ UNCHANGED <<store, watch, nss, ending, nsWatch, faults>>

CreateNamespace(n) ==
  /\ Request /\ n \notin nss
  /\ nss' = nss \cup {n}
  /\ nsWatch' = Append(nsWatch, [ns |-> n, exists |-> TRUE])
  /\ UNCHANGED <<store, watch, cs, csWatch, ending, faults>>

\* The informers see a namespace that ends as an update, which is filtered
DeleteNamespace(n) ==
  /\ Request /\ n \in nss \ ending
  /\ ending' = ending \cup {n}
  /\ UNCHANGED <<store, watch, cs, csWatch, nss, nsWatch, faults>>

UserRequest ==
  \/ \E k \in UserKeys :
       \/ \E o \in UserObjects(k) : UserCreate(k, o)
       \/ \E who \in Users, o \in UserObjects(k) : UserUpdate(who, k, o)
       \/ \E who \in Users, v \in Versions :
            /\ store[k].obj # NoObj
            /\ UserUpdate(who, k, [store[k].obj EXCEPT
                                     !.data = [at |-> k.ns, v |-> v]])
       \/ \E who \in Users : UserDelete(who, k)
  \/ \E c \in Syncs :
       \/ \E spec \in Specs : CreateConfigSync(c, spec)
       \/ \E spec \in Specs : EditConfigSync(c, spec)
       \/ DeleteConfigSync(c)
  \/ \E n \in UserNamespaces : CreateNamespace(n) \/ DeleteNamespace(n)

-----------------------------------------------------------------------------
\* The namespace controller of the cluster. It deletes what is left in a
\* namespace that ends, with requests the webhook sees, and then the namespace.

Evict(k) ==
  /\ k.ns \in ending /\ CanDelete(k)
  /\ Admitted("system", "DELETE", store[k].obj, NoObj)
  /\ Write(k, NoObj)
  /\ UNCHANGED <<cache, csVars, nsVars, ops, faults>>

NamespaceGone(n) ==
  /\ n \in ending /\ \A k \in Key : k.ns = n => store[k].obj = NoObj
  /\ nss' = nss \ {n} /\ ending' = ending \ {n}
  /\ nsWatch' = Append(nsWatch, [ns |-> n, exists |-> FALSE])
  /\ UNCHANGED <<objVars, csVars, nsCache, ops, faults>>

NamespaceController ==
  (\E k \in Key : Evict(k)) \/ (\E n \in Namespaces : NamespaceGone(n))

=============================================================================
