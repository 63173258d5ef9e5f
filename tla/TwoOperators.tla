---------------------------- MODULE TwoOperators ----------------------------
(***************************************************************************)
(* Two processes of the operator at once. Leader election is off, so while *)
(* a deployment is rolled out the old and the new process run the same     *)
(* controllers side by side. They share the API server and nothing else:   *)
(* each has caches, queues and workers of its own, and what one writes     *)
(* reaches the other through its informers.                                *)
(***************************************************************************)
EXTENDS OperatorProperties

VARIABLES  \* what the second process has in memory
  cache2, watch2, csCache2, csWatch2, nsCache2, nsWatch2,
  csQueue2, timers2, pc2, cur2, snap2, targets2, work2, dels2, items2, report2,
  objQueue2, okey2, odels2, otrig2, nsQueue2, nkey2, ntrig2

\* The second process is the operator over again, with what is proved of it
Other == INSTANCE FinalizerSafety
  WITH cache <- cache2, watch <- watch2, csCache <- csCache2,
       csWatch <- csWatch2, nsCache <- nsCache2, nsWatch <- nsWatch2,
       csQueue <- csQueue2, timers <- timers2, pc <- pc2, cur <- cur2,
       snap <- snap2, targets <- targets2, work <- work2, dels <- dels2,
       items <- items2, report <- report2, objQueue <- objQueue2,
       okey <- okey2, odels <- odels2, otrig <- otrig2, nsQueue <- nsQueue2,
       nkey <- nkey2, ntrig <- ntrig2

twoVars == <<vars, Other!vars>>

TwoInit == Init /\ Other!Init

\* The first process, the users and the cluster
FirstProcess == Next /\ Other!Hears

\* Its controllers, its informers and its end: the pod that takes its place
\* starts with full caches
SecondProcess ==
  /\ \/ Other!MainWorker
     \/ \E c \in Syncs : Other!Timer(c)
     \/ \E kd \in Kinds : Other!ObjWorker(kd) \/ Other!DeliverObj(kd)
     \/ Other!NsWorker \/ Other!DeliverSync \/ Other!DeliverNs
     \/ Other!Restart
  /\ Hears

TwoNext == FirstProcess \/ SecondProcess

TwoSpec == TwoInit /\ [][TwoNext]_twoVars

=============================================================================
