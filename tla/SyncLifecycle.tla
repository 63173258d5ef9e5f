--------------------------- MODULE SyncLifecycle ---------------------------
(***************************************************************************)
(* What the operator promises, whoever runs it and however it looks at the *)
(* cluster: the life of each ConfigSync, and the owner of each slot that   *)
(* may hold a Secret or a ConfigMap.                                       *)
(*                                                                         *)
(* Copies are made only for a ConfigSync that is bound to clean up after   *)
(* them, an object of a user's never becomes a copy, a ConfigSync that is  *)
(* bound goes away only after its user has asked for it, and is not        *)
(* brought back.                                                           *)
(***************************************************************************)
CONSTANTS Keys, Syncs, Free, User

VARIABLES
  life,  \* [Syncs -> "absent", "new", "bound", "leaving"]
  owner  \* [Keys -> Syncs, Free or User]

lifecycleVars == <<life, owner>>

Init ==
  /\ life = [c \in Syncs |-> "absent"]
  /\ owner \in [Keys -> {Free, User}]

-----------------------------------------------------------------------------
Step(c, from, to) ==
  /\ life[c] = from /\ life' = [life EXCEPT ![c] = to]
  /\ UNCHANGED owner

Create(c) == Step(c, "absent", "new")
Bind(c) == Step(c, "new", "bound")
Forget(c) == Step(c, "new", "absent")
Leave(c) == Step(c, "bound", "leaving")
Release(c) == Step(c, "leaving", "absent")

Own(k, who) == owner' = [owner EXCEPT ![k] = who] /\ UNCHANGED life

\* Over nothing, or over a copy, whosever it was
Copy(c, k) == life[c] \in {"bound", "leaving"} /\ owner[k] # User /\ Own(k, c)
Empty(k) == Own(k, Free)
Put(k) == Own(k, User)

Next ==
  \/ \E c \in Syncs : Create(c) \/ Bind(c) \/ Forget(c) \/ Leave(c) \/ Release(c)
  \/ \E k \in Keys : Empty(k) \/ Put(k) \/ \E c \in Syncs : Copy(c, k)

Spec == Init /\ [][Next]_lifecycleVars

=============================================================================
