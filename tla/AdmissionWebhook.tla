-------------------------- MODULE AdmissionWebhook --------------------------
(***************************************************************************)
(* SecretValidator and ConfigMapValidator (controllers/webhook.go): the    *)
(* answer the API server gets when it asks whether a request may proceed.  *)
(* The two validators are the same function of the request, and main.go    *)
(* registers both or, with --enable-webhook=false, neither.                *)
(***************************************************************************)
EXTENDS ConfigSyncApi

CONSTANT EnableWebhook  \* --enable-webhook

ASSUME WebhookAssumption == EnableWebhook \in BOOLEAN

\* The operator's service account, members of system:masters, the cluster's
\* own controllers (which are in neither), everyone else
Requesters == {"operator", "masters", "system", "user"}

isOperatorServiceAccount(who) == who \in {"operator", "masters"}

IsSyncedResource(o) == o.from # None /\ o.by # None

\* What a validator decodes: a DELETE carries the object there is, an UPDATE
\* is judged by the object it brings
Decoded(op, old, new) == IF op = "DELETE" THEN old ELSE new

\* old and new are the object before and after the request. CREATE is not
\* sent to the webhook, which would let it through.
Handle(who, op, old, new) ==
  \/ isOperatorServiceAccount(who)
  \/ op \notin {"DELETE", "UPDATE"}
  \/ ~IsSyncedResource(Decoded(op, old, new))

\* What becomes of a request
Admitted(who, op, old, new) == EnableWebhook => Handle(who, op, old, new)

=============================================================================
