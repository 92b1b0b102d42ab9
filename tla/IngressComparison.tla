-------------------------- MODULE IngressComparison --------------------------
(****************************************************************************)
(* When a pass updates an Ingress: IsObjectEqual and updateObject of        *)
(* src/internal/controller/reconciler.go against a mutating webhook, which  *)
(* adds server aliases and TLS hosts of the main domain to what the         *)
(* operator writes.  The webhook is no part of the repository; it is taken  *)
(* for what IsObjectEqual expects of it.  ApplyPass leaves it out: there a  *)
(* child differs from its rendering or not.                                 *)
(****************************************************************************)
EXTENDS Integers

CONSTANTS
    Alias,      \* entries of the annotation server-alias
    Within,     \* <<x, y>>: the text of alias x is a part of that of y
    TlsHost,
    MainDomain, \* the hosts that contain general.domainSubstring
    Secret,     \* names of TLS secrets in templates
    Hooked,     \* ... and the one the webhook sets
    Rest,       \* everything else of an Ingress
    MaxEdits    \* bound on edits of the template and changes of the webhook

ASSUME DomainAssumption ==
    /\ MainDomain \subseteq TlsHost
    /\ Hooked \notin Secret
    /\ \A x \in Alias : <<x, x>> \in Within
    /\ MaxEdits \in Nat

VARIABLES
    template,   \* the child as it is rendered
    child,      \* the child in the cluster
    webhook,    \* what the webhook adds
    writes,     \* history: updates since the last edit
    edits

vars == <<template, child, webhook, writes, edits>>

\* TLS blocks, as the secret of each host.
Tls(secrets) == UNION {[hosts -> secrets] : hosts \in SUBSET TlsHost}

\* mutate is the annotation that asks for the webhook.
IngressOf(secrets) ==
    [mutate : BOOLEAN, alias : SUBSET Alias, tls : Tls(secrets), rest : Rest]

Webhook == [alias : SUBSET Alias, hosts : SUBSET MainDomain]

\* The webhook leaves hosts alone that have a secret.
Mutated(new) ==
    IF ~new.mutate THEN new
    ELSE [mutate |-> TRUE, alias |-> new.alias \cup webhook.alias,
          tls |-> [h \in DOMAIN new.tls \cup webhook.hosts |->
                     IF h \in DOMAIN new.tls THEN new.tls[h] ELSE Hooked],
          rest |-> new.rest]

----------------------------------------------------------------------------

\* strings.Contains of the whole annotation.
Contained(x, aliases) == \E y \in aliases : <<x, y>> \in Within

\* The aliases of the child stand in for those of the template that are all
\* among them.
AliasKept(old, new) ==
    IF \A x \in new.alias : Contained(x, old.alias) THEN old.alias ELSE new.alias

\* Mutant of TlsKept: hosts that were removed are not looked for.
TlsKeptOnceAdded(old, new) ==
    IF DOMAIN new.tls \subseteq DOMAIN old.tls THEN old.tls ELSE new.tls

\* So do its TLS blocks, if they have all hosts of the template and besides
\* them only hosts of the main domain.
TlsKept(old, new) ==
    IF /\ DOMAIN new.tls \subseteq DOMAIN old.tls
       /\ DOMAIN old.tls \ DOMAIN new.tls \subseteq MainDomain
    THEN old.tls ELSE new.tls

\* Mutant of Compared: what the webhook added counts as a difference.
ComparedExactly(old, new) == new

Compared(old, new) ==
    IF ~new.mutate THEN new
    ELSE [mutate |-> TRUE, alias |-> AliasKept(old, new),
          tls |-> TlsKept(old, new), rest |-> new.rest]

IsObjectEqual(old, new) == old = Compared(old, new)

\* Mutant of Updated: the TLS blocks of the child are kept.
UpdatedButTls(old, new) == [new EXCEPT !.tls = old.tls]

\* updateIngressObj: the template replaces all of the child that is its own.
Updated(old, new) == new

\* updateObject; a webhook that is down does not stop the write.
UpdateObject ==
    /\ ~IsObjectEqual(child, template)
    /\ child' \in {Mutated(Updated(child, template)), Updated(child, template)}
    /\ writes' = writes + 1
    /\ UNCHANGED <<template, webhook, edits>>

UserEdits ==
    /\ edits < MaxEdits
    /\ edits' = edits + 1
    /\ template' \in IngressOf(Secret)
    /\ writes' = 0
    /\ UNCHANGED <<child, webhook>>

WebhookChanges ==
    /\ edits < MaxEdits
    /\ edits' = edits + 1
    /\ webhook' \in Webhook
    /\ UNCHANGED <<template, child, writes>>

Init ==
    /\ template \in IngressOf(Secret)
    /\ webhook \in Webhook
    /\ child \in {Mutated(template), template}
    /\ writes = 0
    /\ edits = 0

Next == UpdateObject \/ UserEdits \/ WebhookChanges

\* Every write of the child or its owner brings a pass.
Spec == Init /\ [][Next]_vars /\ WF_vars(UpdateObject)

----------------------------------------------------------------------------

\* Secrets of the webhook are only in children it is asked for.
TypeOK ==
    /\ template \in IngressOf(Secret)
    /\ child \in IngressOf(Secret \cup {Hooked})
    /\ ~child.mutate => child.tls \in Tls(Secret)
    /\ webhook \in Webhook
    /\ writes \in Nat
    /\ edits \in 0..MaxEdits

\* WrittenOnce: one update is enough for an edit, whatever the webhook makes
\* of it and whenever that changes: IsObjectEqual accepts what comes back, and
\* the operator and the webhook do not write against each other forever.
WrittenOnce == writes <= 1

\* Follows: once edits are quiet, the child has every TLS host of its template
\* and no host but those and hosts of the main domain, each alias is in the
\* text of its aliases, and the rest is as in the template.  Not promised is
\* that an alias or a host of the main domain ever goes, or that the secret of
\* a host changes, when nothing else does.
Followed ==
    /\ child.mutate = template.mutate /\ child.rest = template.rest
    /\ DOMAIN template.tls \subseteq DOMAIN child.tls
    /\ DOMAIN child.tls \ DOMAIN template.tls \subseteq MainDomain
    /\ \A x \in template.alias : Contained(x, child.alias)
    /\ ~template.mutate => child = template

Follows == <>[]Followed
=============================================================================
