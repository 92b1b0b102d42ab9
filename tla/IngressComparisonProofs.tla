----------------------- MODULE IngressComparisonProofs -----------------------
(****************************************************************************)
(* For any aliases, hosts, secrets and edits: the types; operator and       *)
(* webhook do not write against each other (WrittenOnce); and a child that  *)
(* IsObjectEqual accepts is what its template asks for.                     *)
(****************************************************************************)
EXTENDS IngressComparison, TLAPS

\* Once the child was written it is found equal until the template changes.
Settled ==
    \/ writes = 0
    \/ writes = 1 /\ IsObjectEqual(child, template)

Inv == TypeOK /\ Settled

\* What an update writes is found equal, as it is sent.
LEMMA SentEqual ==
    ASSUME NEW t \in IngressOf(Secret)
    PROVE  IsObjectEqual(t, t)
<1>1. CASE ~t.mutate
  BY <1>1 DEF IsObjectEqual, Compared
<1>2. CASE t.mutate
  <2>1. AliasKept(t, t) = t.alias
    BY DEF AliasKept
  <2>2. TlsKept(t, t) = t.tls
    BY DEF TlsKept
  <2>3. t = [mutate |-> TRUE, alias |-> t.alias, tls |-> t.tls,
             rest |-> t.rest]
    BY <1>2 DEF IngressOf
  <2> QED
    BY <1>2, <2>1, <2>2, <2>3 DEF IsObjectEqual, Compared
<1> QED
  BY <1>1, <1>2

\* ... and as the webhook leaves it: the aliases it adds stand beside those of
\* the template, and the hosts it adds are hosts of the main domain.
LEMMA MutatedEqual ==
    ASSUME NEW t \in IngressOf(Secret), webhook \in Webhook
    PROVE  IsObjectEqual(Mutated(t), t)
<1>1. CASE ~t.mutate
  BY <1>1, SentEqual DEF Mutated
<1>2. CASE t.mutate
  <2> DEFINE m == Mutated(t)
  <2>1. /\ m.mutate = TRUE /\ m.rest = t.rest
        /\ m.alias = t.alias \cup webhook.alias
        /\ DOMAIN m.tls = DOMAIN t.tls \cup webhook.hosts
        /\ m = [mutate |-> TRUE, alias |-> m.alias, tls |-> m.tls,
                rest |-> t.rest]
    BY <1>2 DEF Mutated
  <2>2. AliasKept(m, t) = m.alias
    <3>1. ASSUME NEW x \in t.alias
          PROVE  Contained(x, m.alias)
      <4>1. x \in Alias
        BY DEF IngressOf
      <4>2. <<x, x>> \in Within
        BY <4>1, DomainAssumption DEF DomainAssumption
      <4>3. x \in m.alias
        BY <2>1
      <4> QED
        BY <4>2, <4>3 DEF Contained
    <3> QED
      BY <3>1 DEF AliasKept
  <2>3. TlsKept(m, t) = m.tls
    <3>1. webhook.hosts \subseteq MainDomain
      BY DEF Webhook
    <3> QED
      BY <2>1, <3>1 DEF TlsKept
  <2> HIDE DEF m
  <2>4. Compared(m, t) = m
    BY <1>2, <2>1, <2>2, <2>3 DEF Compared
  <2>5. IsObjectEqual(m, t)
    BY <2>4 DEF IsObjectEqual
  <2> QED
    BY <2>5 DEF m
<1> QED
  BY <1>1, <1>2

(* TLS blocks and the types.                                                *)

LEMMA TlsOf ==
    ASSUME NEW S, NEW f
    PROVE  f \in Tls(S) <=> /\ DOMAIN f \subseteq TlsHost
                            /\ f \in [DOMAIN f -> S]
BY DEF Tls

\* The webhook gives a secret of its own to the hosts it adds.
LEMMA MutatedTyped ==
    ASSUME NEW t \in IngressOf(Secret), webhook \in Webhook
    PROVE  /\ Mutated(t) \in IngressOf(Secret \cup {Hooked})
           /\ Mutated(t).mutate = t.mutate
           /\ ~t.mutate => Mutated(t).tls \in Tls(Secret)
<1>1. /\ t.mutate \in BOOLEAN /\ t.alias \in SUBSET Alias
      /\ t.tls \in Tls(Secret) /\ t.rest \in Rest
      /\ t = [mutate |-> t.mutate, alias |-> t.alias, tls |-> t.tls,
              rest |-> t.rest]
  BY DEF IngressOf
<1>2. t.tls \in Tls(Secret \cup {Hooked})
  BY <1>1, TlsOf
<1>3. CASE ~t.mutate
  BY <1>1, <1>2, <1>3 DEF Mutated, IngressOf
<1>4. CASE t.mutate
  <2> DEFINE tls == [h \in DOMAIN t.tls \cup webhook.hosts |->
                       IF h \in DOMAIN t.tls THEN t.tls[h] ELSE Hooked]
  <2>1. webhook.hosts \subseteq TlsHost /\ webhook.alias \subseteq Alias
    BY DomainAssumption DEF DomainAssumption, Webhook
  <2>2. DOMAIN t.tls \subseteq TlsHost /\ t.tls \in [DOMAIN t.tls -> Secret]
    BY <1>1, TlsOf
  <2>3. DOMAIN tls \subseteq TlsHost /\ tls \in [DOMAIN tls -> Secret \cup {Hooked}]
    BY <2>1, <2>2
  <2>4. tls \in Tls(Secret \cup {Hooked})
    BY <2>3, TlsOf
  <2>5. Mutated(t) = [mutate |-> TRUE, alias |-> t.alias \cup webhook.alias,
                      tls |-> tls, rest |-> t.rest]
    BY <1>4 DEF Mutated
  <2> HIDE DEF tls
  <2> QED
    BY <1>1, <1>4, <2>1, <2>4, <2>5 DEF IngressOf
<1> QED
  BY <1>3, <1>4

LEMMA SentTyped ==
    ASSUME NEW t \in IngressOf(Secret)
    PROVE  /\ t \in IngressOf(Secret \cup {Hooked})
           /\ t.tls \in Tls(Secret)
<1>1. /\ t.mutate \in BOOLEAN /\ t.alias \in SUBSET Alias
      /\ t.tls \in Tls(Secret) /\ t.rest \in Rest
      /\ t = [mutate |-> t.mutate, alias |-> t.alias, tls |-> t.tls,
              rest |-> t.rest]
  BY DEF IngressOf
<1>2. t.tls \in Tls(Secret \cup {Hooked})
  BY <1>1, TlsOf
<1> QED
  BY <1>1, <1>2 DEF IngressOf

----------------------------------------------------------------------------
(* The invariant.                                                           *)

LEMMA InitInv == Init => Inv
<1> SUFFICES ASSUME Init PROVE Inv
  OBVIOUS
<1>1. 0 \in 0..MaxEdits
  BY DomainAssumption DEF DomainAssumption
<1>2. /\ child \in IngressOf(Secret \cup {Hooked})
      /\ ~child.mutate => child.tls \in Tls(Secret)
  BY MutatedTyped, SentTyped DEF Init
<1> QED
  BY <1>1, <1>2 DEF Init, Inv, TypeOK, Settled

LEMMA NextInv == Inv /\ [Next]_vars => Inv'
<1> SUFFICES ASSUME Inv, [Next]_vars
             PROVE  Inv'
  OBVIOUS
<1>1. CASE UpdateObject
  <2>1. writes = 0
    BY <1>1 DEF Inv, Settled, UpdateObject
  <2>2. /\ template' = template /\ webhook' = webhook /\ writes' = 1
        /\ edits' = edits
    BY <1>1, <2>1 DEF UpdateObject
  <2>3. child' = Mutated(template) \/ child' = template
    BY <1>1 DEF UpdateObject, Updated
  <2>4. IsObjectEqual(child', template)
    BY <2>3, SentEqual, MutatedEqual DEF Inv, TypeOK
  <2>5. IsObjectEqual(child', template')
    BY <2>2, <2>4
  <2>6. Settled'
    BY <2>2, <2>5 DEF Settled
  <2>7. /\ child' \in IngressOf(Secret \cup {Hooked})
        /\ ~child'.mutate => child'.tls \in Tls(Secret)
    BY <2>3, MutatedTyped, SentTyped DEF Inv, TypeOK
  <2>8. TypeOK'
    BY <2>2, <2>7 DEF Inv, TypeOK, Webhook
  <2> QED
    BY <2>6, <2>8 DEF Inv
<1>2. CASE UserEdits
  <2>1. edits' \in 0..MaxEdits
    BY <1>2, DomainAssumption DEF UserEdits, Inv, TypeOK, DomainAssumption
  <2> QED
    BY <1>2, <2>1 DEF UserEdits, Inv, TypeOK, Settled, Webhook
<1>3. CASE WebhookChanges
  <2>1. edits' \in 0..MaxEdits
    BY <1>3, DomainAssumption
    DEF WebhookChanges, Inv, TypeOK, DomainAssumption
  <2> QED
    BY <1>3, <2>1
    DEF WebhookChanges, Inv, TypeOK, Settled, IsObjectEqual, Webhook
<1>4. CASE UNCHANGED vars
  BY <1>4 DEF vars, Inv, TypeOK, Settled, IsObjectEqual, Webhook
<1> QED
  BY <1>1, <1>2, <1>3, <1>4 DEF Next

\* TypeCorrect: whatever the webhook adds, a child it is not asked for has the
\* secrets of its template alone.
THEOREM TypeCorrect == Spec => []TypeOK
<1>1. Inv => TypeOK
  BY DEF Inv
<1> QED
  BY <1>1, InitInv, NextInv, PTL DEF Spec

\* NoWriteLoop: whatever the webhook adds and whenever it changes its mind or
\* is down, an edit of the template costs one update of the child and no pass
\* after it writes again (updateObject against a mutating webhook).
THEOREM NoWriteLoop == Spec => []WrittenOnce
<1>1. Inv => WrittenOnce
  BY DEF Inv, Settled, WrittenOnce
<1> QED
  BY <1>1, InitInv, NextInv, PTL DEF Spec

\* The child that IsObjectEqual accepts for a template follows it.
LEMMA EqualFollows == TypeOK /\ IsObjectEqual(child, template) => Followed
<1> SUFFICES ASSUME TypeOK, IsObjectEqual(child, template) PROVE Followed
  OBVIOUS
<1>1. /\ template \in IngressOf(Secret) /\ child = Compared(child, template)
      /\ child \in IngressOf(Secret \cup {Hooked})
  BY DEF TypeOK, IsObjectEqual
<1>2. CASE ~template.mutate
  <2>1. child = template
    BY <1>1, <1>2 DEF Compared
  <2>2. \A x \in template.alias : Contained(x, template.alias)
    BY <1>1, DomainAssumption DEF DomainAssumption, IngressOf, Contained
  <2> QED
    BY <2>1, <2>2 DEF Followed
<1>3. CASE template.mutate
  <2>1. /\ child.mutate = TRUE /\ child.rest = template.rest
        /\ child.alias = AliasKept(child, template)
        /\ child.tls = TlsKept(child, template)
    <3>1. child = [mutate |-> TRUE, alias |-> AliasKept(child, template),
                   tls |-> TlsKept(child, template), rest |-> template.rest]
      BY <1>1, <1>3 DEF Compared
    <3> QED
      BY <3>1
  <2>2. /\ DOMAIN template.tls \subseteq DOMAIN child.tls
        /\ DOMAIN child.tls \ DOMAIN template.tls \subseteq MainDomain
    BY <2>1 DEF TlsKept
  <2>3. \A x \in template.alias : Contained(x, child.alias)
    <3>1. CASE \A x \in template.alias : Contained(x, child.alias)
      BY <3>1
    <3>2. CASE ~ \A x \in template.alias : Contained(x, child.alias)
      <4>1. child.alias = template.alias
        BY <2>1, <3>2 DEF AliasKept
      <4> QED
        BY <1>1, <4>1, DomainAssumption
        DEF DomainAssumption, IngressOf, Contained
    <3> QED
      BY <3>1, <3>2
  <2> QED
    BY <1>1, <1>3, <2>1, <2>2, <2>3 DEF Followed, IngressOf
<1> QED
  BY <1>2, <1>3

\* AcceptedFollows: a child that a pass leaves alone follows its template, so
\* an update is missed only while IsObjectEqual asks for one (the state in
\* which Follows, which needs fairness and stays with TLC, ends).
THEOREM AcceptedFollows ==
    Spec => [](IsObjectEqual(child, template) => Followed)
BY TypeCorrect, EqualFollows, PTL
=============================================================================
