------------------------- MODULE EntitlementProofs -------------------------
(***************************************************************************)
(* TypeOK, PlanEnds, Settled and NoFreeRide hold of every instance: any    *)
(* number of subscriptions, events and overlapping logins, any length of   *)
(* the month, and every fault.                                             *)
(***************************************************************************)
EXTENDS Entitlement, TLAPS

Kinds == {"checkout", "updated", "deleted"}

Events == [n : Nat, kind : Kinds, sub : Subs, plan : Plans, end : Nat, seen : BOOLEAN]

USE DEF Plans, PaidPlans, Ends, Kinds

\* Whatever Stripe sends is an event (subscriptions as Stripe knows them).
LEMMA SendType ==
    ASSUME TypeOK, NEW kinds \in Seq(Kinds),
           NEW s \in Subs, NEW p \in Plans, NEW end \in Nat, Send(kinds, s, p, end)
    PROVE  sent' \in Nat /\ inflight' \subseteq Events
<1>1. Len(kinds) \in Nat
  OBVIOUS
<1>2. sent' \in Nat
  BY <1>1 DEF Send, TypeOK
<1>3. \A i \in DOMAIN kinds :
         [n |-> sent + i, kind |-> kinds[i], sub |-> s, plan |-> p, end |-> end, seen |-> FALSE]
            \in Events
  BY DEF Events, TypeOK
<1>4. inflight \subseteq Events
  BY DEF TypeOK, Events
<1>5. inflight' \subseteq Events
  BY <1>3, <1>4, Zenon DEF Send
<1>6. QED
  BY <1>2, <1>5

\* No delivery makes anything but an event (StripeWebhook).
LEMMA DeliverType ==
    ASSUME TypeOK, NEW e \in inflight, Deliver(e)
    PROVE  inflight' \subseteq Events
<1>1. inflight \subseteq Events
  BY DEF TypeOK, Events
<1>2. [e EXCEPT !.seen = TRUE] \in Events
  BY <1>1 DEF Events
<1>3. \/ inflight' = inflight \ {e}
      \/ inflight' = (inflight \ {e}) \cup {[e EXCEPT !.seen = TRUE]}
  BY DEF Deliver
<1>4. QED
  BY <1>1, <1>2, <1>3, Zenon

\* Every step keeps the types of the row, of the events and of the logins.
LEMMA TypeStep == TypeOK /\ [Next]_vars => TypeOK'
<1> SUFFICES ASSUME TypeOK, [Next]_vars PROVE TypeOK'
  OBVIOUS
<1> USE ConstantsAssumption
<1>1. ASSUME NEW s \in Subs, NEW p \in PaidPlans, Subscribe(s, p) PROVE TypeOK'
  <2>1. PICK end \in {now + 1, now + Month} :
           /\ stripe' = [stripe EXCEPT ![s] = [state |-> "active", plan |-> p, end |-> end]]
           /\ Send(<<"checkout", "updated">>, s, p, end)
    BY <1>1 DEF Subscribe
  <2>2. end \in Nat
    BY DEF TypeOK
  <2>3. sent' \in Nat /\ inflight' \subseteq Events
    BY <2>1, <2>2, SendType, <<"checkout", "updated">> \in Seq(Kinds), p \in Plans
  <2>4. stripe' \in [Subs -> [state : {"none", "active", "past_due", "canceled"},
                              plan : Plans, end : Nat]]
    BY <2>1, <2>2 DEF TypeOK
  <2>5. QED
    BY <2>1, <2>3, <2>4 DEF TypeOK, Send, Events, loginVars
<1>2. ASSUME NEW s \in Subs, NEW p \in PaidPlans, Update(s, p) PROVE TypeOK'
  <2>1. PICK end \in {stripe[s].end, stripe[s].end + Month} :
           /\ stripe' = [stripe EXCEPT ![s] = [state |-> "active", plan |-> p, end |-> end]]
           /\ Send(<<"updated">>, s, p, end)
    BY <1>2 DEF Update
  <2>2. end \in Nat
    BY DEF TypeOK
  <2>3. sent' \in Nat /\ inflight' \subseteq Events
    BY <2>1, <2>2, SendType, <<"updated">> \in Seq(Kinds), p \in Plans
  <2>4. stripe' \in [Subs -> [state : {"none", "active", "past_due", "canceled"},
                              plan : Plans, end : Nat]]
    BY <2>1, <2>2 DEF TypeOK
  <2>5. QED
    BY <2>1, <2>3, <2>4 DEF TypeOK, Send, Events, loginVars
<1>3. ASSUME NEW s \in Subs, Cancel(s) PROVE TypeOK'
  <2>1. PICK state \in {"past_due", "canceled"} : stripe' = [stripe EXCEPT ![s].state = state]
    BY <1>3 DEF Cancel
  <2>2. Send(<<"deleted">>, s, stripe[s].plan, stripe[s].end)
    BY <1>3 DEF Cancel
  <2>3. stripe[s].plan \in Plans /\ stripe[s].end \in Nat
    BY DEF TypeOK
  <2>4. sent' \in Nat /\ inflight' \subseteq Events
    BY <2>2, <2>3, SendType, <<"deleted">> \in Seq(Kinds)
  <2>5. stripe' \in [Subs -> [state : {"none", "active", "past_due", "canceled"},
                              plan : Plans, end : Nat]]
    BY <2>1 DEF TypeOK
  <2>6. QED
    BY <2>2, <2>4, <2>5 DEF TypeOK, Send, Events, loginVars
<1>4. ASSUME NEW e \in inflight, Webhook(e) PROVE TypeOK'
  <2>1. Deliver(e) /\ (OnCheckout(e) \/ OnUpdated(e) \/ OnDeleted(e))
    BY <1>4 DEF Webhook
  <2>2. inflight' \subseteq Events
    BY <2>1, DeliverType
  <2>3. e.sub \in Subs /\ e.plan \in Plans /\ e.end \in Nat
    BY DEF TypeOK
  <2>4. InOrder(e) \in BOOLEAN
    BY DEF InOrder
  <2>5. /\ plan' \in Plans /\ expires' \in Ends /\ granted' \in BOOLEAN
        /\ customer' \in Subs \cup {None}
        /\ activating' \subseteq [sub : Subs, plan : Plans]
        /\ disturbed' \in BOOLEAN
    <3>1. CASE OnCheckout(e)
      <4>1. [sub |-> e.sub, plan |-> e.plan] \in [sub : Subs, plan : Plans]
        BY <2>3
      <4>2. QED
        BY <2>3, <2>4, <3>1, <4>1 DEF OnCheckout, KeepPlan, TypeOK
    <3>2. CASE OnUpdated(e)
      BY <2>3, <2>4, <3>2 DEF OnUpdated, ForCustomer, SetPlan, KeepPlan, TypeOK
    <3>3. CASE OnDeleted(e)
      BY <2>3, <2>4, <3>3 DEF OnDeleted, ForCustomer, SetPlan, KeepPlan, TypeOK
    <3>4. QED
      BY <2>1, <3>1, <3>2, <3>3
  <2>6. QED
    BY <2>1, <2>2, <2>5 DEF TypeOK, Events, Deliver, stripeVars, loginVars
<1>5. CASE Tick
  BY <1>5 DEF Tick, TypeOK, loginVars
<1>6. ASSUME NEW a \in activating, Activate(a) PROVE TypeOK'
  <2>1. a.plan \in Plans /\ now + Month \in Nat
    BY DEF TypeOK
  <2>2. plan' \in Plans /\ expires' \in Ends /\ granted' \in BOOLEAN /\ disturbed' \in BOOLEAN
    BY <1>6, <2>1 DEF Activate, SetPlan, KeepPlan, TypeOK
  <2>3. QED
    BY <1>6, <2>2 DEF Activate, TypeOK, stripeVars, loginVars
<1>7. ASSUME NEW r \in Logins, LoginRead(r) PROVE TypeOK'
  BY <1>7 DEF LoginRead, TypeOK, stripeVars
<1>8. ASSUME NEW r \in Logins, LoginFinish(r) PROVE TypeOK'
  <2>1. plan' \in Plans /\ expires' \in Ends /\ granted' \in BOOLEAN /\ disturbed' \in BOOLEAN
    BY <1>8 DEF LoginFinish, LoginDowngrade, SetPlan, KeepPlan, Expired, TypeOK
  <2>2. QED
    BY <1>8, <2>1 DEF LoginFinish, TypeOK, stripeVars
<1>9. ASSUME NEW p \in Plans, AdminSetPlan(p) PROVE TypeOK'
  BY <1>9 DEF AdminSetPlan, TypeOK, stripeVars, loginVars
<1>10. CASE UNCHANGED vars
  BY <1>10 DEF vars, stripeVars, loginVars, TypeOK
<1>11. QED
  BY <1>1, <1>2, <1>3, <1>4, <1>5, <1>6, <1>7, <1>8, <1>9, <1>10 DEF Next, Stripe

\* The types hold in every reachable state.
THEOREM TypeCorrect == Spec => []TypeOK
<1>1. ASSUME Init PROVE TypeOK
  <2>1. stripe \in [Subs -> [state : {"none", "active", "past_due", "canceled"},
                             plan : Plans, end : Nat]]
    BY <1>1 DEF Init
  <2>2. pc \in [Logins -> {"idle", "read"}] /\ snap \in [Logins -> Ends]
    BY <1>1 DEF Init
  <2>3. QED
    BY <1>1, <2>1, <2>2 DEF Init, TypeOK
<1>2. TypeOK /\ [Next]_vars => TypeOK'
  BY TypeStep
<1>3. QED
  BY <1>1, <1>2, PTL DEF Spec

\* A step that writes a paid plan writes an end with it or is the admin's
\* (the UPDATE statements of webhook.go, Login and SetPlan).
LEMMA PlanEndsStep == TypeOK /\ PlanEnds /\ [Next]_vars => PlanEnds'
<1> SUFFICES ASSUME TypeOK, PlanEnds, [Next]_vars PROVE PlanEnds'
  OBVIOUS
<1> USE ConstantsAssumption
<1>1. ASSUME KeepPlan PROVE PlanEnds'
  BY <1>1 DEF KeepPlan, PlanEnds
<1>2. ASSUME NEW p, NEW exp \in Nat, SetPlan(p, exp) PROVE PlanEnds'
  BY <1>2 DEF SetPlan, PlanEnds
<1>3. ASSUME NEW exp, SetPlan("free", exp) PROVE PlanEnds'
  BY <1>3 DEF SetPlan, PlanEnds
<1>4. ASSUME NEW e \in inflight, Webhook(e) PROVE PlanEnds'
  <2>1. e.end \in Nat
    BY DEF TypeOK
  <2>2. KeepPlan \/ SetPlan(e.plan, e.end) \/ SetPlan("free", None)
    BY <1>4 DEF Webhook, OnCheckout, OnUpdated, OnDeleted, ForCustomer
  <2>3. QED
    BY <1>1, <1>2, <1>3, <2>1, <2>2
<1>5. ASSUME NEW a \in activating, Activate(a) PROVE PlanEnds'
  <2>1. now + Month \in Nat
    BY DEF TypeOK
  <2>2. KeepPlan \/ SetPlan(a.plan, now + Month)
    BY <1>5 DEF Activate
  <2>3. QED
    BY <1>1, <1>2, <2>1, <2>2
<1>6. ASSUME NEW r \in Logins, LoginFinish(r) PROVE PlanEnds'
  <2>1. KeepPlan \/ SetPlan("free", None)
    BY <1>6 DEF LoginFinish, LoginDowngrade
  <2>2. QED
    BY <1>1, <1>3, <2>1
<1>7. ASSUME NEW p \in Plans, AdminSetPlan(p) PROVE PlanEnds'
  BY <1>7 DEF AdminSetPlan, PlanEnds
<1>8. ASSUME \/ \E s \in Subs : Cancel(s) \/ \E p \in PaidPlans : Subscribe(s, p) \/ Update(s, p)
             \/ Tick
             \/ \E r \in Logins : LoginRead(r)
             \/ UNCHANGED vars
      PROVE  PlanEnds'
  BY <1>1, <1>8 DEF KeepPlan, Subscribe, Update, Cancel, Send, Tick, LoginRead, vars
<1>9. QED
  BY <1>4, <1>5, <1>6, <1>7, <1>8 DEF Next, Stripe

\* No interleaving of webhooks, logins and the admin leaves a paid plan
\* without an end, so that no login could ever take it away.
THEOREM PlanAlwaysEnds == Spec => []PlanEnds
<1>1. Init => PlanEnds
  BY DEF Init, PlanEnds
<1>2. QED
  BY <1>1, TypeCorrect, PlanEndsStep, PTL DEF Spec

-----------------------------------------------------------------------------
(***************************************************************************)
(* Settled: events applied in order leave what Stripe says.  Of every      *)
(* subscription the newest event that is still to be applied says what     *)
(* Stripe says of it (NewestMatches); with none left the row does (RowSays).*)
(***************************************************************************)
Pending(s) == {e \in inflight : e.sub = s /\ ~ e.seen /\ e.kind # "checkout"}

Newest(e) == \A f \in Pending(e.sub) : f.n <= e.n

Matches(e) ==
    IF e.kind = "updated"
    THEN /\ stripe[e.sub].state = "active"
         /\ stripe[e.sub].plan = e.plan /\ stripe[e.sub].end = e.end
    ELSE stripe[e.sub].state # "active"

Says(s) ==
    \/ stripe[s].state = "active" /\ plan = stripe[s].plan /\ expires = stripe[s].end
    \/ stripe[s].state = "active" /\ stripe[s].end < now /\ plan = "free"
    \/ stripe[s].state # "active" /\ plan = "free"

NewestMatches ==
    /\ \A e \in inflight : e.n <= sent
    /\ \A s \in Subs : \A e \in Pending(s) : Newest(e) => Matches(e)
    /\ \A e \in inflight : e.kind = "checkout" /\ ~ e.seen => \E f \in Pending(e.sub) : e.n < f.n

RowSays ==
    /\ customer = None => plan = "free" /\ activating = {}
    /\ activating # {} => Pending(customer) # {}
    /\ customer # None /\ Pending(customer) = {} => Says(customer)

InStep == ~ disturbed => NewestMatches /\ RowSays

\* Stripe sends an event about s, and a checkout before it.
LEMMA SentMatches ==
    ASSUME TypeOK, InStep, ~ disturbed, NEW s \in Subs, NEW last, NEW first,
           last.sub = s, ~ last.seen, last.kind # "checkout", last.n = sent', sent < sent', sent' \in Nat,
           \A e \in first : e.sub = s /\ e.kind = "checkout" /\ e.n \in Nat /\ e.n < sent',
           inflight' = inflight \cup first \cup {last},
           \A t \in Subs \ {s} : stripe'[t] = stripe[t],
           Matches(last)', UNCHANGED <<now, plan, expires, customer, activating>>
    PROVE  NewestMatches' /\ RowSays'
<1>1. Pending(s)' = Pending(s) \cup {last} /\ \A t \in Subs \ {s} : Pending(t)' = Pending(t)
  BY DEF Pending
<1>2. sent \in Nat /\ \A e \in inflight : e.n \in Nat /\ e.n <= sent /\ e.sub \in Subs
  BY DEF TypeOK, InStep, NewestMatches
<1>3. \A e \in inflight' : e.n <= sent'
  BY <1>2
<1>4. ASSUME NEW t \in Subs, NEW e \in Pending(t)', Newest(e)' PROVE Matches(e)'
  <2>1. CASE t = s
    <3>1. e.sub = s /\ last.n <= e.n
      BY <1>1, <1>4, <2>1 DEF Newest, Pending
    <3>2. e \notin inflight
      BY <1>2, <3>1
    <3>3. e = last
      BY <3>2, <1>1, <2>1 DEF Pending
    <3> QED
      BY <3>3
  <2>2. CASE t # s
    BY <1>1, <1>4, <2>2 DEF InStep, NewestMatches, Newest, Matches, Pending
  <2> QED
    BY <2>1, <2>2
<1>5. ASSUME NEW e \in inflight', e.kind = "checkout", ~ e.seen
      PROVE  \E f \in Pending(e.sub)' : e.n < f.n
  <2>1. CASE e \in first
    BY <1>1, <2>1
  <2>2. CASE e \in inflight
    <3>1. PICK f \in Pending(e.sub) : e.n < f.n
      BY <1>5, <2>2 DEF InStep, NewestMatches
    <3> QED
      BY <1>1, <1>2, <2>2, <3>1
  <2> QED
    BY <1>5, <2>1, <2>2
<1>6. RowSays'
  <2>1. activating # {} => Pending(customer)' # {}
    BY <1>1 DEF InStep, RowSays, TypeOK
  <2>2. customer # None /\ Pending(customer)' = {} => Says(customer)'
    BY <1>1 DEF InStep, RowSays, TypeOK, Says
  <2> QED
    BY <2>1, <2>2 DEF InStep, RowSays
<1> QED
  BY <1>3, <1>4, <1>5, <1>6 DEF NewestMatches

LEMMA SubscribeInStep ==
    ASSUME TypeOK, InStep, ~ disturbed, NEW s \in Subs, NEW p \in PaidPlans, Subscribe(s, p)
    PROVE  NewestMatches' /\ RowSays'
<1>1. PICK end \in {now + 1, now + Month} :
         /\ stripe' = [stripe EXCEPT ![s] = [state |-> "active", plan |-> p, end |-> end]]
         /\ Send(<<"checkout", "updated">>, s, p, end)
  BY DEF Subscribe
<1> DEFINE event(n, kind) ==
      [n |-> n, kind |-> kind, sub |-> s, plan |-> p, end |-> end, seen |-> FALSE]
<1>2. /\ sent' = sent + 2
      /\ inflight' = inflight \cup {event(sent + 1, "checkout")} \cup {event(sent + 2, "updated")}
  BY <1>1 DEF Send, TypeOK
<1>3. stripe'[s] = [state |-> "active", plan |-> p, end |-> end]
  BY <1>1 DEF TypeOK
<1>4. PICK first, last :
         first = {event(sent + 1, "checkout")} /\ last = event(sent + 2, "updated")
  OBVIOUS
<1>5. \A t \in Subs \ {s} : stripe'[t] = stripe[t]
  BY <1>1 DEF TypeOK
<1>6. UNCHANGED <<now, plan, expires, customer, activating>>
  BY <1>1 DEF Send
<1>7. sent < sent' /\ sent' \in Nat /\ sent + 1 < sent'
  BY <1>2 DEF TypeOK
<1>8. /\ last.sub = s /\ ~ last.seen /\ last.kind # "checkout" /\ last.n = sent'
      /\ \A e \in first : e.sub = s /\ e.kind = "checkout" /\ e.n \in Nat /\ e.n < sent'
  BY <1>2, <1>4, <1>7 DEF TypeOK
<1>9. inflight' = inflight \cup first \cup {last} /\ Matches(last)'
  BY <1>2, <1>3, <1>4 DEF Matches
<1> HIDE DEF event
<1> QED
  BY <1>5, <1>6, <1>7, <1>8, <1>9, SentMatches

\* A single event: a renewal or a change of plan, or the end of the payment.
LEMMA UpdateInStep ==
    ASSUME TypeOK, InStep, ~ disturbed, NEW s \in Subs, NEW p \in PaidPlans, Update(s, p)
    PROVE  NewestMatches' /\ RowSays'
<1>1. PICK end \in {stripe[s].end, stripe[s].end + Month} :
         /\ stripe' = [stripe EXCEPT ![s] = [state |-> "active", plan |-> p, end |-> end]]
         /\ Send(<<"updated">>, s, p, end)
  BY DEF Update
<1>2. PICK last : last =
         [n |-> sent + 1, kind |-> "updated", sub |-> s, plan |-> p, end |-> end, seen |-> FALSE]
  OBVIOUS
<1> DEFINE first == {}
<1>3. sent' = sent + 1 /\ inflight' = inflight \cup first \cup {last}
  BY <1>1, <1>2 DEF Send, TypeOK
<1>4. /\ stripe'[s] = [state |-> "active", plan |-> p, end |-> end]
      /\ \A t \in Subs \ {s} : stripe'[t] = stripe[t]
  BY <1>1 DEF TypeOK
<1>5. UNCHANGED <<now, plan, expires, customer, activating>> /\ sent < sent' /\ sent' \in Nat
  BY <1>1, <1>3 DEF Send, TypeOK
<1>6. last.sub = s /\ ~ last.seen /\ last.kind # "checkout" /\ last.n = sent' /\ Matches(last)'
  BY <1>2, <1>3, <1>4 DEF Matches
<1>7. \A e \in first : e.sub = s /\ e.kind = "checkout" /\ e.n \in Nat /\ e.n < sent'
  OBVIOUS
<1> HIDE DEF first
<1> QED
  BY <1>3, <1>4, <1>5, <1>6, <1>7, SentMatches

LEMMA CancelInStep ==
    ASSUME TypeOK, InStep, ~ disturbed, NEW s \in Subs, Cancel(s)
    PROVE  NewestMatches' /\ RowSays'
<1>1. PICK state \in {"past_due", "canceled"} : stripe' = [stripe EXCEPT ![s].state = state]
  BY DEF Cancel
<1>2. PICK last : last =
         [n |-> sent + 1, kind |-> "deleted", sub |-> s, plan |-> stripe[s].plan,
          end |-> stripe[s].end, seen |-> FALSE]
  OBVIOUS
<1> DEFINE first == {}
<1>3. sent' = sent + 1 /\ inflight' = inflight \cup first \cup {last}
  BY <1>2 DEF Cancel, Send, TypeOK
<1>4. stripe'[s].state # "active" /\ \A t \in Subs \ {s} : stripe'[t] = stripe[t]
  BY <1>1 DEF TypeOK
<1>5. UNCHANGED <<now, plan, expires, customer, activating>> /\ sent < sent' /\ sent' \in Nat
  BY <1>3 DEF Cancel, Send, TypeOK
<1>6. last.sub = s /\ ~ last.seen /\ last.kind # "checkout" /\ last.n = sent' /\ Matches(last)'
  BY <1>2, <1>3, <1>4 DEF Matches
<1>7. \A e \in first : e.sub = s /\ e.kind = "checkout" /\ e.n \in Nat /\ e.n < sent'
  OBVIOUS
<1> HIDE DEF first
<1> QED
  BY <1>3, <1>4, <1>5, <1>6, <1>7, SentMatches

\* An event delivered in order leaves the newer ones.
LEMMA DeliveredInOrder ==
    ASSUME TypeOK, InStep, ~ disturbed, NEW e \in inflight, Deliver(e), InOrder(e)
    PROVE  /\ NewestMatches'
           /\ \A s \in Subs : Pending(s)' = Pending(s) \ {e}
<1>1. PICK copy : copy = [e EXCEPT !.seen = TRUE]
  OBVIOUS
<1>2. copy.seen /\ copy.n = e.n
  BY <1>1 DEF TypeOK
<1>3. inflight' = inflight \ {e} \/ inflight' = (inflight \ {e}) \cup {copy}
  BY <1>1 DEF Deliver
<1>4. \A f \in inflight' : f \in inflight \ {e} \/ (f.seen /\ f.n = e.n)
  BY <1>2, <1>3
<1>5. \A s \in Subs : Pending(s)' = Pending(s) \ {e}
  BY <1>2, <1>3 DEF Pending
<1>6. \A f \in inflight : ~ f.seen => e.n <= f.n
  BY DEF InOrder
<1>7. \A f \in inflight : f.n \in Nat /\ f.sub \in Subs
  BY DEF TypeOK
<1>8. stripe' = stripe /\ sent' = sent
  BY DEF Deliver, stripeVars
<1>9. \A f \in inflight' : f.n <= sent'
  BY <1>4, <1>8 DEF InStep, NewestMatches
<1>10. ASSUME NEW s \in Subs, NEW f \in Pending(s)', Newest(f)' PROVE Matches(f)'
  <2>1. f \in Pending(s) /\ f # e /\ f.sub = s /\ ~ f.seen
    BY <1>5 DEF Pending
  <2>2. Newest(f)
    BY <1>5, <1>6, <1>7, <1>10, <2>1 DEF Newest, Pending
  <2> QED
    BY <1>8, <2>1, <2>2 DEF InStep, NewestMatches, Matches
<1>11. ASSUME NEW f \in inflight', f.kind = "checkout", ~ f.seen
       PROVE  \E g \in Pending(f.sub)' : f.n < g.n
  <2>1. f \in inflight \ {e}
    BY <1>4, <1>11
  <2>2. PICK g \in Pending(f.sub) : f.n < g.n
    BY <1>11, <2>1 DEF InStep, NewestMatches
  <2>3. g # e
    BY <1>6, <1>7, <1>11, <2>1, <2>2
  <2> QED
    BY <1>5, <1>7, <2>1, <2>2, <2>3
<1> QED
  BY <1>5, <1>9, <1>10, <1>11 DEF NewestMatches

LEMMA WebhookInStep ==
    ASSUME TypeOK, InStep, NEW e \in inflight, Webhook(e), ~ disturbed'
    PROVE  NewestMatches' /\ RowSays'
<1>1. /\ Deliver(e) /\ InOrder(e) /\ activating = {} /\ ~ disturbed
      /\ \/ e.kind = "checkout" /\ customer' = e.sub /\ KeepPlan
         \/ /\ e.kind = "updated" /\ customer' = customer /\ activating' = activating
            /\ IF customer = e.sub THEN SetPlan(e.plan, e.end) ELSE KeepPlan
         \/ /\ e.kind = "deleted" /\ customer' = customer /\ activating' = activating
            /\ IF customer = e.sub THEN SetPlan("free", None) ELSE KeepPlan
  BY DEF Webhook, OnCheckout, OnUpdated, OnDeleted, ForCustomer
<1>2. /\ NewestMatches'
      /\ \A s \in Subs : Pending(s)' = Pending(s) \ {e}
  BY <1>1, DeliveredInOrder
<1>3. e.sub \in Subs /\ None \notin Subs /\ customer \in Subs \cup {None} /\ ~ e.seen
  BY <1>1, ConstantsAssumption DEF TypeOK, InOrder
<1>4. stripe' = stripe /\ now' = now
  BY <1>1 DEF Deliver, stripeVars
<1>5. CASE e.kind = "checkout"
  <2>1. PICK f \in Pending(e.sub) : e.n < f.n
    BY <1>1, <1>3, <1>5 DEF InStep, NewestMatches
  <2>2. f # e
    BY <1>5, <2>1 DEF Pending
  <2>3. customer' = e.sub /\ Pending(e.sub)' # {}
    BY <1>1, <1>2, <1>3, <1>5, <2>1, <2>2
  <2> QED
    BY <1>2, <1>3, <2>3 DEF RowSays
<1>6. CASE e.kind # "checkout" /\ customer = e.sub
  <2>1. e \in Pending(e.sub) /\ customer' = e.sub /\ activating' = {}
    BY <1>1, <1>3, <1>6 DEF Pending
  <2>2. ASSUME Pending(e.sub)' = {} PROVE Says(e.sub)'
    <3>1. Pending(e.sub) = {e}
      BY <1>2, <1>3, <2>1, <2>2
    <3>2. Matches(e)
      BY <1>1, <1>3, <2>1, <3>1 DEF InStep, NewestMatches, Newest, TypeOK
    <3> QED
      BY <1>1, <1>4, <1>6, <3>2 DEF Matches, Says, SetPlan
  <2> QED
    BY <1>2, <1>3, <2>1, <2>2 DEF RowSays
<1>7. CASE e.kind # "checkout" /\ customer # e.sub
  <2>1. customer' = customer /\ activating' = {} /\ KeepPlan
    BY <1>1, <1>7
  <2>2. ASSUME customer # None PROVE Pending(customer)' = Pending(customer)
    <3>1. e \notin Pending(customer)
      BY <1>7 DEF Pending
    <3>2. \A s \in Subs : Pending(s)' = {f \in inflight' : f.sub = s /\ ~ f.seen /\ f.kind # "checkout"}
      BY DEF Pending
    <3>3. {f \in inflight' : f.sub = customer /\ ~ f.seen /\ f.kind # "checkout"} = Pending(customer)
      BY <1>2, <1>3, <2>2, <3>1, <3>2
    <3> QED
      BY <2>1, <3>3 DEF Pending
  <2>3. customer # None /\ Pending(customer) = {} => Says(customer)'
    BY <1>1, <1>4, <2>1 DEF InStep, RowSays, Says, KeepPlan
  <2> QED
    BY <1>1, <1>2, <2>1, <2>2, <2>3 DEF InStep, RowSays, KeepPlan
<1> QED
  BY <1>2, <1>5, <1>6, <1>7

\* A step that touches neither Stripe nor its events.
LEMMA EventsSame ==
    ASSUME InStep, ~ disturbed, UNCHANGED <<stripe, sent, inflight>>
    PROVE  NewestMatches' /\ \A s \in Subs \cup {None} : Pending(s)' = Pending(s)
<1>1. \A s : Pending(s)' = Pending(s)
  BY DEF Pending
<1> QED
  BY <1>1 DEF InStep, NewestMatches, Newest, Matches

LEMMA ActivateInStep ==
    ASSUME TypeOK, InStep, NEW a \in activating, Activate(a), ~ disturbed'
    PROVE  NewestMatches' /\ RowSays'
<1>1. /\ ~ disturbed /\ UNCHANGED <<stripe, sent, inflight>> /\ customer' = customer
      /\ activating' = activating \ {a}
  BY DEF Activate, stripeVars
<1>2. customer # None /\ Pending(customer) # {} /\ customer \in Subs \cup {None}
  BY <1>1 DEF InStep, RowSays, TypeOK
<1>3. NewestMatches' /\ Pending(customer)' = Pending(customer)
  BY <1>1, <1>2, EventsSame
<1> QED
  BY <1>1, <1>2, <1>3 DEF RowSays

LEMMA LoginInStep ==
    ASSUME TypeOK, InStep, NEW r \in Logins, LoginFinish(r), ~ disturbed'
    PROVE  NewestMatches' /\ RowSays'
<1>1. /\ ~ disturbed /\ UNCHANGED <<stripe, sent, inflight, customer, activating, now>>
      /\ KeepPlan \/ (Expired(expires) /\ SetPlan("free", None))
  <2>1. CASE Expired(snap[r]) /\ SetPlan("free", None) /\ disturbed' = (disturbed \/ ~ Expired(expires))
    BY <2>1 DEF LoginFinish, stripeVars
  <2>2. CASE KeepPlan /\ UNCHANGED disturbed
    BY <2>2 DEF LoginFinish, stripeVars
  <2> QED
    BY <2>1, <2>2 DEF LoginFinish, LoginDowngrade
<1>2. NewestMatches' /\ Pending(customer)' = Pending(customer)
  BY <1>1, EventsSame DEF TypeOK
<1>3. customer \in Subs \cup {None} /\ expires \in Ends
  BY DEF TypeOK
<1>4. ASSUME customer # None, Says(customer) PROVE Says(customer)'
  <2>1. CASE KeepPlan
    BY <1>1, <1>4, <2>1 DEF Says, KeepPlan
  <2>2. CASE Expired(expires) /\ SetPlan("free", None)
    <3>1. /\ plan' = "free" /\ now' = now /\ stripe' = stripe /\ customer' = customer
          /\ expires < now
      BY <1>1, <2>2 DEF SetPlan, Expired
    <3> QED
      BY <1>4, <3>1 DEF Says
  <2> QED
    BY <1>1, <2>1, <2>2
<1>5. customer = None => plan' = "free"
  BY <1>1 DEF InStep, RowSays, KeepPlan, SetPlan
<1> QED
  BY <1>1, <1>2, <1>4, <1>5 DEF InStep, RowSays

LEMMA InStepStep == TypeOK /\ InStep /\ [Next]_vars => InStep'
<1> SUFFICES ASSUME TypeOK, InStep, [Next]_vars, ~ disturbed' PROVE NewestMatches' /\ RowSays'
  BY DEF InStep
<1>1. ASSUME NEW s \in Subs, NEW p \in PaidPlans, Subscribe(s, p) PROVE NewestMatches' /\ RowSays'
  <2>1. ~ disturbed
    BY <1>1 DEF Subscribe, Send
  <2> QED
    BY <1>1, <2>1, SubscribeInStep
<1>2. ASSUME NEW s \in Subs, NEW p \in PaidPlans, Update(s, p) PROVE NewestMatches' /\ RowSays'
  <2>1. ~ disturbed
    BY <1>2 DEF Update, Send
  <2> QED
    BY <1>2, <2>1, UpdateInStep
<1>3. ASSUME NEW s \in Subs, Cancel(s) PROVE NewestMatches' /\ RowSays'
  <2>1. ~ disturbed
    BY <1>3 DEF Cancel, Send
  <2> QED
    BY <1>3, <2>1, CancelInStep
<1>4. ASSUME NEW e \in inflight, Webhook(e) PROVE NewestMatches' /\ RowSays'
  BY <1>4, WebhookInStep
<1>5. ASSUME NEW a \in activating, Activate(a) PROVE NewestMatches' /\ RowSays'
  BY <1>5, ActivateInStep
<1>6. ASSUME NEW r \in Logins, LoginFinish(r) PROVE NewestMatches' /\ RowSays'
  BY <1>6, LoginInStep
<1>7. ASSUME ~ disturbed, UNCHANGED <<stripe, sent, inflight, plan, expires, customer, activating>>,
             now' = now \/ now' = now + 1
      PROVE  NewestMatches' /\ RowSays'
  <2>1. NewestMatches' /\ Pending(customer)' = Pending(customer) /\ customer \in Subs \cup {None}
    BY <1>7, EventsSame DEF TypeOK
  <2>2. customer # None /\ Says(customer) => Says(customer)'
    BY <1>7 DEF Says, TypeOK
  <2> QED
    BY <1>7, <2>1, <2>2 DEF InStep, RowSays
<1>8. CASE Tick \/ UNCHANGED vars \/ \E r \in Logins : LoginRead(r)
  BY <1>7, <1>8 DEF Tick, LoginRead, vars, stripeVars
<1>9. ASSUME NEW p \in Plans, AdminSetPlan(p) PROVE FALSE
  BY <1>9 DEF AdminSetPlan
<1> QED
  BY <1>1, <1>2, <1>3, <1>4, <1>5, <1>6, <1>8, <1>9 DEF Next, Stripe

\* Once every event was applied in order, the row says what Stripe says of the
\* customer it knows, or a login has ended a period that is over (webhook.go,
\* planFromSubscription; Login).
THEOREM EventsSettle == Spec => []Settled
<1>1. Init => InStep
  BY DEF Init, InStep, NewestMatches, RowSays, Pending
<1>2. InStep => Settled
  <2> SUFFICES ASSUME InStep, ~ disturbed, inflight = {}, activating = {}
               PROVE  IF customer = None THEN plan = "free" ELSE Says(customer)
    BY DEF Settled, Says
  <2>1. Pending(customer) = {}
    BY DEF Pending
  <2> QED
    BY <2>1 DEF InStep, RowSays
<1> QED
  BY <1>1, <1>2, TypeCorrect, InStepStep, PTL DEF Spec
-----------------------------------------------------------------------------
(***************************************************************************)
(* How much a user can get: no more than was sold, and the fallback.       *)
(***************************************************************************)
\* An expiry is the end of a period Stripe sold by then, or a fallback month at most away.
NoFreeRide ==
    expires # None => \/ expires <= now + Month
                      \/ \E s \in Subs : expires <= stripe[s].end

\* No event on its way promises more than its subscription has by now.
Sold ==
    /\ \A s \in Subs : stripe[s].state = "none" => stripe[s].end = 0
    /\ \A e \in inflight : e.end <= stripe[e.sub].end

\* No period is ever shortened, and what is sent tells the end of the period.
LEMMA PeriodsGrow ==
    ASSUME TypeOK, TypeOK', Sold, NEW s \in Subs,
           Cancel(s) \/ \E p \in PaidPlans : Subscribe(s, p) \/ Update(s, p)
    PROVE  /\ Sold'
           /\ \A t \in Subs : stripe[t].end <= stripe'[t].end
           /\ UNCHANGED <<now, expires>>
<1> USE ConstantsAssumption
<1>1. PICK kinds, p, end, st : Send(kinds, s, p, end) /\ end >= stripe[s].end /\ end \in Nat
                               /\ st # "none"
                               /\ stripe'[s].end = end /\ stripe'[s].state = st
                               /\ \A t \in Subs \ {s} : stripe'[t] = stripe[t]
  <2>1. ASSUME Cancel(s)
        PROVE  \E kinds, p, end, st : Send(kinds, s, p, end) /\ end >= stripe[s].end /\ end \in Nat
                               /\ st # "none"
                               /\ stripe'[s].end = end /\ stripe'[s].state = st
                               /\ \A t \in Subs \ {s} : stripe'[t] = stripe[t]
    <3>1. PICK state \in {"past_due", "canceled"} : stripe' = [stripe EXCEPT ![s].state = state]
      BY <2>1 DEF Cancel
    <3>2. /\ stripe'[s].end = stripe[s].end /\ stripe'[s].state = state
          /\ \A t \in Subs \ {s} : stripe'[t] = stripe[t]
          /\ stripe[s].end \in Nat
      BY <3>1 DEF TypeOK
    <3>3. Send(<<"deleted">>, s, stripe[s].plan, stripe[s].end)
      BY <2>1 DEF Cancel
    <3> QED
      BY <3>2, <3>3
  <2>2. ASSUME NEW p \in PaidPlans, Subscribe(s, p)
        PROVE  \E kinds, q, end, st : Send(kinds, s, q, end) /\ end >= stripe[s].end /\ end \in Nat
                               /\ st # "none"
                               /\ stripe'[s].end = end /\ stripe'[s].state = st
                               /\ \A t \in Subs \ {s} : stripe'[t] = stripe[t]
    <3>1. PICK end \in {now + 1, now + Month} :
             /\ stripe' = [stripe EXCEPT ![s] = [state |-> "active", plan |-> p, end |-> end]]
             /\ Send(<<"checkout", "updated">>, s, p, end)
      BY <2>2 DEF Subscribe
    <3>2. stripe[s].end = 0 /\ end \in Nat
      BY <2>2 DEF Subscribe, Sold, TypeOK
    <3>3. /\ stripe'[s].end = end /\ stripe'[s].state = "active"
          /\ \A t \in Subs \ {s} : stripe'[t] = stripe[t]
      BY <3>1 DEF TypeOK
    <3> QED
      BY <3>1, <3>2, <3>3
  <2>3. ASSUME NEW p \in PaidPlans, Update(s, p)
        PROVE  \E kinds, q, end, st : Send(kinds, s, q, end) /\ end >= stripe[s].end /\ end \in Nat
                               /\ st # "none"
                               /\ stripe'[s].end = end /\ stripe'[s].state = st
                               /\ \A t \in Subs \ {s} : stripe'[t] = stripe[t]
    <3>1. PICK end \in {stripe[s].end, stripe[s].end + Month} :
             /\ stripe' = [stripe EXCEPT ![s] = [state |-> "active", plan |-> p, end |-> end]]
             /\ Send(<<"updated">>, s, p, end)
      BY <2>3 DEF Update
    <3>2. stripe[s].end \in Nat /\ end \in Nat /\ end >= stripe[s].end
      BY DEF TypeOK
    <3>3. /\ stripe'[s].end = end /\ stripe'[s].state = "active"
          /\ \A t \in Subs \ {s} : stripe'[t] = stripe[t]
      BY <3>1 DEF TypeOK
    <3> QED
      BY <3>1, <3>2, <3>3
  <2> QED
    BY <2>1, <2>2, <2>3
<1>2. \A t \in Subs : stripe[t].end \in Nat /\ stripe[t].end <= stripe'[t].end
  <2>1. \A t \in Subs : stripe[t].end \in Nat
    BY DEF TypeOK
  <2> QED
    BY <1>1, <2>1
<1>3. \A t \in Subs : stripe'[t].state = "none" => stripe'[t].end = 0
  BY <1>1 DEF Sold
<1>4. ASSUME NEW e \in inflight' PROVE e.end <= stripe'[e.sub].end
  <2>1. CASE e \in inflight
    <3>1. e.sub \in Subs /\ e.end \in Nat /\ e.end <= stripe[e.sub].end
      BY <2>1 DEF TypeOK, Sold
    <3>2. stripe'[e.sub].end \in Nat
      BY <3>1 DEF TypeOK
    <3> QED
      BY <1>2, <3>1, <3>2
  <2>2. CASE e \notin inflight
    <3>1. e.sub = s /\ e.end = end
      BY <1>1, <2>2 DEF Send
    <3> QED
      BY <1>1, <3>1
  <2> QED
    BY <2>1, <2>2
<1>5. UNCHANGED <<now, expires>>
  BY <1>1 DEF Send
<1> QED
  BY <1>2, <1>3, <1>4, <1>5 DEF Sold

LEMMA SoldStep == TypeOK /\ TypeOK' /\ Sold /\ NoFreeRide /\ [Next]_vars => Sold' /\ NoFreeRide'
<1> SUFFICES ASSUME TypeOK, TypeOK', Sold, NoFreeRide, [Next]_vars PROVE Sold' /\ NoFreeRide'
  OBVIOUS
<1> USE ConstantsAssumption
<1>1. /\ now \in Nat /\ now' \in Nat /\ Month \in Nat
      /\ expires \in Nat \cup {None} /\ expires' \in Nat \cup {None}
      /\ \A s \in Subs : stripe[s].end \in Nat /\ stripe'[s].end \in Nat
  BY DEF TypeOK
<1>2. ASSUME NEW s \in Subs, Cancel(s) \/ \E p \in PaidPlans : Subscribe(s, p) \/ Update(s, p)
      PROVE  Sold' /\ NoFreeRide'
  BY <1>1, <1>2, PeriodsGrow DEF NoFreeRide
<1>3. ASSUME UNCHANGED <<now, stripe>>, expires' \in {expires, None, now + Month} PROVE NoFreeRide'
  BY <1>1, <1>3 DEF NoFreeRide
<1>4. ASSUME NEW e \in inflight, Webhook(e) PROVE Sold' /\ NoFreeRide'
  <2>1. \A f \in inflight' : f \in inflight \/ (f.end = e.end /\ f.sub = e.sub)
    BY <1>4 DEF Webhook, Deliver, TypeOK
  <2>2. UNCHANGED <<now, stripe>>
    BY <1>4 DEF Webhook, Deliver, stripeVars
  <2>3. Sold'
    BY <2>1, <2>2 DEF Sold
  <2>4. expires' \in {expires, None, e.end}
    BY <1>4 DEF Webhook, OnCheckout, OnUpdated, OnDeleted, ForCustomer, SetPlan, KeepPlan
  <2>5. e.sub \in Subs /\ e.end <= stripe[e.sub].end
    BY DEF Sold, TypeOK
  <2>6. expires' = e.end => NoFreeRide'
    BY <2>2, <2>5 DEF NoFreeRide
  <2> QED
    BY <1>3, <2>2, <2>3, <2>4, <2>6
<1>5. CASE Tick
  <2>1. Sold'
    BY <1>5 DEF Tick, Sold
  <2>2. NoFreeRide'
    BY <1>1, <1>5 DEF Tick, NoFreeRide
  <2> QED
    BY <2>1, <2>2
<1>6. ASSUME UNCHANGED <<now, stripe, inflight>>, expires' \in {expires, None, now + Month}
      PROVE  Sold' /\ NoFreeRide'
  BY <1>3, <1>6 DEF Sold
<1>7. ASSUME NEW a \in activating, Activate(a) PROVE Sold' /\ NoFreeRide'
  BY <1>6, <1>7 DEF Activate, SetPlan, KeepPlan, stripeVars
<1>8. ASSUME NEW r \in Logins, LoginRead(r) \/ LoginFinish(r) PROVE Sold' /\ NoFreeRide'
  BY <1>6, <1>8 DEF LoginRead, LoginFinish, LoginDowngrade, SetPlan, KeepPlan, stripeVars
<1>9. ASSUME NEW p \in Plans, AdminSetPlan(p) PROVE Sold' /\ NoFreeRide'
  BY <1>6, <1>9 DEF AdminSetPlan, stripeVars
<1>10. CASE UNCHANGED vars
  BY <1>6, <1>10 DEF vars, stripeVars
<1> QED
  BY <1>2, <1>4, <1>5, <1>7, <1>8, <1>9, <1>10 DEF Next, Stripe

\* Late, repeated, reordered and lost events never give a user more than a period that was
\* sold, or a month from the checkout event (onCheckoutCompleted, onSubscriptionUpdated).
THEOREM NobodyRidesFree == Spec => []NoFreeRide
<1>1. Init => Sold /\ NoFreeRide
  BY DEF Init, Sold, NoFreeRide
<1> QED
  BY <1>1, SoldStep, TypeCorrect, PTL DEF Spec
=============================================================================
