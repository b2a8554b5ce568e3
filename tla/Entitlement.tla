---------------------------- MODULE Entitlement ----------------------------
(***************************************************************************)
(* The plan of one user: subscription/webhook.go applies the events that   *)
(* Stripe sends, auth/service.go downgrades an expired plan at login, and  *)
(* admin/handler.go sets it by hand.  All of them write the same row of    *)
(* users with unconditional statements; rows of different users never      *)
(* meet, so one is enough.                                                 *)
(*                                                                         *)
(* Stripe promises neither order nor a single delivery, and every event is *)
(* answered with 200, so none is sent again because its handler failed.    *)
(***************************************************************************)
EXTENDS Integers, Sequences

CONSTANTS
    Subs,       \* subscriptions; each checkout makes a customer of its own
    Logins,     \* login requests that may overlap
    Month,      \* ticks of the fallback expiry
    Admin,      \* whether the admin changes the plan
    Faults,     \* what may go wrong, a subset of FaultKinds
    MaxTime,    \* bound: ticks of the clock
    MaxEvents,  \* bound: events Stripe sends
    None        \* SQL NULL

FaultKinds == {"reorder",     \* an event overtakes an earlier one
               "duplicate",   \* an event is delivered twice
               "db"}          \* a statement fails

PaidPlans == {"pro", "bootcamp"}
Plans     == PaidPlans \cup {"free"}

ASSUME ConstantsAssumption ==
    /\ None \notin Subs \cup Int \cup Plans
    /\ Month \in Nat \ {0} /\ MaxTime \in Nat /\ MaxEvents \in Nat
    /\ Admin \in BOOLEAN
    /\ Faults \subseteq FaultKinds

VARIABLES
    now,
    stripe,     \* state, plan and period end of each subscription
    sent,       \* events sent so far
    inflight,   \* events Stripe may deliver
    plan,       \* users.plan
    expires,    \* users.plan_expires_at
    customer,   \* users.stripe_customer_id
    activating, \* checkout events whose handler has yet to activate the plan
    pc, snap,   \* logins: next step, plan_expires_at as read
    granted,    \* history: the plan of the row is a choice of the admin
    disturbed   \* history: the row was written other than by one event after
                \* the other, in the order they were sent

stripeVars == <<now, stripe, sent>>
loginVars  == <<pc, snap>>
vars == <<stripeVars, inflight, plan, expires, customer, activating, loginVars,
          granted, disturbed>>

-----------------------------------------------------------------------------
(***************************************************************************)
(* Stripe and the clock.                                                   *)
(***************************************************************************)
Send(kinds, s, p, end) ==
    /\ sent + Len(kinds) <= MaxEvents
    /\ sent' = sent + Len(kinds)
    /\ inflight' = inflight \cup
          {[n |-> sent + i, kind |-> kinds[i], sub |-> s, plan |-> p, end |-> end, seen |-> FALSE]
              : i \in DOMAIN kinds}
    /\ UNCHANGED <<now, plan, expires, customer, activating, loginVars, granted, disturbed>>

\* A checkout is completed; the first period may be a shorter trial.
Subscribe(s, p) ==
    /\ stripe[s].state = "none" /\ now + Month < MaxTime
    /\ \E end \in {now + 1, now + Month} :
          /\ stripe' = [stripe EXCEPT ![s] = [state |-> "active", plan |-> p, end |-> end]]
          /\ Send(<<"checkout", "updated">>, s, p, end)

\* A renewal, a late payment, or a change of plan in the portal.
Update(s, p) ==
    /\ stripe[s].state \in {"active", "past_due"}
    /\ \E end \in {stripe[s].end, stripe[s].end + Month} :
          /\ end < MaxTime
          /\ stripe' = [stripe EXCEPT ![s] = [state |-> "active", plan |-> p, end |-> end]]
          /\ Send(<<"updated">>, s, p, end)

\* A payment fails, or the subscription is deleted.  The handler treats an
\* update to a status other than active and trialing as a deletion.
Cancel(s) ==
    /\ stripe[s].state = "active"
    /\ \E state \in {"past_due", "canceled"} : stripe' = [stripe EXCEPT ![s].state = state]
    /\ Send(<<"deleted">>, s, stripe[s].plan, stripe[s].end)

Tick ==
    /\ now < MaxTime
    /\ now' = now + 1
    /\ UNCHANGED <<stripe, sent, inflight, plan, expires, customer, activating, loginVars,
                   granted, disturbed>>

-----------------------------------------------------------------------------
(***************************************************************************)
(* Handler.StripeWebhook.                                                  *)
(***************************************************************************)
InOrder(e) == ~ e.seen /\ \A f \in inflight : f.seen \/ e.n <= f.n

\* Stripe delivers e, and may deliver it a second time.
Deliver(e) ==
    /\ InOrder(e) \/ e.seen \/ "reorder" \in Faults
    /\ \/ inflight' = inflight \ {e}
       \/ /\ "duplicate" \in Faults /\ ~ e.seen
          /\ inflight' = (inflight \ {e}) \cup {[e EXCEPT !.seen = TRUE]}
    /\ UNCHANGED <<stripeVars, loginVars>>

SetPlan(p, exp) == plan' = p /\ expires' = exp /\ granted' = FALSE

KeepPlan == UNCHANGED <<plan, expires, granted>>

\* onCheckoutCompleted stores the customer id; an error is only logged.
OnCheckout(e) ==
    /\ e.kind = "checkout"
    /\ \/ customer' = e.sub /\ disturbed' = (disturbed \/ ~ InOrder(e) \/ activating # {})
       \/ "db" \in Faults /\ UNCHANGED customer /\ disturbed' = TRUE
    /\ activating' = activating \cup {[sub |-> e.sub, plan |-> e.plan]}
    /\ KeepPlan

\* Faulty variant: the plan is activated without an expiry.
ActivateForEver(a) ==
    /\ a \in activating /\ now + Month < MaxTime
    /\ activating' = activating \ {a}
    /\ \/ SetPlan(a.plan, expires) /\ UNCHANGED disturbed
       \/ "db" \in Faults /\ KeepPlan /\ disturbed' = TRUE
    /\ UNCHANGED <<stripeVars, inflight, customer, loginVars>>

\* onCheckoutCompleted activates the plan, with the fallback expiry, which the
\* bounded clock must be able to pass.
Activate(a) ==
    /\ a \in activating /\ now + Month < MaxTime
    /\ activating' = activating \ {a}
    /\ \/ SetPlan(a.plan, now + Month) /\ UNCHANGED disturbed
       \/ "db" \in Faults /\ KeepPlan /\ disturbed' = TRUE
    /\ UNCHANGED <<stripeVars, inflight, customer, loginVars>>

\* WHERE stripe_customer_id = ...: an event of another customer meets no row.
ForCustomer(e, p, exp) ==
    /\ \/ /\ IF customer = e.sub THEN SetPlan(p, exp) ELSE KeepPlan
          /\ disturbed' = (disturbed \/ ~ InOrder(e) \/ activating # {})
       \/ "db" \in Faults /\ KeepPlan /\ disturbed' = TRUE
    /\ UNCHANGED <<customer, activating>>

\* Faulty variant: every paid subscription is taken for pro.
OnUpdatedPro(e) == e.kind = "updated" /\ ForCustomer(e, "pro", e.end)

OnUpdated(e) == e.kind = "updated" /\ ForCustomer(e, e.plan, e.end)

\* Faulty variant: the deletion clears the plan column.
OnDeletedClears(e) == e.kind = "deleted" /\ ForCustomer(e, None, None)

OnDeleted(e) == e.kind = "deleted" /\ ForCustomer(e, "free", None)

Webhook(e) == Deliver(e) /\ (OnCheckout(e) \/ OnUpdated(e) \/ OnDeleted(e))

-----------------------------------------------------------------------------
(***************************************************************************)
(* Service.Login and the admin.                                            *)
(***************************************************************************)
Expired(exp) == exp # None /\ exp < now

\* The row is read; the password is compared afterwards, which takes its time.
LoginRead(r) ==
    /\ pc[r] = "idle"
    /\ snap' = [snap EXCEPT ![r] = expires]
    /\ pc' = [pc EXCEPT ![r] = "read"]
    /\ UNCHANGED <<stripeVars, inflight, plan, expires, customer, activating, granted, disturbed>>

\* Faulty variant: an expired plan is kept.
LoginDowngradeNever(r) == KeepPlan /\ UNCHANGED disturbed

\* The downgrade goes by the row as it was read; its error is ignored.  Nothing
\* happens either when the password is wrong.
LoginDowngrade(r) ==
    \/ /\ Expired(snap[r])
       /\ SetPlan("free", None)
       /\ disturbed' = (disturbed \/ ~ Expired(expires))
    \/ /\ ~ Expired(snap[r]) \/ "db" \in Faults
       /\ KeepPlan /\ UNCHANGED disturbed

LoginFinish(r) ==
    /\ pc[r] = "read"
    /\ LoginDowngrade(r)
    /\ snap' = [snap EXCEPT ![r] = None]
    /\ pc' = [pc EXCEPT ![r] = "idle"]
    /\ UNCHANGED <<stripeVars, inflight, customer, activating>>

\* The admin's SetPlan leaves the expiry alone.
AdminSetPlan(p) ==
    /\ Admin
    /\ plan' = p /\ granted' = (p # "free") /\ disturbed' = TRUE
    /\ UNCHANGED <<stripeVars, inflight, expires, customer, activating, loginVars>>

-----------------------------------------------------------------------------
Init ==
    /\ now = 0 /\ sent = 0 /\ inflight = {}
    /\ stripe = [s \in Subs |-> [state |-> "none", plan |-> "free", end |-> 0]]
    /\ plan = "free" /\ expires = None /\ customer = None
    /\ activating = {}
    /\ pc = [r \in Logins |-> "idle"] /\ snap = [r \in Logins |-> None]
    /\ granted = FALSE /\ disturbed = FALSE

Stripe ==
    \/ \E s \in Subs : Cancel(s) \/ \E p \in PaidPlans : Subscribe(s, p) \/ Update(s, p)
    \/ \E e \in inflight : Webhook(e)

Next ==
    \/ Stripe \/ Tick
    \/ \E a \in activating : Activate(a)
    \/ \E r \in Logins : LoginRead(r) \/ LoginFinish(r)
    \/ \E p \in Plans : AdminSetPlan(p)

Spec == Init /\ [][Next]_vars

\* The clock ticks, a handler that started goes on, and the user logs in again
\* and again with a database that works in the end.  Stripe owes nothing.
FairSpec ==
    /\ Spec
    /\ WF_vars(Tick)
    /\ WF_vars(\E a \in activating : Activate(a))
    /\ \A r \in Logins :
          /\ WF_vars(LoginRead(r)) /\ WF_vars(LoginFinish(r))
          /\ SF_vars(LoginFinish(r) /\ plan' = "free")

-----------------------------------------------------------------------------
Ends == Nat \cup {None}

TypeOK ==
    /\ now \in Nat /\ sent \in Nat
    /\ stripe \in [Subs -> [state : {"none", "active", "past_due", "canceled"}, plan : Plans, end : Nat]]
    /\ inflight \subseteq [n : Nat, kind : {"checkout", "updated", "deleted"}, sub : Subs,
                           plan : Plans, end : Nat, seen : BOOLEAN]
    /\ plan \in Plans /\ expires \in Ends
    /\ customer \in Subs \cup {None}
    /\ activating \subseteq [sub : Subs, plan : Plans]
    /\ pc \in [Logins -> {"idle", "read"}]
    /\ snap \in [Logins -> Ends]
    /\ granted \in BOOLEAN /\ disturbed \in BOOLEAN

\* A plan somebody paid for has an end, whatever the webhooks, the logins and
\* the admin wrote before and in whichever order (onCheckoutCompleted,
\* onSubscriptionUpdated, onSubscriptionDeleted, Login, SetPlan).
PlanEnds == plan \in PaidPlans /\ ~ granted => expires # None

\* Once every event was applied, one after the other and in order, the row says
\* what Stripe says of the customer it knows, or the login has ended a period
\* that is over (planFromSubscription, onSubscriptionUpdated).
Settled ==
    ~ disturbed /\ inflight = {} /\ activating = {} =>
        IF customer = None THEN plan = "free"
        ELSE LET s == stripe[customer] IN
             \/ s.state = "active" /\ plan = s.plan /\ expires = s.end
             \/ s.state = "active" /\ s.end < now /\ plan = "free"
             \/ s.state # "active" /\ plan = "free"

\* When no subscription is left, the plan ends for good, although events come
\* late, twice, out of order or are lost: the expiry ends it at a later login.
PlanEndsWithPayment ==
    <>[](\A s \in Subs : stripe[s].state # "active") => <>[](plan = "free" \/ granted)
=============================================================================
