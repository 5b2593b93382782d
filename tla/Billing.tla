------------------------------- MODULE Billing -------------------------------
(***************************************************************************)
(* The plan of one workspace: checkouts create customers at Stripe, Stripe *)
(* tells by events what became of their subscriptions, and each event is   *)
(* recorded and applied in one transaction.  An event is delivered again   *)
(* until it is acknowledged, and in any order; two handlers may overlap,   *)
(* each of which writes the columns that differ from what it read.         *)
(***************************************************************************)
EXTENDS Integers, Sequences, FiniteSets

CONSTANTS
    Customers,   \* bound: customers that are created at Stripe
    Handlers,    \* bound: deliveries that are handled at the same time
    Checkouts,   \* bound: checkout requests that are served at the same time
    MaxEvents    \* bound: events of Stripe

VARIABLES
    orderly,     \* whether events are handled one after the other in the order of Stripe
    plan, limit, customer,   \* workspaces.plan, review_run_limit, stripe_customer_id
    deleted,     \* the workspace has no member any more
    checkout,    \* what each checkout request has read
    subscription, \* at Stripe, of each customer
    event,       \* what Stripe has to tell, in its order
    recorded,    \* stripe_webhook_events
    handler,     \* what each handler has read
    applied      \* history: how often an event was applied

vars == <<orderly, plan, limit, customer, deleted, checkout, subscription, event, recorded, handler, applied>>

Unlimited == 0
FreeLimit == 25

Idle == [at |-> "idle"]

Init ==
    /\ orderly \in BOOLEAN
    /\ plan = "free" /\ limit = FreeLimit /\ customer = "none"
    /\ deleted = FALSE
    /\ checkout = [p \in Checkouts |-> Idle]
    /\ subscription = [c \in Customers |-> "unknown"]
    /\ event = <<>>
    /\ recorded = {}
    /\ handler = [h \in Handlers |-> Idle]
    /\ applied = [n \in 1 .. MaxEvents |-> 0]

-----------------------------------------------------------------------------
(* Checkouts.  The customer is created at Stripe before anything commits.  *)

StartCheckout(p) ==
    /\ checkout[p] = Idle /\ ~deleted
    /\ \E c \in Customers :
          /\ IF customer = "none"
             THEN /\ subscription[c] = "unknown"
                  /\ subscription' = [subscription EXCEPT ![c] = "none"]
             ELSE c = customer /\ UNCHANGED subscription
          /\ checkout' = [checkout EXCEPT ![p] = [at |-> "commit", new |-> customer = "none", of |-> c]]
    /\ UNCHANGED <<orderly, plan, limit, customer, deleted, event, recorded, handler, applied>>

\* The last of two overlapping checkouts wins; the session of the other can be paid as well.
CommitCheckout(p) ==
    /\ checkout[p].at = "commit"
    /\ customer' = IF checkout[p].new THEN checkout[p].of ELSE customer
    /\ checkout' = [checkout EXCEPT ![p] = Idle]
    /\ UNCHANGED <<orderly, plan, limit, deleted, subscription, event, recorded, handler, applied>>

\* A workspace that pays is not deleted.
DeleteWorkspace ==
    /\ ~deleted /\ plan = "free"
    /\ deleted' = TRUE
    /\ UNCHANGED <<orderly, plan, limit, customer, checkout, subscription, event, recorded, handler, applied>>

-----------------------------------------------------------------------------
(* Stripe.                                                                 *)

Tells(kind, c, status) ==
    /\ Len(event) < MaxEvents
    /\ event' = Append(event, [kind |-> kind, of |-> c, status |-> status])
    /\ UNCHANGED <<orderly, plan, limit, customer, deleted, checkout, recorded, handler, applied>>

Pay(c) ==
    /\ subscription[c] \in {"none", "ended"}
    /\ subscription' = [subscription EXCEPT ![c] = "active"]
    /\ Tells("checkout", c, "active")

\* A renewal that fails, and one that succeeds after all.
Renew(c) ==
    /\ subscription[c] \in {"active", "unpaid"}
    /\ \E status \in {"active", "unpaid"} :
          /\ subscription' = [subscription EXCEPT ![c] = status]
          /\ Tells("updated", c, status)

Cancel(c) ==
    /\ subscription[c] \in {"active", "unpaid"}
    /\ subscription' = [subscription EXCEPT ![c] = "ended"]
    /\ Tells("deleted", c, "ended")

\* A paid or failed invoice is audited, and nothing else.
Invoice(c) ==
    /\ subscription[c] \in {"active", "unpaid"}
    /\ UNCHANGED subscription
    /\ Tells("invoice", c, subscription[c])

-----------------------------------------------------------------------------
(* Events.                                                                 *)

Busy == {h \in Handlers : handler[h] # Idle}

\* The primary key: an insert waits for another one of the same event, and fails if that commits.
Inserts(n) == n \notin recorded /\ \A h \in Busy : handler[h].event # n

InOrder(n) == orderly => recorded = 1 .. n - 1 /\ Busy = {}

\* The workspace of an event: the one that has the customer, or the one its metadata names.
Record(h) ==
    /\ handler[h] = Idle
    /\ \E n \in DOMAIN event :
          /\ Inserts(n) /\ InOrder(n)
          /\ handler' = [handler EXCEPT ![h] =
                [at |-> "apply", event |-> n, plan |-> plan, limit |-> limit, mine |-> event[n].of = customer]]
    /\ UNCHANGED <<orderly, plan, limit, customer, deleted, checkout, subscription, event, recorded, applied>>

PlanOf(e) == IF e.status = "active" THEN "pro" ELSE "free"

LimitOf(e, old) == IF PlanOf(e) = "pro" THEN Unlimited ELSE FreeLimit

\* Fault: a cancellation only takes effect for a subscription that was not paid.
ChangesUnpaid(e) == e.kind \in {"checkout", "updated"}

Changes(e) == e.kind \in {"checkout", "updated", "deleted"}

\* A change that the audit must sign, and that has no admin to sign it.
Unsigned(h) ==
    /\ deleted
    /\ LET e == event[handler[h].event]
       IN  \/ e.kind = "invoice" /\ handler[h].mine
           \/ e.kind \in {"updated", "deleted"} /\ PlanOf(e) # handler[h].plan

\* The columns that differ from what was read are written.
Column(read, new, now) == IF new = read THEN now ELSE new

Apply(h) ==
    /\ handler[h].at = "apply"
    /\ ~Unsigned(h)
    /\ LET x == handler[h]
           e == event[x.event]
       IN  /\ IF Changes(e)
              THEN /\ plan' = Column(x.plan, PlanOf(e), plan)
                   /\ limit' = Column(x.limit, LimitOf(e, x.limit), limit)
              ELSE UNCHANGED <<plan, limit>>
           /\ customer' = IF e.kind = "checkout" THEN e.of ELSE customer
           /\ recorded' = recorded \cup {x.event}
           /\ applied' = [applied EXCEPT ![x.event] = @ + 1]
    /\ handler' = [handler EXCEPT ![h] = Idle]
    /\ UNCHANGED <<orderly, deleted, checkout, subscription, event>>

\* An error or a crash: the record is rolled back too, and Stripe delivers the event again.
Fail(h) ==
    /\ handler[h] # Idle
    /\ handler' = [handler EXCEPT ![h] = Idle]
    /\ UNCHANGED <<orderly, plan, limit, customer, deleted, checkout, subscription, event, recorded, applied>>

Next ==
    \/ \E p \in Checkouts : StartCheckout(p) \/ CommitCheckout(p)
    \/ DeleteWorkspace
    \/ \E c \in Customers : Pay(c) \/ Renew(c) \/ Cancel(c) \/ Invoice(c)
    \/ \E h \in Handlers : Record(h) \/ Apply(h) \/ Fail(h)

-----------------------------------------------------------------------------
(* Properties.                                                             *)

\* What the rows, Stripe and the requests may hold.
TypeOK ==
    /\ orderly \in BOOLEAN /\ deleted \in BOOLEAN
    /\ plan \in {"free", "pro"} /\ limit \in {FreeLimit, Unlimited}
    /\ customer \in Customers \cup {"none"}
    /\ checkout \in [Checkouts -> {Idle} \cup [at : {"commit"}, new : BOOLEAN, of : Customers]]
    /\ subscription \in [Customers -> {"unknown", "none", "active", "unpaid", "ended"}]
    /\ Len(event) <= MaxEvents
    /\ recorded \subseteq DOMAIN event
    /\ \A h \in Busy : handler[h].event \in DOMAIN event

\* The plan a workspace shows and the limit its reviews are counted against are written by
\* different statements: in whatever order the events of Stripe are applied, and however
\* their handlers overlap, pro means unlimited and free means 25.
PlanAndLimitAgree == plan = "pro" <=> limit = Unlimited

\* try_record_webhook_event: an event that is delivered several times, to handlers that
\* overlap, changes the workspace at most once.
AppliedOnce == \A n \in 1 .. MaxEvents : applied[n] <= 1

Paying == {c \in Customers : subscription[c] \notin {"unknown", "none"}}

\* Once the events were applied in Stripe's order, the workspace has the plan it pays for:
\* across checkouts, failed and successful renewals, cancellations and new checkouts.  Two
\* customers of one workspace, and a deleted workspace, whose events cannot be signed, are
\* left out.
PlanFollows ==
    orderly /\ recorded = DOMAIN event /\ ~deleted /\ Cardinality(Paying) <= 1 =>
        (plan = "pro" <=> \E c \in Customers : subscription[c] = "active")

=============================================================================
