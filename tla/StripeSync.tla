----------------------------- MODULE StripeSync -----------------------------
(***************************************************************************)
(* The local subscription record and invoices of one organization and      *)
(* Stripe's own (app/billing/webhook_handler.py, app/billing/service.py):  *)
(* Stripe emits an event with a snapshot of the subscription, or of its    *)
(* invoice, for each change, the webhook handler writes the snapshot into  *)
(* the organization's row, and the API changes Stripe first and the row    *)
(* afterwards.                                                             *)
(*                                                                         *)
(* A handler reads the row in one step and commits in another, because the *)
(* application is served by several processes.  The webhook acknowledges   *)
(* every event, also one whose handler raised, so Stripe never retries it. *)
(***************************************************************************)
EXTENDS Naturals, Sequences, SequencesExt

CONSTANTS
    Subs,             \* ids of Stripe subscriptions
    Plans,            \* the plans of the database
    Priced,           \* those with a Stripe price (seeded plans have none)
    Workers,          \* webhook requests handled at the same time
    Modes,            \* how Stripe delivers, a subset of AllModes
    NoRow,            \* the organization has no subscription row
    MaxEvents,        \* bound on the events Stripe emits
    MaxRacing,        \* bound on them when handlers run concurrently
    MaxRedeliveries,  \* bound on events delivered again
    MaxCalls,         \* bound on API calls
    MaxFaults         \* bound on errors

AllModes == {"ordered", "reordered", "concurrent"}
Statuses == {"incomplete", "active", "past_due", "canceled"}
Types    == {"created", "updated", "checkout", "deleted", "paid", "failed"}
Row      == [sub : Subs, plan : Plans, status : Statuses, ending : BOOLEAN]
Event    == [type : Types, sub : Subs, plan : Plans, status : Statuses, ending : BOOLEAN]

ASSUME ConstantsAssumption ==
    /\ Modes \subseteq AllModes
    /\ Priced \subseteq Plans
    /\ NoRow \notin Row \union Subs
    /\ {MaxEvents, MaxRacing, MaxRedeliveries, MaxCalls, MaxFaults} \subseteq Nat

VARIABLES
    mode,       \* how Stripe delivers, fixed
    stripe,     \* Stripe's subscriptions: their fields, or NoRow
    latest,     \* the subscription checked out last (NoRow: none yet)
    bills,      \* Stripe's invoice of each subscription's renewal
    log,        \* the events emitted so far, in order
    acked,      \* the events answered with 200
    row,        \* the organization's committed Subscription row
    invoices,   \* its committed Invoice rows, by the subscription they are for
    handling,   \* handling[w]: the event worker w is at (0: none)
    seen,       \* seen[w]: the row as worker w read it
    billing,    \* billing[w]: the invoice as worker w read it ("done": it is written)
    api,        \* the API call under way
    redeliveries, calls, faults,    \* towards the bounds
    swallowed,  \* history: events acknowledged without their effect
    unpriced,   \* history: plans without a price that a call changed to
    overtaken   \* history: an API call committed between the read and the commit
                \* of a "handler", or an API "call" to the row of another subscription

bounds  == <<redeliveries, calls, faults>>
remote  == <<stripe, latest, bills, log>>
history == <<unpriced, overtaken>>
local   == <<row, invoices>>
workers == <<acked, handling, seen, billing, swallowed>>
vars    == <<mode, remote, workers, local, api, bounds, history>>

Bills == {"none", "open", "paid"}

Idle == [at |-> "idle"]

Init ==
    /\ mode \in Modes
    /\ stripe = [s \in Subs |-> NoRow]
    /\ latest = NoRow
    /\ bills = [s \in Subs |-> "none"] /\ invoices = bills
    /\ log = <<>>
    /\ acked = {}
    /\ row = NoRow
    /\ handling = [w \in Workers |-> 0]
    /\ seen = [w \in Workers |-> NoRow]
    /\ billing = [w \in Workers |-> "done"]
    /\ api = Idle
    /\ redeliveries = 0 /\ calls = 0 /\ faults = 0
    /\ swallowed = {}
    /\ unpriced = {} /\ overtaken = {}

Fault == faults < MaxFaults /\ faults' = faults + 1

-----------------------------------------------------------------------------
(* Stripe.  Each change of a subscription emits events with a snapshot.    *)
Snapshot(type, s, state) ==
    [type |-> type, sub |-> s, plan |-> state.plan, status |-> state.status, ending |-> state.ending]

Emit(events) ==
    /\ Len(log) + Len(events) <= IF mode = "concurrent" THEN MaxRacing ELSE MaxEvents
    /\ log' = log \o events

(* The subscription s gets a new state, and these events tell so. *)
Change(s, state, types) ==
    /\ stripe' = [stripe EXCEPT ![s] = state]
    /\ Emit([i \in DOMAIN types |-> Snapshot(types[i], s, state)])

Has(s, status) == stripe[s] # NoRow /\ stripe[s].status = status

(* A checkout is completed: the subscription is created, and paid for.     *)
(* The session names no customer, so Stripe makes one for it: a customer   *)
(* has one subscription.                                                   *)
Checkout(s, plan) ==
    /\ stripe[s] = NoRow
    /\ LET new    == [sub |-> s, plan |-> plan, status |-> "incomplete", ending |-> FALSE]
           active == [new EXCEPT !.status = "active"]
       IN  /\ stripe' = [stripe EXCEPT ![s] = active]
           /\ Emit(<<Snapshot("created", s, new), Snapshot("updated", s, active),
                     Snapshot("checkout", s, active)>>)
    /\ latest' = s
    /\ UNCHANGED <<mode, bills, workers, local, api, bounds, history>>

(* A renewal's invoice is open until it is paid.                            *)
RenewalFails(s) ==
    /\ Has(s, "active") /\ bills[s] = "none"    \* bound: one invoice of a subscription
    /\ bills' = [bills EXCEPT ![s] = "open"]
    /\ Change(s, [stripe[s] EXCEPT !.status = "past_due"], <<"updated", "failed">>)
    /\ UNCHANGED <<mode, latest, workers, local, api, bounds, history>>

RenewalPaid(s) ==
    /\ Has(s, "past_due")
    /\ bills' = [bills EXCEPT ![s] = "paid"]
    /\ Change(s, [stripe[s] EXCEPT !.status = "active"], <<"updated", "paid">>)
    /\ UNCHANGED <<mode, latest, workers, local, api, bounds, history>>

(* Dunning, the end of the period, or the Stripe dashboard. *)
StripeCancels(s) ==
    /\ Has(s, "active") \/ Has(s, "past_due")
    /\ Change(s, [stripe[s] EXCEPT !.status = "canceled"], <<"deleted">>)
    /\ UNCHANGED <<mode, bills, latest, workers, local, api, bounds, history>>

-----------------------------------------------------------------------------
(* The webhook.  What a handler makes of the row it read: provisioning     *)
(* events look the row up by organization, the others by subscription.     *)
Mine_ByOrganization(e, r) == r # NoRow    \* mutant: the wrong lookup

Mine(e, r) == r # NoRow /\ r.sub = e.sub

(* The row's customer is the invoice's: a handler writes the customer and  *)
(* the subscription together, and no customer has two.                     *)
Customer(e, r) == r # NoRow /\ r.sub = e.sub

Provisions(e) == e.type \in {"created", "checkout"}

Deleted_Ignored(r) == r    \* mutant: no handler for the event

Deleted(r) == [r EXCEPT !.status = "canceled"]

Updated_KeepsPlan(e, r) ==    \* mutant: the price is not looked up
    [r EXCEPT !.status = e.status, !.ending = e.ending]

Updated(e, r) == [r EXCEPT !.status = e.status, !.plan = e.plan, !.ending = e.ending]

Handled(e, r) ==
    IF Provisions(e)
    THEN [sub    |-> e.sub,
          plan   |-> e.plan,
          status |-> IF e.type = "checkout" THEN "active" ELSE e.status,
          ending |-> IF r = NoRow THEN FALSE ELSE r.ending]
    ELSE IF ~Mine(e, r) THEN r
    ELSE CASE e.type = "updated" -> Updated(e, r)
           [] e.type = "deleted" -> Deleted(r)
           [] e.type = "failed"  -> [r EXCEPT !.status = "past_due"]
           [] e.type = "paid"    -> [r EXCEPT !.status = IF @ = "past_due" THEN "active" ELSE @]

(* The ORM updates the columns whose value the session changed, no others. *)
Flush(read, new, committed) ==
    [f \in DOMAIN committed |-> IF new[f] # read[f] THEN new[f] ELSE committed[f]]

(* One at a time, in the order of emission or not; or several at a time.   *)
MayDeliver(i) ==
    /\ mode # "concurrent" => \A w \in Workers : handling[w] = 0
    /\ mode = "ordered" => \A j \in 1..(i - 1) : j \in acked

OfInvoice(e) == e.type \in {"paid", "failed"}

Deliver(w, i) ==
    /\ handling[w] = 0
    /\ i \notin acked /\ \A v \in Workers : handling[v] # i
    /\ MayDeliver(i)
    /\ handling' = [handling EXCEPT ![w] = i]
    /\ seen' = [seen EXCEPT ![w] = row]
    /\ billing' = [billing EXCEPT ![w] = IF OfInvoice(log[i]) THEN invoices[log[i].sub] ELSE "done"]
    /\ UNCHANGED <<mode, remote, acked, swallowed, local, api, bounds, history>>

(* Stripe did not get the 200 and sends the event once more. *)
Redeliver(i) ==
    /\ mode # "ordered"
    /\ redeliveries < MaxRedeliveries /\ redeliveries' = redeliveries + 1
    /\ i \in acked
    /\ acked' = acked \ {i}
    /\ UNCHANGED <<mode, remote, handling, seen, billing, swallowed, local, api, calls, faults, history>>

Acknowledge(w) ==
    /\ acked' = acked \union {handling[w]}
    /\ handling' = [handling EXCEPT ![w] = 0]
    /\ seen' = [seen EXCEPT ![w] = NoRow]
    /\ billing' = [billing EXCEPT ![w] = "done"]

(* Inserting a row where another worker inserted one meanwhile violates    *)
(* the unique organization_id, or stripe_invoice_id; the exception is      *)
(* swallowed.                                                              *)
Conflicts(w) ==
    \/ seen[w] = NoRow /\ Provisions(log[handling[w]]) /\ row # NoRow
    \/ Customer(log[handling[w]], seen[w]) /\ billing[w] = "none" /\ invoices[log[handling[w]].sub] # "none"

(* An invoice is written first, and committed, if a row has its customer,  *)
(* also when it is only updated; then the row of the subscription is read. *)
Billed(e) == IF e.type = "paid" THEN "paid" ELSE "open"

UpsertInvoice_EveryEventOpens(w) ==    \* mutant: the status of the event is not taken over
    /\ handling[w] # 0 /\ billing[w] # "done" /\ ~Conflicts(w)
    /\ LET e == log[handling[w]]
       IN  invoices' = IF ~Customer(e, seen[w]) \/ billing[w] # "none" THEN invoices
                       ELSE [invoices EXCEPT ![e.sub] = "open"]
    /\ billing' = [billing EXCEPT ![w] = "done"]
    /\ seen' = [seen EXCEPT ![w] = row]
    /\ UNCHANGED <<mode, remote, acked, handling, swallowed, row, api, bounds, history>>

UpsertInvoice(w) ==
    /\ handling[w] # 0 /\ billing[w] # "done" /\ ~Conflicts(w)
    /\ LET e == log[handling[w]]
       IN  invoices' = IF ~Customer(e, seen[w]) \/ billing[w] = Billed(e) THEN invoices
                       ELSE [invoices EXCEPT ![e.sub] = Billed(e)]
    /\ billing' = [billing EXCEPT ![w] = "done"]
    /\ seen' = [seen EXCEPT ![w] = row]
    /\ UNCHANGED <<mode, remote, acked, handling, swallowed, row, api, bounds, history>>

Handle(w) ==
    /\ handling[w] # 0 /\ billing[w] = "done"
    /\ ~Conflicts(w)
    /\ row' = LET new == Handled(log[handling[w]], seen[w])
              IN  IF seen[w] = NoRow \/ row = NoRow
                  THEN IF new = NoRow THEN row ELSE new
                  ELSE Flush(seen[w], new, row)
    /\ Acknowledge(w)
    /\ UNCHANGED <<mode, remote, swallowed, invoices, api, bounds, history>>

Swallow(w) ==
    /\ handling[w] # 0
    /\ \/ Conflicts(w) /\ UNCHANGED faults
       \/ Fault
    /\ swallowed' = swallowed \union {handling[w]}
    /\ Acknowledge(w)
    /\ UNCHANGED <<mode, remote, local, api, redeliveries, calls, history>>

-----------------------------------------------------------------------------
(* The API: change_plan and cancel_subscription read the row, change       *)
(* Stripe, and then commit the change to the row they read.                *)
Edits == [op : {"change_plan"}, plan : Plans] \union [op : {"cancel_now", "cancel_at_end"}]

Edit(edit, state) ==
    CASE edit.op = "change_plan"   -> [state EXCEPT !.plan = edit.plan]
      [] edit.op = "cancel_now"    -> [state EXCEPT !.status = "canceled"]
      [] edit.op = "cancel_at_end" -> [state EXCEPT !.ending = TRUE]

(* change_plan does not ask whether the plan has a price, as the checkout  *)
(* does: Stripe gets no price, and leaves the subscription's as it is.     *)
Unpriced(edit) == edit.op = "change_plan" /\ edit.plan \notin Priced

Charged(edit, state) == IF Unpriced(edit) THEN state ELSE Edit(edit, state)

ApiRead(edit) ==
    /\ api = Idle
    /\ calls < MaxCalls /\ calls' = calls + 1
    /\ row # NoRow
    /\ api' = [at |-> "stripe", edit |-> edit, read |-> row]
    /\ UNCHANGED <<mode, remote, workers, local, redeliveries, faults, history>>

ApiStripe_IgnoresRefusal ==    \* mutant: Stripe's refusal is not noticed
    /\ api.at = "stripe"
    /\ api' = [api EXCEPT !.at = "commit"]
    /\ UNCHANGED <<mode, remote, workers, local, bounds, history>>

(* Stripe refuses to modify a canceled subscription: the call raises.  A   *)
(* call that changes nothing but the metadata, or nothing at all, may have *)
(* its event or not.                                                       *)
ApiStripe ==
    /\ api.at = "stripe"
    /\ LET s   == api.read.sub
           new == Charged(api.edit, stripe[s])
       IN  IF stripe[s].status = "canceled"
           THEN api' = Idle /\ UNCHANGED <<remote, unpriced>>
           ELSE /\ \/ new.status = "canceled" /\ Change(s, new, <<"deleted">>)
                   \/ new.status # "canceled" /\ Change(s, new, <<"updated">>)
                   \/ new = stripe[s] /\ Change(s, new, <<>>)
                /\ unpriced' = unpriced \union
                                 IF Unpriced(api.edit) THEN {api.edit.plan} ELSE {}
                /\ api' = [api EXCEPT !.at = "commit"]
                /\ UNCHANGED <<latest, bills>>
    /\ UNCHANGED <<mode, workers, local, bounds, overtaken>>

ApiCommit ==
    /\ api.at = "commit"
    /\ row' = Flush(api.read, Edit(api.edit, api.read), row)
    /\ overtaken' = overtaken \union
           (IF row.sub # api.read.sub THEN {"call"} ELSE {}) \union
           (IF \E w \in Workers : handling[w] # 0 THEN {"handler"} ELSE {})
    /\ api' = Idle
    /\ UNCHANGED <<mode, remote, workers, invoices, bounds, unpriced>>

(* The call fails, before or after Stripe has carried it out. *)
ApiFails ==
    /\ api # Idle
    /\ Fault
    /\ api' = Idle
    /\ UNCHANGED <<mode, remote, workers, local, redeliveries, calls, history>>

-----------------------------------------------------------------------------
Stripe ==
    \E s \in Subs : \/ RenewalFails(s) \/ RenewalPaid(s) \/ StripeCancels(s)
                    \/ \E p \in Priced : Checkout(s, p)

Webhook ==
    \/ \E i \in DOMAIN log : Redeliver(i) \/ \E w \in Workers : Deliver(w, i)
    \/ \E w \in Workers : UpsertInvoice(w) \/ Handle(w) \/ Swallow(w)

Api == (\E edit \in Edits : ApiRead(edit)) \/ ApiStripe \/ ApiCommit \/ ApiFails

Next == Stripe \/ Webhook \/ Api

Spec == Init /\ [][Next]_vars

(* Stripe delivers every event, and a handler that has an event finishes   *)
(* it.  Nothing is assumed of changes, API calls, errors or redeliveries.  *)
FairSpec ==
    /\ Spec
    /\ \A i \in 1..MaxEvents : WF_vars(i \in DOMAIN log /\ \E w \in Workers : Deliver(w, i))
    /\ \A w \in Workers : WF_vars(UpsertInvoice(w) \/ Handle(w) \/ Swallow(w))
=============================================================================
