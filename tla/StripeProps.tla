----------------------------- MODULE StripeProps -----------------------------
(***************************************************************************)
(* What billing synchronization promises, stated over StripeSync.          *)
(***************************************************************************)
EXTENDS StripeSync, FiniteSets

(* Rows, events and what a handler or a call has read are what the tables  *)
(* and Stripe's API may hold, and who handles an event has one.            *)
TypeOK ==
    /\ mode \in AllModes
    /\ stripe \in [Subs -> Row \union {NoRow}] /\ latest \in Subs \union {NoRow}
    /\ bills \in [Subs -> Bills] /\ invoices \in [Subs -> Bills]
    /\ log \in Seq(Event)
    /\ acked \subseteq Nat /\ swallowed \subseteq Nat
    /\ row \in Row \union {NoRow}
    /\ handling \in [Workers -> Nat]
    /\ \A w \in Workers : handling[w] # 0 => handling[w] \in DOMAIN log
    /\ seen \in [Workers -> Row \union {NoRow}]
    /\ billing \in [Workers -> Bills \union {"done"}]
    /\ api \in {Idle} \union [at : {"stripe", "commit"}, edit : Edits, read : Row]
    /\ redeliveries \in Nat /\ calls \in Nat /\ faults \in Nat
    /\ unpriced \subseteq Plans \ Priced
    /\ overtaken \subseteq {"handler", "call"}

(* Every plan Stripe has had for the organization. *)
Bought == {log[i].plan : i \in DOMAIN log}

Offered == Bought \union unpriced

(* However the events arrive, what is shown was true once: the row never   *)
(* has a subscription that Stripe never had, nor a plan that neither       *)
(* Stripe had for the organization nor a change_plan that Stripe accepted  *)
(* asked for (Stripe does not learn of a plan without a price, which the   *)
(* row takes for nothing), so that no default and no mixture of two reads  *)
(* becomes the plan its limits are taken from; and no invoice is shown as  *)
(* paid, or at all, that Stripe does not have as such                      *)
(* (webhook_handler.py:63, 128-134, 156-161, 197-236, 274,                 *)
(* service.py:113-132).                                                    *)
NothingMadeUp ==
    /\ row # NoRow => row.plan \in Offered /\ stripe[row.sub] # NoRow
    /\ \A s \in Subs : /\ invoices[s] # "none" => bills[s] # "none"
                       /\ invoices[s] = "paid" => bills[s] = "paid"

(* As long as the handlers and the API calls commit one after the other,   *)
(* in any order of the events and repeatedly, a row shows "canceled",      *)
(* which ends the service, only if Stripe has canceled that very           *)
(* subscription and not an earlier one                                     *)
(* (webhook_handler.py:140-149, service.py:161-165).                       *)
CanceledOnlyIfStripeDid ==
    mode # "concurrent" /\ overtaken = {} /\ row # NoRow /\ row.status = "canceled"
        => stripe[row.sub].status = "canceled"

Quiet == acked = DOMAIN log /\ api = Idle /\ \A w \in Workers : handling[w] = 0

(* The row and the invoices are those of the subscription bought last,     *)
(* except for a plan without a price, of which Stripe does not know.       *)
Synced ==
    latest # NoRow => /\ row # NoRow
                      /\ \/ row = stripe[latest]
                         \/ row = [stripe[latest] EXCEPT !.plan = row.plan] /\ row.plan \in unpriced
                      /\ invoices[latest] = bills[latest]

(* "Process Stripe webhook events and sync local DB state": once all       *)
(* events are acknowledged the row shows what Stripe shows of the          *)
(* subscription bought last, and the invoice of its renewal is there as it *)
(* is at Stripe, if Stripe delivered in order and no handler raised, also  *)
(* when an API call changed Stripe and then died before its own commit.    *)
(* Two things are not synchronized: a plan without a price that the        *)
(* organization changed to, and the later invoices of a subscription it    *)
(* has replaced, whose customer no row has any more                        *)
(* (webhook_handler.py:14, 197-236, service.py:69-72, 113-136).            *)
SyncedInOrder ==
    mode = "ordered" /\ Quiet /\ swallowed = {} /\ "call" \notin overtaken => Synced

(* Under the same conditions a subscription that Stripe canceled does not  *)
(* stay in service: the row shows it, or shows another subscription        *)
(* (webhook_handler.py:140-149).                                           *)
CancellationArrives ==
    \A s \in Subs :
        mode = "ordered" /\ Has(s, "canceled")
            ~> \/ row # NoRow /\ (row.status = "canceled" \/ row.sub # s)
               \/ swallowed # {} \/ "call" \in overtaken
=============================================================================
