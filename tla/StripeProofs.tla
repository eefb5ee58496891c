----------------------------- MODULE StripeProofs -----------------------------
(***************************************************************************)
(* Type correctness and the safety of billing synchronization, for any     *)
(* subscriptions and plans, any number of handlers, events, calls, errors  *)
(* and redeliveries, and every way of delivering.                          *)
(***************************************************************************)
EXTENDS StripeProps, SequenceTheorems, TLAPS

Columns == {"sub", "plan", "status", "ending"}

(* A row has its columns. *)
LEMMA RowShape ==
    ASSUME NEW r \in Row
    PROVE  /\ DOMAIN r = Columns
           /\ r.sub \in Subs /\ r.plan \in Plans /\ r.status \in Statuses /\ r.ending \in BOOLEAN
           /\ r # NoRow
  BY ConstantsAssumption DEF Row, Columns

(* The columns that the session changed are written, the others are left.  *)
LEMMA FlushType ==
    ASSUME NEW read \in Row, NEW new \in Row, NEW committed \in Row
    PROVE  /\ Flush(read, new, committed) \in Row
           /\ Flush(read, new, committed).sub = IF new.sub # read.sub THEN new.sub ELSE committed.sub
           /\ Flush(read, new, committed).plan = IF new.plan # read.plan THEN new.plan ELSE committed.plan
           /\ Flush(read, new, committed).status
                 = IF new.status # read.status THEN new.status ELSE committed.status
  BY RowShape DEF Flush, Row, Columns

(* What an edit makes of a subscription is one. *)
LEMMA EditType ==
    ASSUME NEW edit \in Edits, NEW r \in Row
    PROVE  /\ Edit(edit, r) \in Row /\ Edit(edit, r).sub = r.sub
           /\ Edit(edit, r).plan = IF edit.op = "change_plan" THEN edit.plan ELSE r.plan
           /\ Edit(edit, r).status = IF edit.op = "cancel_now" THEN "canceled" ELSE r.status
  BY DEF Edits, Edit, Row, Statuses

(* What a handler makes of a row is one. *)
LEMMA HandledType ==
    ASSUME NEW e \in Event, NEW r \in Row \union {NoRow}
    PROVE  /\ Handled(e, r) \in Row \union {NoRow}
           /\ r \in Row => Handled(e, r) \in Row
           /\ Handled(e, r) # NoRow /\ r = NoRow => Handled(e, r).sub = e.sub /\ Handled(e, r).plan = e.plan
           /\ r # NoRow => Handled(e, r).sub \in {r.sub, e.sub} /\ Handled(e, r).plan \in {r.plan, e.plan}
  <1>1. CASE Provisions(e)
    <2>1. Handled(e, r) \in Row /\ Handled(e, r).sub = e.sub /\ Handled(e, r).plan = e.plan
      BY <1>1, ConstantsAssumption DEF Handled, Row, Event, Statuses
    <2> QED
      BY <2>1
  <1>2. CASE ~Provisions(e) /\ ~Mine(e, r)
    <2>1. Handled(e, r) = r
      BY <1>2 DEF Handled
    <2> QED
      BY <1>2, <2>1
  <1>3. CASE ~Provisions(e) /\ Mine(e, r)
    <2>1. r \in Row
      BY <1>3 DEF Mine
    <2>2. e.type \in {"updated", "deleted", "failed", "paid"}
      BY <1>3 DEF Event, Types, Provisions
    <2>3. Handled(e, r) \in {Updated(e, r), Deleted(r), [r EXCEPT !.status = "past_due"],
                             [r EXCEPT !.status = IF @ = "past_due" THEN "active" ELSE @]}
      BY <1>3, <2>2 DEF Handled
    <2>4. Handled(e, r) \in Row /\ Handled(e, r).sub = r.sub /\ Handled(e, r).plan \in {r.plan, e.plan}
      BY <2>1, <2>3 DEF Updated, Deleted, Row, Event, Statuses
    <2> QED
      BY <2>1, <2>4, ConstantsAssumption
  <1> QED
    BY <1>1, <1>2, <1>3

-----------------------------------------------------------------------------
(* What Stripe emits comes after what it has emitted.                      *)
LEMMA EmitType ==
    ASSUME log \in Seq(Event), NEW events \in Seq(Event), Emit(events)
    PROVE  /\ log' \in Seq(Event) /\ DOMAIN log \subseteq DOMAIN log'
           /\ \A i \in DOMAIN log : log'[i] = log[i]
           /\ \A i \in DOMAIN log' : i \in DOMAIN log \/ \E j \in DOMAIN events : log'[i] = events[j]
           /\ \A j \in DOMAIN events : \E i \in DOMAIN log' : log'[i] = events[j]
  <1>1. log' = log \o events
    BY DEF Emit
  <1>2. /\ log' \in Seq(Event) /\ Len(log') = Len(log) + Len(events)
        /\ \A i \in 1..(Len(log) + Len(events)) :
              log'[i] = IF i <= Len(log) THEN log[i] ELSE events[i - Len(log)]
    BY <1>1, ConcatProperties
  <1>3. /\ Len(log) \in Nat /\ DOMAIN log = 1..Len(log) /\ Len(events) \in Nat
        /\ DOMAIN events = 1..Len(events) /\ DOMAIN log' = 1..Len(log')
    BY <1>2, LenProperties
  <1>4. ASSUME NEW i \in DOMAIN log', i \notin DOMAIN log
        PROVE  \E j \in DOMAIN events : log'[i] = events[j]
    <2>1. i \in 1..(Len(log) + Len(events)) /\ ~(i <= Len(log)) /\ i - Len(log) \in DOMAIN events
      BY <1>2, <1>3, <1>4
    <2> QED
      BY <1>2, <2>1
  <1>5. ASSUME NEW j \in DOMAIN events PROVE \E i \in DOMAIN log' : log'[i] = events[j]
    <2>1. /\ Len(log) + j \in 1..(Len(log) + Len(events)) /\ ~(Len(log) + j <= Len(log))
          /\ (Len(log) + j) - Len(log) = j
      BY <1>3
    <2>2. Len(log) + j \in DOMAIN log' /\ log'[Len(log) + j] = events[j]
      BY <1>2, <1>3, <2>1
    <2> QED
      BY <2>2
  <1> QED
    BY <1>2, <1>3, <1>4, <1>5

(* The log only grows, and what is new in it tells of a subscription and   *)
(* its state.                                                              *)
Tells(i, s, state) ==
    /\ log'[i].sub = s /\ log'[i].plan = state.plan /\ log'[i].status = state.status

Grows(s, state, types) ==
    /\ log' \in Seq(Event) /\ DOMAIN log \subseteq DOMAIN log'
    /\ \A i \in DOMAIN log : log'[i] = log[i]
    /\ \A i \in DOMAIN log' :
          i \in DOMAIN log \/ (Tells(i, s, state) /\ \E k \in DOMAIN types : log'[i].type = types[k])
    /\ types # <<>> => \E i \in DOMAIN log' : log'[i].plan = state.plan

LEMMA SnapshotType ==
    ASSUME NEW type \in Types, NEW s \in Subs, NEW state \in Row
    PROVE  /\ Snapshot(type, s, state) \in Event
           /\ Snapshot(type, s, state).type = type /\ Snapshot(type, s, state).sub = s
           /\ Snapshot(type, s, state).plan = state.plan /\ Snapshot(type, s, state).status = state.status
  BY DEF Snapshot, Event, Row

LEMMA ChangeGrows ==
    ASSUME log \in Seq(Event), NEW s \in Subs, NEW state \in Row, NEW types \in Seq(Types),
           Change(s, state, types)
    PROVE  Grows(s, state, types)
  <1> DEFINE events == [i \in DOMAIN types |-> Snapshot(types[i], s, state)]
  <1>1. Len(types) \in Nat /\ DOMAIN types = 1..Len(types) /\ \A i \in DOMAIN types : types[i] \in Types
    BY LenProperties, ElementOfSeq
  <1>2. \A i \in 1..Len(types) : Snapshot(types[i], s, state) \in Event
    BY <1>1, SnapshotType
  <1>3. events \in Seq(Event) /\ DOMAIN events = DOMAIN types
    BY <1>1, <1>2
  <1>4. Emit(events)
    BY DEF Change
  <1>5. \A j \in DOMAIN events : /\ events[j].sub = s /\ events[j].plan = state.plan
                                 /\ events[j].status = state.status /\ events[j].type = types[j]
    BY <1>1, SnapshotType
  <1> HIDE DEF events
  <1>6. /\ log' \in Seq(Event) /\ DOMAIN log \subseteq DOMAIN log'
        /\ \A i \in DOMAIN log : log'[i] = log[i]
        /\ \A i \in DOMAIN log' : i \in DOMAIN log \/ \E j \in DOMAIN events : log'[i] = events[j]
        /\ \A j \in DOMAIN events : \E i \in DOMAIN log' : log'[i] = events[j]
    BY <1>3, <1>4, EmitType
  <1>7. types # <<>> => \E i \in DOMAIN log' : log'[i].plan = state.plan
    <2> SUFFICES ASSUME types # <<>> PROVE \E i \in DOMAIN log' : log'[i].plan = state.plan
      OBVIOUS
    <2>1. 1 \in DOMAIN types
      BY <1>1, EmptySeq
    <2>2. PICK i \in DOMAIN log' : log'[i] = events[1]
      BY <1>3, <1>6, <2>1
    <2> QED
      BY <1>3, <1>5, <2>1, <2>2
  <1> QED
    BY <1>3, <1>5, <1>6, <1>7 DEF Grows, Tells

(* A checkout grows the log by three events of one plan. *)
Sold(s, plan) ==
    /\ log' \in Seq(Event) /\ DOMAIN log \subseteq DOMAIN log'
    /\ \A i \in DOMAIN log : log'[i] = log[i]
    /\ \A i \in DOMAIN log' :
          \/ i \in DOMAIN log
          \/ /\ log'[i].sub = s /\ log'[i].plan = plan
             /\ log'[i].status \in {"incomplete", "active"}
             /\ log'[i].type \in {"created", "updated", "checkout"}
    /\ \E i \in DOMAIN log' : log'[i].plan = plan
    /\ stripe[s] = NoRow
    /\ \E state \in Row : /\ state.sub = s /\ state.plan = plan /\ state.status = "active"
                          /\ stripe' = [stripe EXCEPT ![s] = state]

LEMMA CheckoutGrows ==
    ASSUME TypeOK, NEW s \in Subs, NEW plan \in Priced, Checkout(s, plan)
    PROVE  Sold(s, plan)
  <1> DEFINE new    == [sub |-> s, plan |-> plan, status |-> "incomplete", ending |-> FALSE]
             active == [new EXCEPT !.status = "active"]
             events == <<Snapshot("created", s, new), Snapshot("updated", s, active),
                         Snapshot("checkout", s, active)>>
  <1>0. new \in Row
    BY ConstantsAssumption DEF Row, Statuses
  <1>1. /\ new \in Row /\ new.plan = plan /\ new.status = "incomplete"
        /\ active \in Row /\ active.sub = s /\ active.plan = plan /\ active.status = "active"
    BY <1>0 DEF Row, Statuses
  <1>2. /\ events \in Seq(Event) /\ Len(events) = 3 /\ DOMAIN events = 1..3
    BY <1>1, SnapshotType DEF Types
  <1>3. \A j \in 1..3 : /\ events[j].sub = s /\ events[j].plan = plan
                        /\ events[j].status \in {"incomplete", "active"}
                        /\ events[j].type \in {"created", "updated", "checkout"}
    BY <1>1, SnapshotType DEF Types
  <1>4. Emit(events) /\ stripe[s] = NoRow /\ stripe' = [stripe EXCEPT ![s] = active]
    BY DEF Checkout
  <1> HIDE DEF new, active
  <1>5. log \in Seq(Event)
    BY DEF TypeOK
  <1> HIDE DEF events
  <1>6. /\ log' \in Seq(Event) /\ DOMAIN log \subseteq DOMAIN log'
        /\ \A i \in DOMAIN log : log'[i] = log[i]
        /\ \A i \in DOMAIN log' : i \in DOMAIN log \/ \E j \in DOMAIN events : log'[i] = events[j]
    BY <1>2, <1>4, <1>5, EmitType
  <1>7. \E i \in DOMAIN log' : log'[i].plan = plan
    <2>1. \A j \in DOMAIN events : \E i \in DOMAIN log' : log'[i] = events[j]
      BY <1>2, <1>4, <1>5, EmitType
    <2>2. PICK i \in DOMAIN log' : log'[i] = events[1]
      BY <1>2, <2>1
    <2> QED
      BY <1>3, <2>2
  <1>8. ASSUME NEW i \in DOMAIN log', i \notin DOMAIN log
        PROVE  /\ log'[i].sub = s /\ log'[i].plan = plan
               /\ log'[i].status \in {"incomplete", "active"}
               /\ log'[i].type \in {"created", "updated", "checkout"}
    <2>1. PICK j \in DOMAIN events : log'[i] = events[j]
      BY <1>6, <1>8
    <2> QED
      BY <1>2, <1>3, <2>1
  <1>9. \E state \in Row : /\ state.sub = s /\ state.plan = plan /\ state.status = "active"
                           /\ stripe' = [stripe EXCEPT ![s] = state]
    BY <1>1, <1>4
  <1> QED
    BY <1>4, <1>6, <1>7, <1>8, <1>9 DEF Sold

-----------------------------------------------------------------------------
(* A row that tells of a subscription that Stripe has, with a plan that was *)
(* bought for it or has no price.                                          *)
Backed(r) == stripe[r.sub] # NoRow /\ r.plan \in Offered

(* Every row, committed or read, is backed, a call is made for a row that  *)
(* is there, and commits a plan that was offered.                          *)
Known ==
    /\ row # NoRow => Backed(row)
    /\ \A w \in Workers : seen[w] # NoRow => Backed(seen[w])
    /\ api # Idle => row # NoRow /\ Backed(api.read)
    /\ api.at = "commit" /\ api.edit.op = "change_plan" => api.edit.plan \in Offered

(* Stripe has what its events tell of, and told of every plan it has.      *)
Told ==
    /\ \A i \in DOMAIN log :
          /\ stripe[log[i].sub] # NoRow
          /\ log[i].type = "failed" => bills[log[i].sub] # "none"
          /\ log[i].type = "paid" => bills[log[i].sub] = "paid"
    /\ \A s \in Subs : stripe[s] # NoRow => stripe[s].plan \in Bought

(* An invoice is Stripe's, and one that is about to be written is of an    *)
(* event that tells of it.                                                 *)
Invoiced ==
    /\ \A s \in Subs : /\ invoices[s] # "none" => bills[s] # "none"
                       /\ invoices[s] = "paid" => bills[s] = "paid"
    /\ \A w \in Workers : handling[w] # 0 /\ billing[w] # "done" => OfInvoice(log[handling[w]])

(* Billing starts with its types. *)
LEMMA TypeInit == Init => TypeOK /\ Known /\ Told /\ Invoiced
  <1> SUFFICES ASSUME Init PROVE TypeOK /\ Known /\ Told /\ Invoiced
    OBVIOUS
  <1>1. <<>> \in Seq(Event) /\ DOMAIN <<>> = {}
    BY EmptySeq
  <1>2. api.at = "idle"
    BY DEF Init, Idle
  <1>3. TypeOK
    BY <1>1, ConstantsAssumption DEF Init, TypeOK, Bills, AllModes
  <1>4. Known
    BY <1>2 DEF Init, Known
  <1>5. Told /\ Invoiced
    BY <1>1 DEF Init, Told, Invoiced
  <1> QED
    BY <1>3, <1>4, <1>5

(* A call that Stripe carries out changes the subscription as the edit      *)
(* says, unless the plan has no price, and the change is told.             *)
Carries(new, types) ==
    LET s == api.read.sub
    IN  /\ api.edit \in Edits /\ s \in Subs /\ stripe[s] \in Row /\ stripe[s] # NoRow
        /\ new = Charged(api.edit, stripe[s])
        /\ new.sub = stripe[s].sub
        /\ new.status = IF api.edit.op = "cancel_now" THEN "canceled" ELSE stripe[s].status
        /\ Change(s, new, types)
        /\ \/ types = <<>> /\ new = stripe[s]
           \/ types = <<"deleted">> /\ new.status = "canceled"
           \/ types = <<"updated">> /\ new.status # "canceled"
        /\ unpriced' = unpriced \union IF Unpriced(api.edit) THEN {api.edit.plan} ELSE {}
        /\ unpriced' \subseteq Plans \ Priced
        /\ api' = [api EXCEPT !.at = "commit"] /\ UNCHANGED <<latest, bills>>

LEMMA ApiChange ==
    ASSUME TypeOK, Known, ApiStripe, stripe[api.read.sub].status # "canceled"
    PROVE  \E new \in Row, types \in Seq(Types) : Carries(new, types)
  <1>1. api \in [at : {"stripe", "commit"}, edit : Edits, read : Row] /\ api # Idle
    BY DEF TypeOK, ApiStripe, Idle
  <1>s. PICK s \in Subs : s = api.read.sub
    BY <1>1 DEF Row
  <1>n. PICK new : new = Charged(api.edit, stripe[s])
    OBVIOUS
  <1>2. api.edit \in Edits /\ stripe[s] \in Row /\ stripe[s] # NoRow
    BY <1>1, <1>s DEF Known, Backed, TypeOK
  <1>3. /\ new \in Row /\ new.sub = stripe[s].sub
        /\ new.status = IF api.edit.op = "cancel_now" THEN "canceled" ELSE stripe[s].status
    BY <1>n, <1>2, EditType DEF Charged, Unpriced
  <1>4. <<>> \in Seq(Types) /\ <<"deleted">> \in Seq(Types) /\ <<"updated">> \in Seq(Types)
    BY EmptySeq DEF Types
  <1>5. /\ \/ new.status = "canceled" /\ Change(s, new, <<"deleted">>)
           \/ new.status # "canceled" /\ Change(s, new, <<"updated">>)
           \/ new = stripe[s] /\ Change(s, new, <<>>)
        /\ unpriced' = unpriced \union IF Unpriced(api.edit) THEN {api.edit.plan} ELSE {}
        /\ api' = [api EXCEPT !.at = "commit"] /\ UNCHANGED <<latest, bills>>
    BY <1>s, <1>n DEF ApiStripe
  <1>6. unpriced' \subseteq Plans \ Priced
    <2>1. Unpriced(api.edit) => api.edit.plan \in Plans \ Priced
      BY <1>2 DEF Unpriced, Edits
    <2> QED
      BY <1>5, <2>1 DEF TypeOK
  <1>7. PICK types \in {<<>>, <<"deleted">>, <<"updated">>} :
            /\ Change(s, new, types)
            /\ \/ types = <<>> /\ new = stripe[s]
               \/ types = <<"deleted">> /\ new.status = "canceled"
               \/ types = <<"updated">> /\ new.status # "canceled"
    BY <1>5
  <1>8. Carries(new, types)
    BY <1>s, <1>n, <1>2, <1>3, <1>5, <1>6, <1>7 DEF Carries
  <1> QED
    BY <1>3, <1>4, <1>8

(* Every change at Stripe, every handler's and call's step, and every      *)
(* failure keeps the types.                                                *)
LEMMA TypeStep == TypeOK /\ Known /\ [Next]_vars => TypeOK'
  <1> SUFFICES ASSUME TypeOK, Known, [Next]_vars PROVE TypeOK'
    OBVIOUS
  <1> USE DEF TypeOK, remote, workers, local, bounds, history
  <1>r. \A s \in Subs : stripe[s] # NoRow => stripe[s] \in Row
    OBVIOUS
  <1>s. {"active", "past_due", "canceled", "incomplete"} = Statuses
    BY DEF Statuses
  <1>f. Fault => faults' \in Nat
    BY DEF Fault
  <1>c. \A s \in Subs : \A status : Has(s, status) => stripe[s] \in Row
    BY DEF Has
  <1>grow. ASSUME NEW s \in Subs, NEW state \in Row, NEW types \in Seq(Types), Change(s, state, types)
           PROVE  /\ log' \in Seq(Event) /\ stripe' \in [Subs -> Row \union {NoRow}]
                  /\ DOMAIN log \subseteq DOMAIN log'
    <2>1. Grows(s, state, types)
      BY <1>grow, ChangeGrows
    <2> QED
      BY <1>grow, <2>1 DEF Grows, Change
  <1>end. ASSUME NEW w \in Workers, Acknowledge(w)
          PROVE  /\ acked' \subseteq Nat /\ handling' \in [Workers -> Nat]
                 /\ \A v \in Workers : handling'[v] # 0 => handling'[v] \in DOMAIN log
                 /\ seen' \in [Workers -> Row \union {NoRow}]
                 /\ billing' \in [Workers -> Bills \union {"done"}]
    BY <1>end DEF Acknowledge
  <1>1. ASSUME NEW s \in Subs, NEW p \in Priced, Checkout(s, p) PROVE TypeOK'
    <2>1. /\ log' \in Seq(Event) /\ DOMAIN log \subseteq DOMAIN log'
          /\ \E state \in Row : stripe' = [stripe EXCEPT ![s] = state]
      BY <1>1, CheckoutGrows DEF Sold
    <2>2. stripe' \in [Subs -> Row \union {NoRow}]
      BY <2>1
    <2>3. latest' = s /\ UNCHANGED <<mode, bills, workers, local, api, bounds, history>>
      BY <1>1 DEF Checkout
    <2> QED
      BY <2>1, <2>2, <2>3
  <1>2. ASSUME NEW s \in Subs, RenewalFails(s) PROVE TypeOK'
    <2>1. [stripe[s] EXCEPT !.status = "past_due"] \in Row
      BY <1>2, <1>c, <1>s DEF RenewalFails, Row
    <2>2. <<"updated", "failed">> \in Seq(Types)
      BY DEF Types
    <2>3. Change(s, [stripe[s] EXCEPT !.status = "past_due"], <<"updated", "failed">>)
      BY <1>2 DEF RenewalFails
    <2>4. log' \in Seq(Event) /\ stripe' \in [Subs -> Row \union {NoRow}] /\ DOMAIN log \subseteq DOMAIN log'
      BY <1>grow, <2>1, <2>2, <2>3
    <2>5. bills' = [bills EXCEPT ![s] = "open"]
          /\ UNCHANGED <<mode, latest, workers, local, api, bounds, history>>
      BY <1>2 DEF RenewalFails
    <2> QED
      BY <2>4, <2>5 DEF Bills
  <1>3. ASSUME NEW s \in Subs, RenewalPaid(s) PROVE TypeOK'
    <2>1. [stripe[s] EXCEPT !.status = "active"] \in Row
      BY <1>3, <1>c, <1>s DEF RenewalPaid, Row
    <2>2. <<"updated", "paid">> \in Seq(Types)
      BY DEF Types
    <2>3. Change(s, [stripe[s] EXCEPT !.status = "active"], <<"updated", "paid">>)
      BY <1>3 DEF RenewalPaid
    <2>4. log' \in Seq(Event) /\ stripe' \in [Subs -> Row \union {NoRow}] /\ DOMAIN log \subseteq DOMAIN log'
      BY <1>grow, <2>1, <2>2, <2>3
    <2>5. bills' = [bills EXCEPT ![s] = "paid"]
          /\ UNCHANGED <<mode, latest, workers, local, api, bounds, history>>
      BY <1>3 DEF RenewalPaid
    <2> QED
      BY <2>4, <2>5 DEF Bills
  <1>4. ASSUME NEW s \in Subs, StripeCancels(s) PROVE TypeOK'
    <2>1. [stripe[s] EXCEPT !.status = "canceled"] \in Row
      BY <1>4, <1>c, <1>s DEF StripeCancels, Row
    <2>2. <<"deleted">> \in Seq(Types)
      BY DEF Types
    <2>3. Change(s, [stripe[s] EXCEPT !.status = "canceled"], <<"deleted">>)
      BY <1>4 DEF StripeCancels
    <2>4. log' \in Seq(Event) /\ stripe' \in [Subs -> Row \union {NoRow}] /\ DOMAIN log \subseteq DOMAIN log'
      BY <1>grow, <2>1, <2>2, <2>3
    <2>5. UNCHANGED <<mode, bills, latest, workers, local, api, bounds, history>>
      BY <1>4 DEF StripeCancels
    <2> QED
      BY <2>4, <2>5
  <1>5. ASSUME NEW i \in DOMAIN log, NEW w \in Workers, Deliver(w, i) PROVE TypeOK'
    <2>1. i \in Nat /\ log[i] \in Event
      BY LenProperties, ElementOfSeq
    <2>2. OfInvoice(log[i]) => invoices[log[i].sub] \in Bills
      BY <2>1 DEF Event
    <2>3. /\ handling' = [handling EXCEPT ![w] = i] /\ seen' = [seen EXCEPT ![w] = row]
          /\ billing' = [billing EXCEPT ![w] = IF OfInvoice(log[i]) THEN invoices[log[i].sub] ELSE "done"]
          /\ UNCHANGED <<mode, remote, acked, swallowed, local, api, bounds, history>>
      BY <1>5 DEF Deliver
    <2>4. handling' \in [Workers -> Nat] /\ \A v \in Workers : handling'[v] # 0 => handling'[v] \in DOMAIN log
      BY <2>1, <2>3
    <2>5. seen' \in [Workers -> Row \union {NoRow}]
      BY <2>3
    <2>6. billing' \in [Workers -> Bills \union {"done"}]
      BY <2>2, <2>3
    <2> QED
      BY <2>3, <2>4, <2>5, <2>6
  <1>6. ASSUME NEW i \in DOMAIN log, Redeliver(i) PROVE TypeOK'
    <2>1. acked' = acked \ {i} /\ redeliveries' = redeliveries + 1
          /\ UNCHANGED <<mode, remote, handling, seen, billing, swallowed, local, api, calls, faults, history>>
      BY <1>6 DEF Redeliver
    <2>2. acked \subseteq Nat /\ acked \ {i} \subseteq acked
      OBVIOUS
    <2>4. acked' \subseteq Nat
      BY <2>1, <2>2
    <2>5. redeliveries' \in Nat
      BY <2>1
    <2>3. api' \in {Idle} \union [at : {"stripe", "commit"}, edit : Edits, read : Row]
      BY <2>1
    <2> QED
      BY <2>1, <2>3, <2>4, <2>5
  <1>e. ASSUME NEW w \in Workers, handling[w] # 0 PROVE log[handling[w]] \in Event
    BY <1>e, LenProperties, ElementOfSeq
  <1>7. ASSUME NEW w \in Workers, UpsertInvoice(w) PROVE TypeOK'
    <2>1. log[handling[w]].sub \in Subs /\ Billed(log[handling[w]]) \in Bills
      BY <1>7, <1>e DEF UpsertInvoice, Event, Billed, Bills
    <2>2. invoices' = invoices \/ invoices' = [invoices EXCEPT ![log[handling[w]].sub] = Billed(log[handling[w]])]
      BY <1>7 DEF UpsertInvoice
    <2>3. invoices' \in [Subs -> Bills]
      BY <2>1, <2>2
    <2>4. billing' = [billing EXCEPT ![w] = "done"] /\ seen' = [seen EXCEPT ![w] = row]
          /\ UNCHANGED <<mode, remote, acked, handling, swallowed, row, api, bounds, history>>
      BY <1>7 DEF UpsertInvoice
    <2> QED
      BY <2>3, <2>4
  <1>8. ASSUME NEW w \in Workers, Handle(w) PROVE TypeOK'
    <2> DEFINE new == Handled(log[handling[w]], seen[w])
    <2>1. log[handling[w]] \in Event /\ seen[w] \in Row \union {NoRow}
      BY <1>8, <1>e DEF Handle
    <2>2. new \in Row \union {NoRow} /\ (seen[w] \in Row => new \in Row)
      BY <2>1, HandledType
    <2>3. row' = IF seen[w] = NoRow \/ row = NoRow
                 THEN IF new = NoRow THEN row ELSE new
                 ELSE Flush(seen[w], new, row)
      BY <1>8 DEF Handle
    <2> HIDE DEF new
    <2>4. row' \in Row \union {NoRow}
      BY <2>1, <2>2, <2>3, FlushType
    <2>5. Acknowledge(w) /\ UNCHANGED <<mode, remote, swallowed, invoices, api, bounds, history>>
      BY <1>8 DEF Handle
    <2> QED
      BY <1>end, <2>4, <2>5
  <1>9. ASSUME NEW w \in Workers, Swallow(w) PROVE TypeOK'
    <2>1. /\ swallowed' = swallowed \union {handling[w]} /\ Acknowledge(w) /\ faults' \in Nat
          /\ UNCHANGED <<mode, remote, local, api, redeliveries, calls, history>>
      BY <1>9, <1>f DEF Swallow
    <2> QED
      BY <1>end, <2>1
  <1>10. ASSUME NEW edit \in Edits, ApiRead(edit) PROVE TypeOK'
    BY <1>10 DEF ApiRead
  <1>a. api.at \in {"stripe", "commit"} => api \in [at : {"stripe", "commit"}, edit : Edits, read : Row]
    BY DEF Idle
  <1>k. ASSUME api.at \in {"stripe", "commit"} PROVE row \in Row /\ stripe[api.read.sub] \in Row
    <2>1. api # Idle
      BY <1>k DEF Idle
    <2>2. api.read.sub \in Subs
      BY <1>k, <1>a DEF Row
    <2> QED
      BY <2>1, <2>2 DEF Known, Backed
  <1>11. CASE ApiStripe
    <2>1. /\ api \in [at : {"stripe", "commit"}, edit : Edits, read : Row]
          /\ UNCHANGED <<mode, workers, local, bounds, overtaken>>
      BY <1>11, <1>a DEF ApiStripe
    <2>2. CASE stripe[api.read.sub].status = "canceled"
      BY <1>11, <2>1, <2>2 DEF ApiStripe
    <2>3. CASE stripe[api.read.sub].status # "canceled"
      <3>1. PICK new \in Row, types \in Seq(Types) : Carries(new, types)
        BY <1>11, <2>3, ApiChange
      <3>2. /\ Change(api.read.sub, new, types) /\ api.read.sub \in Subs
            /\ api' = [api EXCEPT !.at = "commit"] /\ UNCHANGED <<latest, bills>>
            /\ unpriced' \subseteq Plans \ Priced
        BY <3>1 DEF Carries
      <3>3. log' \in Seq(Event) /\ stripe' \in [Subs -> Row \union {NoRow}] /\ DOMAIN log \subseteq DOMAIN log'
        BY <1>grow, <3>2
      <3>4. api' \in [at : {"stripe", "commit"}, edit : Edits, read : Row]
        BY <2>1, <3>2
      <3> QED
        BY <2>1, <3>2, <3>3, <3>4
    <2> QED
      BY <2>2, <2>3
  <1>12. CASE ApiCommit
    <2>1. /\ api.edit \in Edits /\ api.read \in Row /\ row \in Row
      BY <1>12, <1>a, <1>k DEF ApiCommit
    <2>2. row' \in Row
      BY <1>12, <2>1, EditType, FlushType DEF ApiCommit
    <2>3. /\ overtaken' = overtaken \union
                 (IF row.sub # api.read.sub THEN {"call"} ELSE {}) \union
                 (IF \E w \in Workers : handling[w] # 0 THEN {"handler"} ELSE {})
          /\ api' = Idle /\ UNCHANGED <<mode, remote, workers, invoices, bounds, unpriced>>
      BY <1>12 DEF ApiCommit
    <2>4. overtaken' \subseteq {"handler", "call"}
      BY <2>3
    <2> QED
      BY <2>2, <2>3, <2>4
  <1>13. CASE ApiFails
    BY <1>13, <1>f DEF ApiFails
  <1>14. CASE UNCHANGED vars
    BY <1>14 DEF vars
  <1> QED
    BY <1>1, <1>2, <1>3, <1>4, <1>5, <1>6, <1>7, <1>8, <1>9, <1>10, <1>11, <1>12, <1>13, <1>14
       DEF Next, Stripe, Webhook, Api

-----------------------------------------------------------------------------
LEMMA LogEvents ==
    ASSUME TypeOK
    PROVE  \A i \in DOMAIN log : i \in Nat /\ log[i] \in Event /\ log[i].sub \in Subs /\ log[i].plan \in Plans
  <1>1. \A i \in DOMAIN log : i \in Nat /\ log[i] \in Event
    BY ElementOfSeq, LenProperties DEF TypeOK
  <1> QED
    BY <1>1 DEF Event

(* Stripe forgets nothing: what was emitted stays, a subscription stays,    *)
(* and an invoice only gets paid.                                          *)
Kept ==
    /\ DOMAIN log \subseteq DOMAIN log'
    /\ \A i \in DOMAIN log : log'[i] = log[i]
    /\ unpriced \subseteq unpriced'
    /\ \A s \in Subs : /\ stripe[s] # NoRow => stripe'[s] # NoRow
                       /\ bills[s] # "none" => bills'[s] # "none"
                       /\ bills[s] = "paid" => bills'[s] = "paid"

LEMMA KeptBacked ==
    ASSUME Kept, NEW r \in Row, Backed(r)
    PROVE  stripe'[r.sub] # NoRow /\ r.plan \in Offered'
  BY RowShape DEF Kept, Backed, Bought, Offered

(* A change of a subscription that Stripe has, told by events of these      *)
(* types, keeps what is true of the log, if the invoice is as they say.    *)
LEMMA ChangeTold ==
    ASSUME TypeOK, Told,
           NEW s \in Subs, stripe[s] # NoRow, NEW state \in Row, NEW types \in Seq(Types),
           Change(s, state, types), unpriced \subseteq unpriced',
           types = <<>> => state.plan \in Bought,
           \A v \in Subs : /\ bills[v] # "none" => bills'[v] # "none"
                           /\ bills[v] = "paid" => bills'[v] = "paid",
           \A k \in DOMAIN types : /\ types[k] = "failed" => bills'[s] # "none"
                                   /\ types[k] = "paid" => bills'[s] = "paid"
    PROVE  Told' /\ Kept /\ state.plan \in Bought'
  <1>1. Grows(s, state, types)
    BY ChangeGrows DEF TypeOK
  <1>2. stripe' = [stripe EXCEPT ![s] = state] /\ state # NoRow
    BY RowShape DEF Change
  <1>3. Kept
    BY <1>1, <1>2 DEF Kept, Grows, TypeOK
  <1>4. \A i \in DOMAIN log : log[i] \in Event /\ log[i].sub \in Subs
    BY LogEvents
  <1>5. Bought \subseteq Bought'
    BY <1>3 DEF Kept, Bought
  <1>6. state.plan \in Bought'
    <2>1. CASE types = <<>>
      BY <1>5, <2>1
    <2>2. CASE types # <<>>
      BY <1>1, <2>2 DEF Grows, Bought
    <2> QED
      BY <2>1, <2>2
  <1>7. ASSUME NEW i \in DOMAIN log'
        PROVE  /\ stripe'[log'[i].sub] # NoRow
               /\ log'[i].type = "failed" => bills'[log'[i].sub] # "none"
               /\ log'[i].type = "paid" => bills'[log'[i].sub] = "paid"
    <2>1. CASE i \in DOMAIN log
      BY <1>3, <1>4, <2>1 DEF Kept, Told
    <2>2. CASE i \notin DOMAIN log
      <3>1. log'[i].sub = s /\ \E k \in DOMAIN types : log'[i].type = types[k]
        BY <1>1, <2>2 DEF Grows, Tells
      <3> QED
        BY <1>2, <3>1 DEF TypeOK
    <2> QED
      BY <2>1, <2>2
  <1>8. \A v \in Subs : stripe'[v] # NoRow => stripe'[v].plan \in Bought'
    BY <1>2, <1>5, <1>6 DEF Told, TypeOK
  <1> QED
    BY <1>3, <1>6, <1>7, <1>8 DEF Told

(* Whatever is done, Stripe forgets nothing and its log tells the truth;    *)
(* and a change of plan that Stripe carries out is told.                   *)
LEMMA ToldStep ==
    ASSUME TypeOK, Known, Told, [Next]_vars
    PROVE  /\ Told' /\ Kept
           /\ ApiStripe /\ api'.at = "commit" /\ api.edit.op = "change_plan" => api.edit.plan \in Offered'
  <1>b. ASSUME NEW s \in Subs, NEW v \in Bills, v # "none", bills[s] # "paid" \/ v = "paid",
               bills' = [bills EXCEPT ![s] = v]
        PROVE  \A t \in Subs : /\ bills[t] # "none" => bills'[t] # "none"
                               /\ bills[t] = "paid" => bills'[t] = "paid"
    BY <1>b DEF TypeOK
  <1>c. ASSUME NEW s \in Subs, NEW status, Has(s, status)
        PROVE  stripe[s] \in Row /\ stripe[s] # NoRow
    BY <1>c, RowShape DEF Has, TypeOK
  <1>u. ASSUME UNCHANGED <<remote, unpriced>> PROVE Told' /\ Kept
    BY <1>u DEF remote, Told, Kept, Bought
  <1>s. {"active", "past_due", "canceled", "incomplete"} = Statuses
    BY DEF Statuses
  <1>1. ASSUME NEW s \in Subs, NEW p \in Priced, Checkout(s, p) PROVE Told' /\ Kept
    <2>0. Sold(s, p)
      BY <1>1, CheckoutGrows
    <2>1. /\ DOMAIN log \subseteq DOMAIN log'
          /\ \A i \in DOMAIN log : log'[i] = log[i]
          /\ \A i \in DOMAIN log' :
                i \in DOMAIN log \/ (log'[i].sub = s /\ log'[i].type # "failed" /\ log'[i].type # "paid")
          /\ \E i \in DOMAIN log' : log'[i].plan = p
          /\ stripe[s] = NoRow
      BY <2>0 DEF Sold
    <2>2. PICK state \in Row : state.plan = p /\ stripe' = [stripe EXCEPT ![s] = state]
      BY <2>0 DEF Sold
    <2>3. bills' = bills /\ state # NoRow /\ unpriced' = unpriced
      BY <1>1, RowShape DEF Checkout, history
    <2>4. Kept
      BY <2>1, <2>2, <2>3 DEF Kept, TypeOK
    <2>5. \A i \in DOMAIN log : log[i].sub \in Subs
      BY LogEvents
    <2>6. Bought \subseteq Bought' /\ p \in Bought'
      BY <2>1 DEF Bought
    <2>7. ASSUME NEW i \in DOMAIN log'
          PROVE  /\ stripe'[log'[i].sub] # NoRow
                 /\ log'[i].type = "failed" => bills'[log'[i].sub] # "none"
                 /\ log'[i].type = "paid" => bills'[log'[i].sub] = "paid"
      <3>1. CASE i \in DOMAIN log
        BY <2>3, <2>4, <2>5, <3>1 DEF Kept, Told
      <3>2. CASE i \notin DOMAIN log
        BY <2>1, <2>2, <2>3, <3>2 DEF TypeOK
      <3> QED
        BY <3>1, <3>2
    <2>8. \A v \in Subs : stripe'[v] # NoRow => stripe'[v].plan \in Bought'
      BY <2>2, <2>6 DEF Told, TypeOK
    <2> QED
      BY <2>4, <2>7, <2>8 DEF Told
  <1>2. ASSUME NEW s \in Subs, RenewalFails(s) PROVE Told' /\ Kept
    <2> DEFINE state == [stripe[s] EXCEPT !.status = "past_due"]
               types == <<"updated", "failed">>
    <2>1. state \in Row /\ stripe[s] # NoRow
      BY <1>2, <1>c, <1>s DEF RenewalFails, Row
    <2>2. types \in Seq(Types) /\ types # <<>>
      BY DEF Types
    <2>3. Change(s, state, types) /\ bills' = [bills EXCEPT ![s] = "open"] /\ bills[s] = "none"
          /\ unpriced' = unpriced
      BY <1>2 DEF RenewalFails, history
    <2>4. \A k \in DOMAIN types : types[k] # "paid"
      OBVIOUS
    <2>5. bills'[s] = "open"
      BY <2>3 DEF TypeOK
    <2>6. \A t \in Subs : (bills[t] # "none" => bills'[t] # "none") /\ (bills[t] = "paid" => bills'[t] = "paid")
      BY <1>b, <2>3 DEF Bills
    <2> HIDE DEF state, types
    <2> QED
      BY <2>1, <2>2, <2>3, <2>4, <2>5, <2>6, ChangeTold
  <1>3. ASSUME NEW s \in Subs, RenewalPaid(s) PROVE Told' /\ Kept
    <2> DEFINE state == [stripe[s] EXCEPT !.status = "active"]
               types == <<"updated", "paid">>
    <2>1. state \in Row /\ stripe[s] # NoRow
      BY <1>3, <1>c, <1>s DEF RenewalPaid, Row
    <2>2. types \in Seq(Types) /\ types # <<>>
      BY DEF Types
    <2>3. Change(s, state, types) /\ bills' = [bills EXCEPT ![s] = "paid"]
          /\ unpriced' = unpriced
      BY <1>3 DEF RenewalPaid, history
    <2>5. bills'[s] = "paid"
      BY <2>3 DEF TypeOK
    <2>6. \A t \in Subs : (bills[t] # "none" => bills'[t] # "none") /\ (bills[t] = "paid" => bills'[t] = "paid")
      BY <1>b, <2>3 DEF Bills
    <2> HIDE DEF state, types
    <2> QED
      BY <2>1, <2>2, <2>3, <2>5, <2>6, ChangeTold
  <1>4. ASSUME NEW s \in Subs, StripeCancels(s) PROVE Told' /\ Kept
    <2> DEFINE state == [stripe[s] EXCEPT !.status = "canceled"]
               types == <<"deleted">>
    <2>1. state \in Row /\ stripe[s] # NoRow
      BY <1>4, <1>c, <1>s DEF StripeCancels, Row
    <2>2. types \in Seq(Types) /\ types # <<>>
      BY DEF Types
    <2>3. Change(s, state, types) /\ bills' = bills /\ unpriced' = unpriced
      BY <1>4 DEF StripeCancels, history
    <2>4. \A k \in DOMAIN types : types[k] # "paid" /\ types[k] # "failed"
      OBVIOUS
    <2> HIDE DEF state, types
    <2> QED
      BY <2>1, <2>2, <2>3, <2>4, ChangeTold
  <1>5. CASE ApiStripe
    <2>1. CASE stripe[api.read.sub].status = "canceled"
      <3>1. UNCHANGED <<remote, unpriced>> /\ api' = Idle
        BY <1>5, <2>1 DEF ApiStripe
      <3>2. api'.at # "commit"
        BY <3>1 DEF Idle
      <3> QED
        BY <1>u, <3>1, <3>2
    <2>2. CASE stripe[api.read.sub].status # "canceled"
      <3>1. PICK state \in Row, types \in Seq(Types) : Carries(state, types)
        BY <1>5, <2>2, ApiChange
      <3>s. PICK s \in Subs : s = api.read.sub
        BY <3>1 DEF Carries
      <3>0. Len(<<"deleted">>) = 1 /\ Len(<<"updated">>) = 1 /\ Len(<<>>) = 0
        OBVIOUS
      <3>2. /\ Change(s, state, types) /\ bills' = bills /\ unpriced \subseteq unpriced' /\ stripe[s] # NoRow
            /\ types = <<>> => state = stripe[s]
        <4>1. types # <<"deleted">> /\ types # <<"updated">> => state = stripe[s]
          BY <3>1, <3>s DEF Carries
        <4>2. types = <<>> => types # <<"deleted">> /\ types # <<"updated">>
          BY <3>0
        <4>3. Change(s, state, types) /\ bills' = bills /\ stripe[s] # NoRow
          BY <3>1, <3>s DEF Carries
        <4>4. unpriced \subseteq unpriced'
          BY <3>1 DEF Carries
        <4> QED
          BY <4>1, <4>2, <4>3, <4>4
      <3>3. \A k \in DOMAIN types : types[k] # "paid" /\ types[k] # "failed"
        BY <3>1 DEF Carries
      <3>4. types = <<>> => state.plan \in Bought
        BY <3>2 DEF Told
      <3>5. Told' /\ Kept /\ state.plan \in Bought'
        BY <3>2, <3>3, <3>4, ChangeTold
      <3>6. api.edit.op = "change_plan" => api.edit.plan = state.plan \/ api.edit.plan \in unpriced'
        <4>1. CASE Unpriced(api.edit)
          BY <3>1, <4>1 DEF Carries
        <4>2. CASE ~Unpriced(api.edit)
          <5>1. state = Edit(api.edit, stripe[api.read.sub])
            BY <3>1, <4>2 DEF Carries, Charged
          <5>2. api.edit \in Edits /\ stripe[api.read.sub] \in Row
            BY <3>1 DEF Carries
          <5> QED
            BY <5>1, <5>2, EditType
        <4> QED
          BY <4>1, <4>2
      <3> QED
        BY <3>5, <3>6 DEF Offered
    <2> QED
      BY <2>1, <2>2
  <1>6. ASSUME Webhook \/ (\E edit \in Edits : ApiRead(edit)) \/ ApiCommit \/ ApiFails \/ UNCHANGED vars
        PROVE  Told' /\ Kept
    <2>1. UNCHANGED <<remote, unpriced>>
      BY <1>6 DEF Webhook, Redeliver, Deliver, UpsertInvoice, Handle, Swallow, ApiRead, ApiCommit, ApiFails, vars, history
    <2> QED
      BY <1>u, <2>1
  <1> QED
    BY <1>1, <1>2, <1>3, <1>4, <1>5, <1>6 DEF Next, Stripe, Api

-----------------------------------------------------------------------------
(* What a handler or a call writes is a row that Stripe backs.             *)
LEMMA KnownStep ==
    ASSUME TypeOK, Known, Told, Told', Kept, [Next]_vars,
           ApiStripe /\ api'.at = "commit" /\ api.edit.op = "change_plan" => api.edit.plan \in Offered'
    PROVE  Known'
  <1> DEFINE Back(r) == stripe'[r.sub] # NoRow /\ r.plan \in Offered'
  <1>b. \A r \in Row : Backed(r) => Back(r)
    BY KeptBacked
  <1>p. Bought \subseteq Offered' /\ Offered \subseteq Offered'
    BY DEF Kept, Bought, Offered
  <1>r. (row # NoRow => Back(row)) /\ \A w \in Workers : seen[w] # NoRow => Back(seen[w])
    BY <1>b DEF Known, TypeOK
  <1>a. api # Idle => /\ api \in [at : {"stripe", "commit"}, edit : Edits, read : Row]
                      /\ row # NoRow /\ Back(api.read)
    BY <1>b DEF Known, TypeOK
  <1>i. Idle.at = "idle"
    BY DEF Idle
  <1>e. api.at = "commit" /\ api.edit.op = "change_plan" => api.edit.plan \in Offered'
    BY <1>p DEF Known
  <1> HIDE DEF Back
  <1>k. ASSUME row' # NoRow => Back(row'),
               \A w \in Workers : seen'[w] # NoRow => Back(seen'[w]),
               api' # Idle => row' # NoRow /\ Back(api'.read),
               api'.at = "commit" /\ api'.edit.op = "change_plan" => api'.edit.plan \in Offered'
        PROVE  Known'
    BY <1>k DEF Known, Backed, Back
  <1>1. ASSUME UNCHANGED <<row, api>>, \A w \in Workers : seen'[w] \in {seen[w], row, NoRow}
        PROVE  Known'
    BY <1>1, <1>k, <1>r, <1>a, <1>e
  <1>2. CASE Stripe \/ UNCHANGED vars
    <2>1. UNCHANGED <<row, api, seen>>
      BY <1>2 DEF Stripe, Checkout, RenewalFails, RenewalPaid, StripeCancels, vars, local, workers
    <2> QED
      BY <1>1, <2>1
  <1>3. ASSUME NEW i \in DOMAIN log, NEW w \in Workers, Deliver(w, i) PROVE Known'
    <2>1. UNCHANGED <<row, api>> /\ seen' = [seen EXCEPT ![w] = row]
      BY <1>3 DEF Deliver, local
    <2> QED
      BY <1>1, <2>1 DEF TypeOK
  <1>w. ASSUME NEW w \in Workers, UpsertInvoice(w) PROVE Known'
    <2>1. UNCHANGED <<row, api>> /\ seen' = [seen EXCEPT ![w] = row]
      BY <1>w DEF UpsertInvoice
    <2> QED
      BY <1>1, <2>1 DEF TypeOK
  <1>4. ASSUME NEW i \in DOMAIN log, Redeliver(i) PROVE Known'
    BY <1>4, <1>1 DEF Redeliver, local
  <1>5. ASSUME NEW w \in Workers, Swallow(w) PROVE Known'
    <2>1. UNCHANGED <<row, api>> /\ seen' = [seen EXCEPT ![w] = NoRow]
      BY <1>5 DEF Swallow, Acknowledge, local
    <2> QED
      BY <1>1, <2>1 DEF TypeOK
  <1>6. ASSUME NEW w \in Workers, Handle(w) PROVE Known'
    <2> DEFINE e   == log[handling[w]]
               new == Handled(e, seen[w])
    <2>1. /\ e \in Event /\ seen[w] \in Row \union {NoRow} /\ row \in Row \union {NoRow}
          /\ stripe'[e.sub] # NoRow /\ e.plan \in Offered'
      <3>1. handling[w] \in DOMAIN log
        BY <1>6 DEF Handle, TypeOK
      <3>2. e \in Event /\ e.sub \in Subs /\ stripe[e.sub] # NoRow /\ e.plan \in Bought
        BY <3>1, LogEvents DEF Told, Bought
      <3> QED
        BY <3>2, <1>p DEF Kept, TypeOK
    <2>2. /\ new \in Row \union {NoRow} /\ (seen[w] \in Row => new \in Row)
          /\ new # NoRow /\ seen[w] = NoRow => new.sub = e.sub /\ new.plan = e.plan
          /\ seen[w] # NoRow => new.sub \in {seen[w].sub, e.sub} /\ new.plan \in {seen[w].plan, e.plan}
      BY <2>1, HandledType
    <2> HIDE DEF new
    <2>3. new # NoRow => Back(new)
      BY <2>1, <2>2, <1>r DEF Back
    <2>4. /\ row' = IF seen[w] = NoRow \/ row = NoRow
                    THEN IF new = NoRow THEN row ELSE new
                    ELSE Flush(seen[w], new, row)
          /\ seen' = [seen EXCEPT ![w] = NoRow] /\ api' = api
      BY <1>6 DEF Handle, Acknowledge, new
    <2>5. (row # NoRow => row' # NoRow) /\ (row' # NoRow => Back(row'))
      <3>1. CASE seen[w] = NoRow \/ row = NoRow
        BY <1>r, <2>3, <2>4, <3>1
      <3>2. CASE seen[w] # NoRow /\ row # NoRow
        <4>1. seen[w] \in Row /\ row \in Row /\ new \in Row /\ new # NoRow /\ Back(new) /\ Back(row)
          BY <1>r, <2>1, <2>2, <2>3, <3>2, RowShape
        <4>2. row' = Flush(seen[w], new, row)
          BY <2>4, <3>2
        <4>3. row' \in Row /\ row'.sub \in {new.sub, row.sub} /\ row'.plan \in {new.plan, row.plan}
          BY <4>1, <4>2, FlushType
        <4> QED
          BY <4>1, <4>3, RowShape DEF Back
      <3> QED
        BY <3>1, <3>2
    <2>6. \A v \in Workers : seen'[v] # NoRow => Back(seen'[v])
      BY <2>4, <1>r DEF TypeOK
    <2>7. /\ api' # Idle => row' # NoRow /\ Back(api'.read)
          /\ api'.at = "commit" /\ api'.edit.op = "change_plan" => api'.edit.plan \in Offered'
      BY <2>4, <2>5, <1>a, <1>e
    <2> QED
      BY <1>k, <2>5, <2>6, <2>7
  <1>7. ASSUME NEW edit \in Edits, ApiRead(edit) PROVE Known'
    <2>1. /\ api' = [at |-> "stripe", edit |-> edit, read |-> row] /\ row # NoRow
          /\ UNCHANGED <<row, seen>>
      BY <1>7 DEF ApiRead, local, workers
    <2>2. api'.at # "commit" /\ api'.read = row
      BY <2>1
    <2> QED
      BY <1>k, <1>r, <2>1, <2>2
  <1>8. CASE ApiStripe
    <2>1. api \in [at : {"stripe", "commit"}, edit : Edits, read : Row] /\ api # Idle /\ api.at = "stripe"
      BY <1>8, <1>a, <1>i DEF ApiStripe
    <2>2. api' = Idle \/ api' = [api EXCEPT !.at = "commit"]
      BY <1>8 DEF ApiStripe
    <2>3. UNCHANGED <<row, seen>>
      BY <1>8 DEF ApiStripe, local, workers
    <2>4. CASE api' = Idle
      <3>1. api'.at # "commit"
        BY <1>i, <2>4
      <3> QED
        BY <1>k, <1>r, <2>3, <2>4, <3>1
    <2>5. CASE api' = [api EXCEPT !.at = "commit"]
      <3>1. api'.at = "commit" /\ api'.edit = api.edit /\ api'.read = api.read
        BY <2>1, <2>5
      <3> QED
        BY <1>8, <1>k, <1>r, <1>a, <2>1, <2>3, <3>1
    <2> QED
      BY <2>2, <2>4, <2>5
  <1>9. CASE ApiCommit
    <2> DEFINE new == Edit(api.edit, api.read)
    <2>1. /\ api.edit \in Edits /\ api.read \in Row /\ row \in Row /\ row # NoRow /\ Back(api.read) /\ Back(row)
          /\ api.at = "commit"
      BY <1>9, <1>a, <1>i, <1>r DEF ApiCommit, TypeOK
    <2>2. new \in Row /\ new.sub = api.read.sub /\ Back(new)
      BY <2>1, <1>e, EditType DEF Back
    <2>3. row' = Flush(api.read, new, row) /\ api' = Idle /\ seen' = seen
      BY <1>9 DEF ApiCommit, workers
    <2> HIDE DEF new
    <2>4. row' \in Row /\ row'.sub \in {new.sub, row.sub} /\ row'.plan \in {new.plan, row.plan}
      BY <2>1, <2>2, <2>3, FlushType
    <2>5. Back(row')
      BY <2>1, <2>2, <2>4 DEF Back
    <2>6. api'.at # "commit"
      BY <1>i, <2>3
    <2> QED
      BY <1>k, <1>r, <2>3, <2>5, <2>6
  <1>10. CASE ApiFails
    <2>1. api' = Idle /\ UNCHANGED <<row, seen>>
      BY <1>10 DEF ApiFails, local, workers
    <2>2. api'.at # "commit"
      BY <1>i, <2>1
    <2> QED
      BY <1>k, <1>r, <2>1, <2>2
  <1>11. CASE Webhook
    BY <1>11, <1>3, <1>4, <1>5, <1>6, <1>w DEF Webhook
  <1>12. CASE Api
    BY <1>12, <1>7, <1>8, <1>9, <1>10 DEF Api
  <1> QED
    BY <1>2, <1>11, <1>12 DEF Next

(* What is written of an invoice is what an event tells of it. *)
LEMMA InvoicedStep ==
    ASSUME TypeOK, Told, Invoiced, Kept, [Next]_vars
    PROVE  Invoiced'
  <1>1. \A s \in Subs : /\ invoices[s] # "none" => bills'[s] # "none"
                        /\ invoices[s] = "paid" => bills'[s] = "paid"
    BY DEF Invoiced, Kept
  <1>h. ASSUME NEW w \in Workers, handling[w] # 0
        PROVE  handling[w] \in DOMAIN log /\ log'[handling[w]] = log[handling[w]]
    BY <1>h DEF TypeOK, Kept
  <1>2. ASSUME invoices' = invoices,
               \A w \in Workers : handling'[w] # 0 /\ billing'[w] # "done" =>
                   handling'[w] = handling[w] /\ billing'[w] = billing[w]
        PROVE  Invoiced'
    BY <1>1, <1>2, <1>h DEF Invoiced
  <1>3. ASSUME NEW i \in DOMAIN log, NEW w \in Workers, Deliver(w, i) PROVE Invoiced'
    <2>1. /\ handling' = [handling EXCEPT ![w] = i] /\ log' = log /\ invoices' = invoices
          /\ billing' = [billing EXCEPT ![w] = IF OfInvoice(log[i]) THEN invoices[log[i].sub] ELSE "done"]
      BY <1>3 DEF Deliver, remote, local
    <2>2. \A v \in Workers : handling'[v] # 0 /\ billing'[v] # "done" => OfInvoice(log'[handling'[v]])
      BY <2>1 DEF Invoiced, TypeOK
    <2> QED
      BY <1>1, <2>1, <2>2 DEF Invoiced
  <1>4. ASSUME NEW w \in Workers, UpsertInvoice(w) PROVE Invoiced'
    <2> DEFINE e == log[handling[w]]
    <2>1. /\ handling' = handling /\ log' = log /\ bills' = bills /\ billing' = [billing EXCEPT ![w] = "done"]
          /\ invoices' = invoices \/ invoices' = [invoices EXCEPT ![e.sub] = Billed(e)]
          /\ handling[w] # 0 /\ billing[w] # "done"
      BY <1>4 DEF UpsertInvoice, remote
    <2>2. e.type \in {"paid", "failed"} /\ handling[w] \in DOMAIN log
      BY <2>1, <1>h DEF Invoiced, OfInvoice
    <2>3. e.sub \in Subs
      BY <2>2, LogEvents
    <2>4. (Billed(e) = "paid" => bills[e.sub] = "paid") /\ bills[e.sub] # "none"
      BY <2>2 DEF Told, Billed
    <2>5. \A v \in Workers : handling'[v] # 0 /\ billing'[v] # "done" => OfInvoice(log'[handling'[v]])
      BY <2>1 DEF Invoiced, TypeOK
    <2> HIDE DEF e
    <2>6. \A s \in Subs : /\ invoices'[s] # "none" => bills'[s] # "none"
                          /\ invoices'[s] = "paid" => bills'[s] = "paid"
      BY <1>1, <2>1, <2>3, <2>4 DEF TypeOK
    <2> QED
      BY <2>5, <2>6 DEF Invoiced
  <1>5. ASSUME NEW w \in Workers, Handle(w) \/ Swallow(w) PROVE Invoiced'
    <2>1. /\ invoices' = invoices /\ handling' = [handling EXCEPT ![w] = 0]
          /\ billing' = [billing EXCEPT ![w] = "done"]
      BY <1>5 DEF Handle, Swallow, Acknowledge, local
    <2> QED
      BY <1>2, <2>1 DEF TypeOK
  <1>6. ASSUME Stripe \/ (\E i \in DOMAIN log : Redeliver(i)) \/ Api \/ UNCHANGED vars
        PROVE  Invoiced'
    <2>1. UNCHANGED <<invoices, handling, billing>>
      BY <1>6 DEF Stripe, Checkout, RenewalFails, RenewalPaid, StripeCancels, Redeliver,
                  Api, ApiRead, ApiStripe, ApiCommit, ApiFails, vars, local, workers
    <2> QED
      BY <1>2, <2>1
  <1> QED
    BY <1>3, <1>4, <1>5, <1>6 DEF Next, Webhook

-----------------------------------------------------------------------------
(* The inductive invariant: Stripe's log is true, and what is held, read or *)
(* about to be committed is backed by it.                                  *)
Faithful == TypeOK /\ Known /\ Told /\ Invoiced

LEMMA FaithfulStep == Faithful /\ [Next]_vars => Faithful'
  <1> SUFFICES ASSUME TypeOK, Known, Told, Invoiced, [Next]_vars PROVE Faithful'
    BY DEF Faithful
  <1>1. /\ Told' /\ Kept
        /\ ApiStripe /\ api'.at = "commit" /\ api.edit.op = "change_plan" => api.edit.plan \in Offered'
    BY ToldStep
  <1>2. Known'
    BY <1>1, KnownStep
  <1>3. TypeOK' /\ Invoiced'
    BY <1>1, TypeStep, InvoicedStep
  <1> QED
    BY <1>1, <1>2, <1>3 DEF Faithful

LEMMA FaithfulAlways == Spec => []Faithful
  <1>1. Init => Faithful
    BY TypeInit DEF Faithful
  <1> QED
    BY <1>1, FaithfulStep, PTL DEF Spec

(* The tables keep their types whatever Stripe sends and however the        *)
(* handlers and the calls interleave (models.py, webhook_handler.py).      *)
THEOREM TypeCorrect == Spec => []TypeOK
  <1>1. Faithful => TypeOK
    BY DEF Faithful
  <1> QED
    BY <1>1, FaithfulAlways, PTL

(* Concurrent, repeated, reordered and failing handlers and calls may mix   *)
(* columns of several reads in the row, and still no subscription or paid  *)
(* invoice is shown that Stripe never had, and no plan but those and the   *)
(* plans without a price that a call changed to (webhook_handler.py:63,    *)
(* 128-134, 156-161, 197-236, service.py:113-132).                         *)
THEOREM Genuine == Spec => []NothingMadeUp
  <1>1. Faithful => NothingMadeUp
    BY DEF Faithful, Known, Backed, Invoiced, NothingMadeUp
  <1> QED
    BY <1>1, FaithfulAlways, PTL

-----------------------------------------------------------------------------
(* An event that says so is of a subscription that Stripe has canceled.    *)
Ended ==
    \A i \in DOMAIN log :
        log[i].type = "deleted" \/ log[i].status = "canceled" => stripe[log[i].sub].status = "canceled"

(* While handlers and calls commit one after the other, a handler has read *)
(* the row as it still is, and who is about to commit a cancellation has   *)
(* carried it out.                                                         *)
Serial ==
    mode # "concurrent" /\ overtaken = {} =>
        /\ \A v, w \in Workers : handling[v] # 0 /\ handling[w] # 0 => v = w
        /\ \A w \in Workers : handling[w] # 0 => seen[w] = row
        /\ row # NoRow /\ row.status = "canceled" => stripe[row.sub].status = "canceled"
        /\ api.at = "commit" /\ api.edit.op = "cancel_now" => stripe[api.read.sub].status = "canceled"

(* A handler makes a row canceled by an event that says so.                *)
LEMMA HandledCanceled ==
    ASSUME NEW e \in Event, NEW r \in Row \union {NoRow},
           Handled(e, r) # NoRow, Handled(e, r).status = "canceled"
    PROVE  \/ Handled(e, r).sub = e.sub /\ (e.type = "deleted" \/ e.status = "canceled")
           \/ r # NoRow /\ Handled(e, r).sub = r.sub /\ r.status = "canceled"
  <1>1. CASE Provisions(e)
    <2>1. Handled(e, r).sub = e.sub /\ Handled(e, r).status = (IF e.type = "checkout" THEN "active" ELSE e.status)
      BY <1>1 DEF Handled
    <2> QED
      BY <2>1
  <1>2. CASE ~Provisions(e) /\ ~Mine(e, r)
    <2>1. Handled(e, r) = r
      BY <1>2 DEF Handled
    <2> QED
      BY <2>1
  <1>3. CASE ~Provisions(e) /\ Mine(e, r)
    <2>1. r \in Row /\ r.sub = e.sub /\ r # NoRow
      BY <1>3 DEF Mine
    <2>2. e.type \in {"updated", "deleted", "failed", "paid"}
      BY <1>3 DEF Event, Types, Provisions
    <2>3. CASE e.type = "updated"
      <3>1. Handled(e, r) = Updated(e, r)
        BY <1>3, <2>3 DEF Handled
      <3> QED
        BY <2>1, <3>1 DEF Updated, Row
    <2>4. CASE e.type = "deleted"
      <3>1. Handled(e, r) = Deleted(r)
        BY <1>3, <2>4 DEF Handled
      <3> QED
        BY <2>1, <2>4, <3>1 DEF Deleted, Row
    <2>5. CASE e.type = "failed"
      <3>1. Handled(e, r) = [r EXCEPT !.status = "past_due"]
        BY <1>3, <2>5 DEF Handled
      <3> QED
        BY <2>1, <3>1 DEF Row
    <2>6. CASE e.type = "paid"
      <3>1. Handled(e, r) = [r EXCEPT !.status = IF @ = "past_due" THEN "active" ELSE @]
        BY <1>3, <2>6 DEF Handled
      <3> QED
        BY <2>1, <3>1 DEF Row
    <2> QED
      BY <2>2, <2>3, <2>4, <2>5, <2>6
  <1> QED
    BY <1>1, <1>2, <1>3

(* A canceled subscription stays canceled, and only one is told to be so.  *)
LEMMA ChangeEnded ==
    ASSUME TypeOK, Told, Ended,
           NEW s \in Subs, stripe[s] # NoRow, stripe[s].status # "canceled",
           NEW state \in Row, NEW types \in Seq(Types), Change(s, state, types),
           \A k \in DOMAIN types : types[k] = "deleted" => state.status = "canceled"
    PROVE  /\ Ended' /\ stripe'[s] = state
           /\ \A v \in Subs : stripe[v].status = "canceled" => stripe'[v].status = "canceled"
  <1>1. Grows(s, state, types)
    BY ChangeGrows DEF TypeOK
  <1>2. stripe' = [stripe EXCEPT ![s] = state]
    BY DEF Change
  <1>3. /\ stripe'[s] = state
        /\ \A v \in Subs : stripe[v].status = "canceled" => stripe'[v].status = "canceled"
    BY <1>2 DEF TypeOK
  <1>4. ASSUME NEW i \in DOMAIN log', log'[i].type = "deleted" \/ log'[i].status = "canceled"
        PROVE  stripe'[log'[i].sub].status = "canceled"
    <2>1. CASE i \in DOMAIN log
      <3>1. log'[i] = log[i] /\ log[i].sub \in Subs
        BY <1>1, <2>1, LogEvents DEF Grows
      <3> QED
        BY <1>3, <1>4, <2>1, <3>1 DEF Ended
    <2>2. CASE i \notin DOMAIN log
      <3>1. Tells(i, s, state) /\ \E k \in DOMAIN types : log'[i].type = types[k]
        BY <1>1, <2>2 DEF Grows
      <3> QED
        BY <1>3, <1>4, <3>1 DEF Tells
    <2> QED
      BY <2>1, <2>2
  <1> QED
    BY <1>3, <1>4 DEF Ended

LEMMA EndedStep ==
    ASSUME TypeOK, Known, Told, Ended, [Next]_vars
    PROVE  /\ Ended'
           /\ \A v \in Subs : stripe[v] # NoRow /\ stripe[v].status = "canceled" => stripe'[v].status = "canceled"
           /\ ApiStripe /\ api'.at = "commit" /\ api.edit.op = "cancel_now"
                 => stripe'[api.read.sub].status = "canceled"
  <1> DEFINE Stays == \A v \in Subs : stripe[v] # NoRow /\ stripe[v].status = "canceled"
                                         => stripe'[v].status = "canceled"
  <1>c. ASSUME NEW s \in Subs, NEW status, Has(s, status)
        PROVE  stripe[s] \in Row /\ stripe[s] # NoRow /\ stripe[s].status = status
    BY <1>c DEF Has, TypeOK
  <1>s. {"active", "past_due", "canceled", "incomplete"} = Statuses
    BY DEF Statuses
  <1>u. ASSUME UNCHANGED remote PROVE Ended' /\ Stays
    BY <1>u DEF remote, Ended
  <1>1. ASSUME NEW s \in Subs, NEW p \in Priced, Checkout(s, p) PROVE Ended' /\ Stays
    <2>0. Sold(s, p)
      BY <1>1, CheckoutGrows
    <2>1. \E state \in Row : stripe' = [stripe EXCEPT ![s] = state]
      BY <2>0 DEF Sold
    <2>2. \A v \in Subs : stripe[v] # NoRow => stripe'[v] = stripe[v]
      BY <2>0, <2>1 DEF Sold, TypeOK
    <2>3. ASSUME NEW i \in DOMAIN log', log'[i].type = "deleted" \/ log'[i].status = "canceled"
          PROVE  stripe'[log'[i].sub].status = "canceled"
      <3>1. i \in DOMAIN log /\ log'[i] = log[i]
        BY <2>0, <2>3 DEF Sold
      <3>2. log[i].sub \in Subs /\ stripe[log[i].sub] # NoRow
        BY <3>1, LogEvents DEF Told
      <3> QED
        BY <2>2, <2>3, <3>1, <3>2 DEF Ended
    <2> QED
      BY <2>2, <2>3 DEF Ended
  <1>2. ASSUME NEW s \in Subs, RenewalFails(s) PROVE Ended' /\ Stays
    <2> DEFINE state == [stripe[s] EXCEPT !.status = "past_due"]
               types == <<"updated", "failed">>
    <2>1. state \in Row /\ stripe[s] # NoRow /\ stripe[s].status # "canceled"
      BY <1>2, <1>c, <1>s DEF RenewalFails, Row
    <2>2. types \in Seq(Types) /\ \A k \in DOMAIN types : types[k] # "deleted"
      BY DEF Types
    <2>3. Change(s, state, types)
      BY <1>2 DEF RenewalFails
    <2> HIDE DEF state, types
    <2> QED
      BY <2>1, <2>2, <2>3, ChangeEnded
  <1>3. ASSUME NEW s \in Subs, RenewalPaid(s) PROVE Ended' /\ Stays
    <2> DEFINE state == [stripe[s] EXCEPT !.status = "active"]
               types == <<"updated", "paid">>
    <2>1. state \in Row /\ stripe[s] # NoRow /\ stripe[s].status # "canceled"
      BY <1>3, <1>c, <1>s DEF RenewalPaid, Row
    <2>2. types \in Seq(Types) /\ \A k \in DOMAIN types : types[k] # "deleted"
      BY DEF Types
    <2>3. Change(s, state, types)
      BY <1>3 DEF RenewalPaid
    <2> HIDE DEF state, types
    <2> QED
      BY <2>1, <2>2, <2>3, ChangeEnded
  <1>4. ASSUME NEW s \in Subs, StripeCancels(s) PROVE Ended' /\ Stays
    <2> DEFINE state == [stripe[s] EXCEPT !.status = "canceled"]
               types == <<"deleted">>
    <2>1. state \in Row /\ stripe[s] # NoRow /\ stripe[s].status # "canceled" /\ state.status = "canceled"
      BY <1>4, <1>c, <1>s DEF StripeCancels, Row
    <2>2. types \in Seq(Types)
      BY DEF Types
    <2>3. Change(s, state, types)
      BY <1>4 DEF StripeCancels
    <2> HIDE DEF state, types
    <2> QED
      BY <2>1, <2>2, <2>3, ChangeEnded
  <1>5. CASE ApiStripe
    <2>1. CASE stripe[api.read.sub].status = "canceled"
      <3>1. UNCHANGED remote /\ api' = Idle
        BY <1>5, <2>1 DEF ApiStripe
      <3>2. api'.at # "commit"
        BY <3>1 DEF Idle
      <3> QED
        BY <1>u, <3>1, <3>2
    <2>2. CASE stripe[api.read.sub].status # "canceled"
      <3>1. PICK state \in Row, types \in Seq(Types) : Carries(state, types)
        BY <1>5, <2>2, ApiChange
      <3>s. PICK s \in Subs : s = api.read.sub
        BY <3>1 DEF Carries
      <3>2. /\ Change(s, state, types) /\ stripe[s] # NoRow /\ stripe[s].status # "canceled"
            /\ api.edit.op = "cancel_now" => state.status = "canceled"
        BY <2>2, <3>1, <3>s DEF Carries
      <3>3. \A k \in DOMAIN types : types[k] = "deleted" => state.status = "canceled"
        BY <3>1 DEF Carries
      <3>4. Ended' /\ stripe'[s] = state
            /\ \A v \in Subs : stripe[v].status = "canceled" => stripe'[v].status = "canceled"
        BY <3>2, <3>3, ChangeEnded
      <3> QED
        BY <3>2, <3>4, <3>s
    <2> QED
      BY <2>1, <2>2
  <1>6. ASSUME Webhook \/ (\E edit \in Edits : ApiRead(edit)) \/ ApiCommit \/ ApiFails \/ UNCHANGED vars
        PROVE  Ended' /\ Stays
    <2>1. UNCHANGED remote
      BY <1>6 DEF Webhook, Redeliver, Deliver, UpsertInvoice, Handle, Swallow, ApiRead, ApiCommit, ApiFails, vars
    <2> QED
      BY <1>u, <2>1
  <1> QED
    BY <1>1, <1>2, <1>3, <1>4, <1>5, <1>6 DEF Next, Stripe, Api

(* Handlers and calls that do not overlap show what Stripe did.            *)
LEMMA SerialStep ==
    ASSUME TypeOK, Known, Told, Ended, Serial, [Next]_vars,
           \A v \in Subs : stripe[v] # NoRow /\ stripe[v].status = "canceled" => stripe'[v].status = "canceled",
           ApiStripe /\ api'.at = "commit" /\ api.edit.op = "cancel_now"
               => stripe'[api.read.sub].status = "canceled"
    PROVE  Serial'
  <1> SUFFICES ASSUME mode' # "concurrent", overtaken' = {}
               PROVE  /\ \A v, w \in Workers : handling'[v] # 0 /\ handling'[w] # 0 => v = w
                      /\ \A w \in Workers : handling'[w] # 0 => seen'[w] = row'
                      /\ row' # NoRow /\ row'.status = "canceled" => stripe'[row'.sub].status = "canceled"
                      /\ api'.at = "commit" /\ api'.edit.op = "cancel_now"
                            => stripe'[api'.read.sub].status = "canceled"
    BY DEF Serial
  <1>m. mode' = mode /\ overtaken \subseteq overtaken'
    BY DEF Next, Stripe, Checkout, RenewalFails, RenewalPaid, StripeCancels,
           Webhook, Redeliver, Deliver, UpsertInvoice, Handle, Swallow,
           Api, ApiRead, ApiStripe, ApiCommit, ApiFails, vars, history
  <1>o. mode # "concurrent" /\ overtaken = {}
    BY <1>m
  <1>i. Idle.at = "idle"
    BY DEF Idle
  <1>h. /\ \A v, w \in Workers : handling[v] # 0 /\ handling[w] # 0 => v = w
        /\ \A w \in Workers : handling[w] # 0 => seen[w] = row
    BY <1>o DEF Serial
  <1>r. row # NoRow /\ row.status = "canceled" => stripe'[row.sub].status = "canceled"
    <2>1. row # NoRow => row.sub \in Subs /\ stripe[row.sub] # NoRow
      BY DEF TypeOK, Known, Backed, Row
    <2> QED
      BY <1>o, <2>1 DEF Serial
  <1>a. api.at = "commit" => api \in [at : {"stripe", "commit"}, edit : Edits, read : Row] /\ api # Idle
    BY <1>i DEF TypeOK
  <1>c. api.at = "commit" /\ api.edit.op = "cancel_now" => stripe'[api.read.sub].status = "canceled"
    <2>1. api.at = "commit" => api.read.sub \in Subs /\ stripe[api.read.sub] # NoRow
      BY <1>a DEF Known, Backed, Row
    <2> QED
      BY <1>o, <2>1 DEF Serial
  <1>1. CASE Stripe \/ UNCHANGED vars
    <2>1. UNCHANGED <<row, api, seen, handling>>
      BY <1>1 DEF Stripe, Checkout, RenewalFails, RenewalPaid, StripeCancels, vars, local, workers
    <2> QED
      BY <1>h, <1>r, <1>c, <2>1
  <1>2. ASSUME NEW i \in DOMAIN log, NEW w \in Workers, Deliver(w, i) PROVE Serial'
    <2>1. /\ UNCHANGED <<row, api>> /\ seen' = [seen EXCEPT ![w] = row] /\ handling' = [handling EXCEPT ![w] = i]
          /\ \A v \in Workers : handling[v] = 0
      BY <1>2, <1>o DEF Deliver, MayDeliver, local
    <2> QED
      BY <1>r, <1>c, <2>1 DEF Serial, TypeOK
  <1>3. ASSUME NEW w \in Workers, UpsertInvoice(w) PROVE Serial'
    <2>1. UNCHANGED <<row, api, handling>> /\ seen' = [seen EXCEPT ![w] = row]
      BY <1>3 DEF UpsertInvoice
    <2> QED
      BY <1>h, <1>r, <1>c, <2>1 DEF Serial, TypeOK
  <1>4. ASSUME NEW i \in DOMAIN log, Redeliver(i) PROVE Serial'
    <2>1. UNCHANGED <<row, api, seen, handling>>
      BY <1>4 DEF Redeliver, local
    <2> QED
      BY <1>h, <1>r, <1>c, <2>1 DEF Serial
  <1>5. ASSUME NEW w \in Workers, Swallow(w) PROVE Serial'
    <2>1. /\ UNCHANGED <<row, api>> /\ seen' = [seen EXCEPT ![w] = NoRow]
          /\ handling' = [handling EXCEPT ![w] = 0]
      BY <1>5 DEF Swallow, Acknowledge, local
    <2> QED
      BY <1>h, <1>r, <1>c, <2>1 DEF Serial, TypeOK
  <1>6. ASSUME NEW w \in Workers, Handle(w) PROVE Serial'
    <2> DEFINE e   == log[handling[w]]
               new == Handled(e, row)
    <2>1. /\ seen' = [seen EXCEPT ![w] = NoRow] /\ handling' = [handling EXCEPT ![w] = 0]
          /\ handling[w] # 0 /\ UNCHANGED <<api, stripe>>
      BY <1>6 DEF Handle, Acknowledge, remote
    <2>2. seen[w] = row
      BY <1>h, <2>1
    <2>3. row' = IF row = NoRow THEN IF new = NoRow THEN row ELSE new ELSE Flush(row, new, row)
      BY <1>6, <2>2 DEF Handle
    <2>4. e \in Event /\ e.sub \in Subs
          /\ (e.type = "deleted" \/ e.status = "canceled" => stripe'[e.sub].status = "canceled")
      <3>1. handling[w] \in DOMAIN log
        BY <2>1 DEF TypeOK
      <3> QED
        BY <2>1, <3>1, LogEvents DEF Ended
    <2>5. row \in Row \union {NoRow}
      BY DEF TypeOK
    <2>6. new \in Row \union {NoRow} /\ (row \in Row => new \in Row)
      BY <2>4, <2>5, HandledType
    <2>7. new # NoRow /\ new.status = "canceled" => stripe'[new.sub].status = "canceled"
      BY <1>r, <2>4, <2>5, HandledCanceled
    <2> HIDE DEF new
    <2>8. row' # NoRow /\ row'.status = "canceled" => stripe'[row'.sub].status = "canceled"
      <3>1. CASE row = NoRow
        BY <1>r, <2>3, <2>7, <3>1
      <3>2. CASE row # NoRow
        <4>1. row \in Row /\ new \in Row /\ new # NoRow
          BY <2>5, <2>6, <3>2, RowShape
        <4>2. row' = Flush(row, new, row)
          BY <2>3, <3>2
        <4>3. row'.sub = new.sub /\ row'.status = new.status
          BY <4>1, <4>2, FlushType
        <4> QED
          BY <2>7, <4>1, <4>3
      <3> QED
        BY <3>1, <3>2
    <2>9. \A v \in Workers : handling'[v] = 0
      BY <1>h, <2>1 DEF TypeOK
    <2> QED
      BY <1>c, <2>1, <2>8, <2>9 DEF Serial
  <1>7. ASSUME NEW edit \in Edits, ApiRead(edit) PROVE Serial'
    <2>1. /\ api' = [at |-> "stripe", edit |-> edit, read |-> row]
          /\ UNCHANGED <<row, seen, handling>>
      BY <1>7 DEF ApiRead, local, workers
    <2>2. api'.at # "commit"
      BY <2>1
    <2> QED
      BY <1>h, <1>r, <2>1, <2>2 DEF Serial
  <1>8. CASE ApiStripe
    <2>1. UNCHANGED <<row, seen, handling>> /\ (api' = Idle \/ api' = [api EXCEPT !.at = "commit"])
      BY <1>8 DEF ApiStripe, local, workers
    <2>2. api \in [at : {"stripe", "commit"}, edit : Edits, read : Row]
      BY <1>8, <1>i DEF ApiStripe, TypeOK
    <2>3. api'.at = "commit" => api'.edit = api.edit /\ api'.read = api.read
      BY <1>i, <2>1, <2>2
    <2> QED
      BY <1>8, <1>h, <1>r, <2>1, <2>3
  <1>9. CASE ApiCommit
    <2> DEFINE new == Edit(api.edit, api.read)
    <2>1. /\ row' = Flush(api.read, new, row) /\ api' = Idle /\ UNCHANGED <<seen, handling>> /\ api.at = "commit"
      BY <1>9 DEF ApiCommit, workers
    <2>2. row.sub = api.read.sub /\ \A w \in Workers : handling[w] = 0
      BY <1>9, <1>o DEF ApiCommit
    <2>3. /\ api.edit \in Edits /\ api.read \in Row /\ row \in Row /\ row # NoRow
      BY <1>a, <2>1 DEF Known, TypeOK
    <2>4. /\ new \in Row /\ new.sub = api.read.sub
          /\ new.status = IF api.edit.op = "cancel_now" THEN "canceled" ELSE api.read.status
      BY <2>3, EditType
    <2> HIDE DEF new
    <2>5. /\ row'.sub = row.sub
          /\ row'.status = IF new.status # api.read.status THEN new.status ELSE row.status
      BY <2>1, <2>2, <2>3, <2>4, FlushType
    <2>6. row'.status = "canceled" => stripe'[row'.sub].status = "canceled"
      BY <1>r, <1>c, <2>1, <2>2, <2>3, <2>4, <2>5
    <2>7. api'.at # "commit"
      BY <1>i, <2>1
    <2> QED
      BY <2>1, <2>2, <2>6, <2>7
  <1>10. CASE ApiFails
    <2>1. api' = Idle /\ UNCHANGED <<row, seen, handling>>
      BY <1>10 DEF ApiFails, local, workers
    <2>2. api'.at # "commit"
      BY <1>i, <2>1
    <2> QED
      BY <1>h, <1>r, <2>1, <2>2
  <1> USE DEF Serial
  <1>11. CASE Webhook
    BY <1>11, <1>2, <1>3, <1>4, <1>5, <1>6 DEF Webhook
  <1>12. CASE Api
    BY <1>12, <1>7, <1>8, <1>9, <1>10 DEF Api
  <1> QED
    BY <1>1, <1>11, <1>12 DEF Next

(* While handlers and calls commit one after the other, in whatever order   *)
(* the events come and however often, a row shows "canceled" only for a    *)
(* subscription that Stripe has canceled (webhook_handler.py:140-149,      *)
(* service.py:161-165).                                                    *)
THEOREM Canceled == Spec => []CanceledOnlyIfStripeDid
  <1> DEFINE Truth == Ended /\ Serial
  <1>1. Init => Truth
    <2> SUFFICES ASSUME Init PROVE Truth
      OBVIOUS
    <2>1. DOMAIN log = {} /\ api.at = "idle"
      BY EmptySeq DEF Init, Idle
    <2> QED
      BY <2>1 DEF Init, Ended, Serial
  <1>2. Faithful /\ Truth /\ [Next]_vars => Truth'
    <2> SUFFICES ASSUME Faithful, Truth, [Next]_vars PROVE Truth'
      OBVIOUS
    <2>1. TypeOK /\ Known /\ Told /\ Ended /\ Serial
      BY DEF Faithful
    <2>2. Ended' /\ Serial'
      BY <2>1, EndedStep, SerialStep
    <2> QED
      BY <2>2
  <1>3. Truth => CanceledOnlyIfStripeDid
    BY DEF Serial, CanceledOnlyIfStripeDid
  <1> QED
    BY <1>1, <1>2, <1>3, FaithfulAlways, PTL DEF Spec

-----------------------------------------------------------------------------
(* What an event brings of a subscription: the columns that its handler     *)
(* takes over.  A paid invoice brings none.                                *)
Facts == {"plan", "status", "ending"}

Brings(type) ==
    CASE type \in {"created", "checkout"} -> {"plan", "status"}
      [] type = "updated"                 -> Facts
      [] type \in {"deleted", "failed"}   -> {"status"}
      [] type = "paid"                    -> {}

(* An event's type and status agree. *)
Speaks(e) ==
    /\ e.type = "deleted" => e.status = "canceled"
    /\ e.type = "failed" => e.status = "past_due"
    /\ e.type \in {"checkout", "paid"} => e.status = "active"

LEMMA FlushFacts ==
    ASSUME NEW read \in Row, NEW new \in Row, NEW committed \in Row, NEW f \in Facts
    PROVE  Flush(read, new, committed)[f] = IF new[f] # read[f] THEN new[f] ELSE committed[f]
  BY RowShape DEF Flush, Facts, Columns

(* Whichever state an edit is applied to, it writes the same. *)
LEMMA EditFacts ==
    ASSUME NEW edit \in Edits, NEW r \in Row, NEW t \in Row, NEW f \in Facts,
           Edit(edit, r)[f] # r[f]
    PROVE  Edit(edit, t)[f] = Edit(edit, r)[f]
  BY DEF Edits, Edit, Row, Facts

(* An event of the row's subscription leaves what it brings, and what was   *)
(* there.                                                                  *)
LEMMA HandledFacts ==
    ASSUME NEW e \in Event, Speaks(e), NEW r \in Row, r.sub = e.sub, NEW f \in Facts
    PROVE  Handled(e, r)[f] = IF f \in Brings(e.type) THEN e[f]
                              ELSE IF e.type = "paid" /\ f = "status" /\ r.status = "past_due" THEN "active"
                              ELSE r[f]
  <1>0. r # NoRow /\ Mine(e, r) /\ e.type \in Types
    BY RowShape DEF Mine, Event
  <1>1. CASE Provisions(e)
    <2>1. /\ e.type \in {"created", "checkout"} /\ Brings(e.type) = {"plan", "status"}
          /\ Handled(e, r) = [sub |-> e.sub, plan |-> e.plan,
                              status |-> IF e.type = "checkout" THEN "active" ELSE e.status, ending |-> r.ending]
      BY <1>0, <1>1 DEF Handled, Provisions, Brings
    <2> QED
      BY <2>1 DEF Speaks, Facts
  <1>2. CASE e.type = "updated"
    <2>1. Handled(e, r) = Updated(e, r) /\ Brings(e.type) = Facts
      BY <1>0, <1>2 DEF Handled, Brings, Provisions
    <2> QED
      BY <2>1 DEF Updated, Facts, Row
  <1>3. CASE e.type = "deleted"
    <2>1. Handled(e, r) = Deleted(r) /\ Brings(e.type) = {"status"}
      BY <1>0, <1>3 DEF Handled, Brings, Provisions
    <2> QED
      BY <1>3, <2>1 DEF Deleted, Facts, Row, Speaks
  <1>4. CASE e.type = "failed"
    <2>1. Handled(e, r) = [r EXCEPT !.status = "past_due"] /\ Brings(e.type) = {"status"}
      BY <1>0, <1>4 DEF Handled, Brings, Provisions
    <2> QED
      BY <1>4, <2>1 DEF Facts, Row, Speaks
  <1>5. CASE e.type = "paid"
    <2>1. /\ Handled(e, r) = [r EXCEPT !.status = IF @ = "past_due" THEN "active" ELSE @]
          /\ Brings(e.type) = {}
      BY <1>0, <1>5 DEF Handled, Brings, Provisions
    <2> QED
      BY <1>5, <2>1 DEF Facts, Row
  <1> QED
    BY <1>0, <1>1, <1>2, <1>3, <1>4, <1>5 DEF Types, Provisions

-----------------------------------------------------------------------------
(* Stripe's log is a history of its subscriptions: what the last event that *)
(* brings a column says of it holds; and every checkout begins with the     *)
(* same two events, after which no other subscription is provisioned       *)
(* before the next checkout.                                               *)
Later(i, f) == \E j \in DOMAIN log : j > i /\ log[j].sub = log[i].sub /\ f \in Brings(log[j].type)

LaterBill(i) == \E j \in DOMAIN log : j > i /\ log[j].sub = log[i].sub /\ OfInvoice(log[j])

Opens(c) ==
    /\ c + 1 \in DOMAIN log
    /\ log[c].sub = latest /\ Provisions(log[c])
    /\ log[c + 1].sub = latest /\ log[c + 1].type = "updated"
    /\ \A j \in DOMAIN log : /\ log[j].sub = latest => j >= c
                             /\ Provisions(log[j]) /\ j >= c => log[j].sub = latest

History ==
    /\ \A i \in DOMAIN log, f \in Facts : ~Later(i, f) => log[i][f] = stripe[log[i].sub][f]
    /\ \A i \in DOMAIN log : OfInvoice(log[i]) /\ ~LaterBill(i) => bills[log[i].sub] = Billed(log[i])
    /\ \A i \in DOMAIN log : Speaks(log[i])
    /\ log # <<>> => Provisions(log[1])
    /\ latest # NoRow => stripe[latest] # NoRow /\ \E c \in DOMAIN log : Opens(c)
    /\ \A s \in Subs : stripe[s] # NoRow => stripe[s].sub = s

(* Whatever changes is announced by new events. *)
New == DOMAIN log' \ DOMAIN log

Announced ==
    /\ DOMAIN log \subseteq DOMAIN log' /\ \A i \in DOMAIN log : log'[i] = log[i]
    /\ \A i \in DOMAIN log, j \in New : i < j
    /\ latest' = latest => \A f \in Facts :
          \/ latest = NoRow \/ stripe'[latest][f] = stripe[latest][f]
          \/ \E j \in New : log'[j].sub = latest /\ f \in Brings(log'[j].type)
    /\ latest' # latest => stripe[latest'] = NoRow /\ \E c \in New : Opens(c)'
    /\ \A s \in Subs : stripe[s] # NoRow => stripe'[s] # NoRow
    /\ \A s \in Subs : bills'[s] = bills[s] \/ \E j \in New : OfInvoice(log'[j]) /\ log'[j].sub = s

LEMMA Appended ==
    ASSUME log \in Seq(Event), NEW events \in Seq(Event), log' = log \o events
    PROVE  /\ Len(log) \in Nat /\ DOMAIN log = 1..Len(log) /\ DOMAIN log' = 1..(Len(log) + Len(events))
           /\ Len(events) \in Nat /\ DOMAIN events = 1..Len(events)
           /\ DOMAIN log \subseteq DOMAIN log'
           /\ \A i \in DOMAIN log : log'[i] = log[i]
           /\ \A i \in DOMAIN log, j \in New : i < j
           /\ \A k \in DOMAIN events : Len(log) + k \in New /\ log'[Len(log) + k] = events[k]
           /\ \A j \in New : j - Len(log) \in DOMAIN events /\ log'[j] = events[j - Len(log)]
  <1>1. /\ log' \in Seq(Event) /\ Len(log') = Len(log) + Len(events)
        /\ \A i \in 1..(Len(log) + Len(events)) :
              log'[i] = IF i <= Len(log) THEN log[i] ELSE events[i - Len(log)]
    BY ConcatProperties
  <1>2. /\ Len(log) \in Nat /\ DOMAIN log = 1..Len(log) /\ Len(events) \in Nat
        /\ DOMAIN events = 1..Len(events) /\ DOMAIN log' = 1..Len(log')
    BY <1>1, LenProperties
  <1>3. \A k \in DOMAIN events : Len(log) + k \in New /\ log'[Len(log) + k] = events[k]
    <2> TAKE k \in DOMAIN events
    <2>1. /\ Len(log) + k \in 1..(Len(log) + Len(events)) /\ ~(Len(log) + k <= Len(log))
          /\ (Len(log) + k) - Len(log) = k
      BY <1>2
    <2> QED
      BY <1>1, <1>2, <2>1 DEF New
  <1>4. \A j \in New : j - Len(log) \in DOMAIN events /\ log'[j] = events[j - Len(log)]
    BY <1>1, <1>2 DEF New
  <1> QED
    BY <1>1, <1>2, <1>3, <1>4 DEF New

(* A snapshot has all of the state. *)
LEMMA SnapshotFacts ==
    ASSUME NEW type \in Types, NEW s \in Subs, NEW state \in Row
    PROVE  /\ Snapshot(type, s, state) \in Event
           /\ Snapshot(type, s, state).type = type /\ Snapshot(type, s, state).sub = s
           /\ \A f \in Facts : Snapshot(type, s, state)[f] = state[f]
  BY DEF Snapshot, Event, Row, Facts

(* A change that is told by the events that bring it keeps the history. *)
LEMMA ChangeHistory ==
    ASSUME TypeOK, Told, History, NEW s \in Subs, stripe[s] # NoRow,
           NEW state \in Row, state.sub = s, NEW types \in Seq(Types), Change(s, state, types),
           latest' = latest,
           \A f \in Facts : state[f] # stripe[s][f] => \E k \in DOMAIN types : f \in Brings(types[k]),
           \A k \in DOMAIN types : /\ types[k] \notin {"created", "checkout"}
                                   /\ types[k] = "deleted" => state.status = "canceled"
                                   /\ types[k] = "failed" => state.status = "past_due" /\ bills'[s] = "open"
                                   /\ types[k] = "paid" => state.status = "active" /\ bills'[s] = "paid",
           bills'[s] = bills[s] \/ \E k \in DOMAIN types : types[k] \in {"paid", "failed"},
           \A v \in Subs \ {s} : bills'[v] = bills[v]
    PROVE  History' /\ Announced
  <1> DEFINE events == [k \in DOMAIN types |-> Snapshot(types[k], s, state)]
             n      == Len(log)
  <1>1. Len(types) \in Nat /\ DOMAIN types = 1..Len(types) /\ \A k \in DOMAIN types : types[k] \in Types
    BY LenProperties, ElementOfSeq
  <1>2. \A k \in 1..Len(types) : Snapshot(types[k], s, state) \in Event
    BY <1>1, SnapshotFacts
  <1>3. events \in Seq(Event) /\ DOMAIN events = DOMAIN types
    BY <1>1, <1>2
  <1>4. log' = log \o events /\ stripe' = [stripe EXCEPT ![s] = state] /\ log \in Seq(Event)
    BY DEF Change, Emit, TypeOK
  <1>5. \A k \in DOMAIN types : /\ events[k].sub = s /\ events[k].type = types[k]
                                /\ \A f \in Facts : events[k][f] = state[f]
    BY <1>1, SnapshotFacts
  <1> HIDE DEF events
  <1>6. /\ n \in Nat /\ DOMAIN log = 1..n /\ DOMAIN log' = 1..(n + Len(events))
        /\ DOMAIN log \subseteq DOMAIN log'
        /\ \A i \in DOMAIN log : log'[i] = log[i]
        /\ \A i \in DOMAIN log, j \in New : i < j
        /\ \A k \in DOMAIN types : n + k \in New /\ log'[n + k] = events[k]
        /\ \A j \in New : j - n \in DOMAIN types /\ log'[j] = events[j - n]
    BY <1>3, <1>4, Appended
  <1>7. \A k \in DOMAIN types : n + k \in New /\ log'[n + k].sub = s /\ log'[n + k].type = types[k]
    BY <1>5, <1>6
  <1>8. ASSUME NEW j \in New
        PROVE  /\ j \in DOMAIN log' /\ j \in Nat
               /\ log'[j].sub = s /\ \A f \in Facts : log'[j][f] = state[f]
               /\ \E k \in DOMAIN types : log'[j].type = types[k]
    BY <1>5, <1>6 DEF New
  <1> HIDE DEF n
  <1>9. /\ stripe'[s] = state /\ state # NoRow
        /\ \A v \in Subs : v # s => stripe'[v] = stripe[v]
        /\ \A v \in Subs : stripe'[v] # NoRow => stripe'[v].sub = v
        /\ \A v \in Subs : stripe[v] # NoRow => stripe'[v] # NoRow
    BY <1>4, RowShape DEF TypeOK, History
  <1>10. \A i \in DOMAIN log : log[i] \in Event /\ log[i].sub \in Subs /\ i \in Nat
    BY LogEvents
  <1>11. \A f \in Facts : stripe'[s][f] = stripe[s][f]
                          \/ \E j \in New : log'[j].sub = s /\ f \in Brings(log'[j].type)
    BY <1>7, <1>9
  <1>12. ASSUME NEW i \in DOMAIN log', NEW f \in Facts, ~Later(i, f)'
         PROVE  log'[i][f] = stripe'[log'[i].sub][f]
    <2>1. CASE i \in DOMAIN log
      <3>1. ~Later(i, f)
        BY <1>6, <1>12, <2>1 DEF Later
      <3>2. log'[i] = log[i] /\ log[i][f] = stripe[log[i].sub][f]
        BY <1>6, <2>1, <3>1 DEF History
      <3>3. CASE log[i].sub = s
        <4>1. ~\E j \in New : log'[j].sub = s /\ f \in Brings(log'[j].type)
          BY <1>6, <1>12, <2>1, <3>2, <3>3, <1>8 DEF Later
        <4> QED
          BY <1>11, <3>2, <3>3, <4>1
      <3> QED
        BY <1>9, <1>10, <2>1, <3>2, <3>3
    <2>2. CASE i \notin DOMAIN log
      BY <1>8, <1>9, <2>2 DEF New
    <2> QED
      BY <2>1, <2>2
  <1>13. \A v \in Subs : bills'[v] = bills[v] \/ \E j \in New : OfInvoice(log'[j]) /\ log'[j].sub = v
    BY <1>7 DEF OfInvoice
  <1>14. ASSUME NEW i \in DOMAIN log', OfInvoice(log'[i]), ~LaterBill(i)'
         PROVE  bills'[log'[i].sub] = Billed(log'[i])
    <2>1. CASE i \in DOMAIN log
      <3>1. ~LaterBill(i)
        BY <1>6, <1>14, <2>1 DEF LaterBill
      <3>2. log'[i] = log[i] /\ bills[log[i].sub] = Billed(log[i]) /\ log[i].sub \in Subs
        BY <1>6, <1>10, <1>14, <2>1, <3>1 DEF History
      <3>3. ~\E j \in New : OfInvoice(log'[j]) /\ log'[j].sub = log[i].sub
        BY <1>6, <1>8, <1>14, <2>1, <3>2 DEF LaterBill
      <3> QED
        BY <1>13, <3>2, <3>3
    <2>2. CASE i \notin DOMAIN log
      BY <1>8, <1>14, <2>2 DEF New, OfInvoice, Billed
    <2> QED
      BY <2>1, <2>2
  <1>15. ASSUME NEW i \in DOMAIN log' PROVE Speaks(log'[i])
    <2>1. CASE i \in DOMAIN log
      BY <1>6, <2>1 DEF History
    <2>2. CASE i \notin DOMAIN log
      BY <1>8, <2>2 DEF New, Speaks, Facts
    <2> QED
      BY <2>1, <2>2
  <1>16. log' # <<>> => Provisions(log'[1])
    <2>1. s \in Subs /\ stripe[s].plan \in Bought
      BY DEF Told
    <2>2. PICK i \in DOMAIN log : TRUE
      BY <2>1 DEF Bought
    <2>3. 1 \in DOMAIN log /\ log # <<>>
      BY <1>6, <2>2, EmptySeq
    <2> QED
      BY <1>6, <2>3 DEF History, Provisions
  <1>17. ASSUME NEW c \in DOMAIN log, Opens(c) PROVE Opens(c)'
    <2>1. /\ c + 1 \in DOMAIN log' /\ log'[c] = log[c] /\ log'[c + 1] = log[c + 1]
          /\ log'[c].sub = latest' /\ log'[c + 1].sub = latest' /\ log'[c + 1].type = "updated"
          /\ Provisions(log[c])
      BY <1>6, <1>17 DEF Opens
    <2>2. ASSUME NEW j \in DOMAIN log'
          PROVE  /\ log'[j].sub = latest' => j >= c
                 /\ Provisions(log'[j]) /\ j >= c => log'[j].sub = latest'
      <3>1. CASE j \in DOMAIN log
        BY <1>6, <1>17, <3>1 DEF Opens, Provisions
      <3>2. CASE j \notin DOMAIN log
        <4>1. j \in New /\ c < j /\ j \in Nat /\ c \in Nat
          BY <1>6, <1>8, <1>10, <3>2 DEF New
        <4> QED
          BY <1>8, <4>1 DEF Provisions
      <3> QED
        BY <3>1, <3>2
    <2> QED
      BY <2>1, <2>2 DEF Opens, Provisions
  <1>18. latest' # NoRow => stripe'[latest'] # NoRow /\ \E c \in DOMAIN log' : Opens(c)'
    <2>1. latest # NoRow => latest \in Subs /\ stripe[latest] # NoRow /\ \E c \in DOMAIN log : Opens(c)
      BY DEF History, TypeOK
    <2> QED
      BY <1>6, <1>9, <1>17, <2>1
  <1>19. \A f \in Facts : \/ latest = NoRow \/ stripe'[latest][f] = stripe[latest][f]
                          \/ \E j \in New : log'[j].sub = latest /\ f \in Brings(log'[j].type)
    BY <1>9, <1>11 DEF TypeOK
  <1>20. History'
    BY <1>9, <1>12, <1>14, <1>15, <1>16, <1>18 DEF History
  <1> QED
    BY <1>6, <1>9, <1>13, <1>19, <1>20 DEF Announced

(* A checkout's events are told of a new subscription, the latest one. *)
LEMMA CheckoutHistory ==
    ASSUME TypeOK, Told, History, NEW s \in Subs, NEW plan \in Priced, Checkout(s, plan)
    PROVE  History' /\ Announced
  <1> DEFINE new    == [sub |-> s, plan |-> plan, status |-> "incomplete", ending |-> FALSE]
             active == [new EXCEPT !.status = "active"]
             events == <<Snapshot("created", s, new), Snapshot("updated", s, active),
                         Snapshot("checkout", s, active)>>
  <1>n. PICK n \in Nat : n = Len(log)
    BY LenProperties DEF TypeOK
  <1>0. new \in Row /\ new.status = "incomplete" /\ active \in Row /\ active.status = "active" /\ active.sub = s
    BY ConstantsAssumption DEF Row, Statuses
  <1>1. /\ log' = log \o events /\ stripe[s] = NoRow /\ stripe' = [stripe EXCEPT ![s] = active]
        /\ latest' = s /\ bills' = bills /\ log \in Seq(Event)
    BY DEF Checkout, Emit, TypeOK
  <1>2. events \in Seq(Event) /\ Len(events) = 3 /\ DOMAIN events = 1..3
    BY <1>0, SnapshotFacts DEF Types
  <1>3. /\ \A k \in 1..3 : events[k].sub = s
        /\ events[1].type = "created" /\ events[1].status = "incomplete"
        /\ events[2].type = "updated" /\ \A f \in Facts : events[2][f] = active[f]
        /\ events[3].type = "checkout" /\ \A f \in Facts : events[3][f] = active[f]
    <2>1. "created" \in Types /\ "updated" \in Types /\ "checkout" \in Types
      BY DEF Types
    <2>2. /\ events[1] = Snapshot("created", s, new) /\ events[2] = Snapshot("updated", s, active)
          /\ events[3] = Snapshot("checkout", s, active)
      OBVIOUS
    <2>3. events[1].status = "incomplete"
      BY <1>0, <2>2 DEF Snapshot
    <2> HIDE DEF events, active, new
    <2> QED
      BY <1>0, <2>1, <2>2, <2>3, SnapshotFacts
  <1> HIDE DEF events, active, new
  <1>4. /\ n \in Nat /\ DOMAIN log = 1..n /\ DOMAIN log' = 1..(n + 3)
        /\ DOMAIN log \subseteq DOMAIN log'
        /\ \A i \in DOMAIN log : log'[i] = log[i]
        /\ \A i \in DOMAIN log, j \in New : i < j
        /\ \A k \in 1..3 : n + k \in New /\ log'[n + k] = events[k]
        /\ \A j \in New : j - n \in 1..3 /\ log'[j] = events[j - n]
    BY <1>n, <1>1, <1>2, Appended
  <1>5. \A j \in New : j \in {n + 1, n + 2, n + 3}
    <2> TAKE j \in New
    <2>1. j \in Nat /\ j - n \in 1..3
      BY <1>4 DEF New
    <2> QED
      BY <1>4, <2>1
  <1>6. /\ \A j \in New : log'[j].sub = s
        /\ log'[n + 1] = events[1] /\ log'[n + 2] = events[2] /\ log'[n + 3] = events[3]
        /\ n + 1 \in DOMAIN log' /\ n + 2 \in DOMAIN log' /\ n + 3 \in DOMAIN log' /\ n + 1 \in New
    <2>1. \A k \in 1..3 : n + k \in New /\ n + k \in DOMAIN log' /\ log'[n + k] = events[k]
      BY <1>4 DEF New
    <2>2. 1 \in 1..3 /\ 2 \in 1..3 /\ 3 \in 1..3
      OBVIOUS
    <2>3. \A j \in New : log'[j].sub = s
      BY <1>3, <1>4
    <2> QED
      BY <2>1, <2>2, <2>3
  <1>7. \A i \in DOMAIN log : log[i] \in Event /\ log[i].sub \in Subs /\ i \in Nat /\ log[i].sub # s
    BY <1>1, LogEvents DEF Told
  <1>8. /\ stripe'[s] = active /\ active # NoRow
        /\ \A v \in Subs : v # s => stripe'[v] = stripe[v]
    BY <1>0, <1>1, RowShape DEF TypeOK
  <1>9. /\ Brings("created") = {"plan", "status"} /\ Brings("checkout") = {"plan", "status"}
        /\ Brings("updated") = Facts
    BY DEF Brings
  <1>10. ASSUME NEW i \in DOMAIN log', NEW f \in Facts, ~Later(i, f)'
         PROVE  log'[i][f] = stripe'[log'[i].sub][f]
    <2>1. CASE i \in DOMAIN log
      <3>1. ~Later(i, f)
        BY <1>4, <1>10, <2>1 DEF Later
      <3> QED
        BY <1>4, <1>7, <1>8, <2>1, <3>1 DEF History
    <2>2. CASE i = n + 1
      <3>1. Later(i, f)'
        BY <1>3, <1>4, <1>6, <1>9, <2>2 DEF Later
      <3> QED
        BY <1>10, <3>1
    <2>3. CASE i = n + 2 \/ i = n + 3
      BY <1>3, <1>6, <1>8, <2>3, <1>4
    <2> QED
      BY <1>5, <2>1, <2>2, <2>3 DEF New
  <1>11. \A j \in New : ~OfInvoice(log'[j])
    BY <1>3, <1>5, <1>6 DEF OfInvoice
  <1>12. ASSUME NEW i \in DOMAIN log', OfInvoice(log'[i]), ~LaterBill(i)'
         PROVE  bills'[log'[i].sub] = Billed(log'[i])
    <2>1. i \in DOMAIN log
      BY <1>11, <1>12 DEF New
    <2>2. ~LaterBill(i)
      BY <1>4, <1>12, <2>1 DEF LaterBill
    <2> QED
      BY <1>1, <1>4, <1>12, <2>1, <2>2 DEF History
  <1>13. ASSUME NEW i \in DOMAIN log' PROVE Speaks(log'[i])
    <2>1. CASE i \in DOMAIN log
      BY <1>4, <2>1 DEF History
    <2>2. CASE i \in New
      <3>1. active.status = "active" /\ "status" \in Facts
        BY <1>0 DEF Facts
      <3> QED
        BY <1>3, <1>5, <1>6, <2>2, <3>1 DEF Speaks
    <2> QED
      BY <2>1, <2>2 DEF New
  <1>14. log' # <<>> => Provisions(log'[1])
    <2>1. CASE n = 0
      BY <1>3, <1>6, <2>1 DEF Provisions
    <2>2. CASE n # 0
      <3>1. 1 \in DOMAIN log /\ log # <<>>
        BY <1>4, <2>2, EmptySeq
      <3> QED
        BY <1>4, <3>1 DEF History, Provisions
    <2> QED
      BY <2>1, <2>2
  <1>15. Opens(n + 1)'
    <2>1. (n + 1) + 1 = n + 2 /\ n \in Nat
      BY <1>4
    <2>2. \A j \in DOMAIN log' : /\ log'[j].sub = s => j >= n + 1
                                 /\ j >= n + 1 => log'[j].sub = s
      <3> TAKE j \in DOMAIN log'
      <3>1. CASE j \in DOMAIN log
        <4>1. j < n + 1 /\ log'[j].sub # s /\ j \in Nat
          BY <1>4, <1>6, <1>7, <3>1
        <4> QED
          BY <2>1, <4>1
      <3>2. CASE j \in New
        <4>1. j >= n + 1
          BY <1>5, <2>1, <3>2
        <4> QED
          BY <1>6, <3>2, <4>1
      <3> QED
        BY <3>1, <3>2 DEF New
    <2> QED
      BY <1>1, <1>3, <1>6, <2>1, <2>2 DEF Opens, Provisions
  <1>16. \A v \in Subs : stripe'[v] # NoRow => stripe'[v].sub = v
    BY <1>0, <1>8 DEF History
  <1>17. History'
    BY <1>1, <1>6, <1>8, <1>10, <1>12, <1>13, <1>14, <1>15, <1>16 DEF History
  <1>18. latest' # latest
    <2>1. latest # NoRow => stripe[latest] # NoRow
      BY DEF History
    <2> QED
      BY <1>1, <2>1, ConstantsAssumption
  <1> QED
    BY <1>1, <1>4, <1>6, <1>15, <1>17, <1>18 DEF Announced

(* A call that is about to commit has made its change at Stripe, and        *)
(* nothing undoes it there before it commits, unless its plan has no price. *)
Carried ==
    api.at = "commit" => /\ stripe[api.read.sub] # NoRow
                         /\ IF Unpriced(api.edit) THEN api.edit.plan \in unpriced
                            ELSE Edit(api.edit, stripe[api.read.sub]) = stripe[api.read.sub]

LEMMA EditStays ==
    ASSUME NEW edit \in Edits, NEW r \in Row
    PROVE  /\ Edit(edit, Edit(edit, r)) = Edit(edit, r)
           /\ \A status \in Statuses :
                 Edit(edit, r) = r /\ r.status # "canceled"
                     => Edit(edit, [r EXCEPT !.status = status]) = [r EXCEPT !.status = status]
  <1>1. CASE edit.op = "change_plan"
    <2>1. \A t \in Row : Edit(edit, t) = [t EXCEPT !.plan = edit.plan]
      BY <1>1 DEF Edit
    <2>2. edit.plan \in Plans
      BY <1>1 DEF Edits
    <2> QED
      BY <2>1, <2>2 DEF Row
  <1>2. CASE edit.op = "cancel_now"
    <2>1. \A t \in Row : Edit(edit, t) = [t EXCEPT !.status = "canceled"]
      BY <1>2 DEF Edit
    <2> QED
      BY <2>1 DEF Row, Statuses
  <1>3. CASE edit.op = "cancel_at_end"
    <2>1. \A t \in Row : Edit(edit, t) = [t EXCEPT !.ending = TRUE]
      BY <1>3 DEF Edit
    <2> QED
      BY <2>1 DEF Row
  <1> QED
    BY <1>1, <1>2, <1>3 DEF Edits

LEMMA HistoryStep ==
    ASSUME TypeOK, Known, Told, History, Carried, [Next]_vars
    PROVE  History' /\ Announced /\ Carried'
  <1>i. Idle.at = "idle"
    BY DEF Idle
  <1>a. api.at \in {"stripe", "commit"} =>
            /\ api \in [at : {"stripe", "commit"}, edit : Edits, read : Row] /\ api.edit \in Edits
            /\ api.read.sub \in Subs /\ stripe[api.read.sub] # NoRow
    <2>1. api.at \in {"stripe", "commit"} => api # Idle
      BY <1>i
    <2> QED
      BY <2>1 DEF TypeOK, Known, Backed, Row
  <1>c. ASSUME NEW s \in Subs, NEW status, Has(s, status)
        PROVE  stripe[s] \in Row /\ stripe[s] # NoRow /\ stripe[s].status = status /\ stripe[s].sub = s
    BY <1>c DEF Has, TypeOK, History
  <1>s. {"active", "past_due", "canceled", "incomplete"} = Statuses
    BY DEF Statuses
  <1>b. Brings("updated") = Facts /\ Brings("deleted") = {"status"} /\ Brings("failed") = {"status"}
    BY DEF Brings
  <1>f. "status" \in Facts
    BY DEF Facts
  <1>u. ASSUME UNCHANGED remote PROVE History' /\ Announced
    <2>1. /\ log' = log /\ stripe' = stripe /\ latest' = latest /\ bills' = bills
      BY <1>u DEF remote
    <2>2. New = {}
      BY <2>1 DEF New
    <2>3. Announced
      BY <2>1, <2>2 DEF Announced
    <2> QED
      BY <2>1, <2>3 DEF History, Later, LaterBill, Opens
  (* Only the status of a subscription in service changes by itself. *)
  <1>t. ASSUME NEW s \in Subs, stripe[s] \in Row, stripe[s] # NoRow, stripe[s].status # "canceled",
               NEW status \in Statuses,
               stripe' = [stripe EXCEPT ![s] = [stripe[s] EXCEPT !.status = status]],
               api' = api, unpriced' = unpriced
        PROVE  Carried'
    <2> SUFFICES ASSUME api.at = "commit"
                 PROVE  /\ stripe'[api.read.sub] # NoRow
                        /\ ~Unpriced(api.edit) =>
                               Edit(api.edit, stripe'[api.read.sub]) = stripe'[api.read.sub]
      BY <1>t DEF Carried
    <2>1. /\ api.read.sub \in Subs /\ api.edit \in Edits /\ stripe[api.read.sub] # NoRow
          /\ ~Unpriced(api.edit) => Edit(api.edit, stripe[api.read.sub]) = stripe[api.read.sub]
      BY <1>a DEF Carried
    <2>2. [stripe[s] EXCEPT !.status = status] \in Row
      BY <1>t DEF Row
    <2>3. CASE api.read.sub = s
      <3>1. stripe'[s] = [stripe[s] EXCEPT !.status = status]
        BY <1>t DEF TypeOK
      <3>2. ~Unpriced(api.edit) => Edit(api.edit, stripe'[s]) = stripe'[s]
        BY <1>t, <2>1, <2>3, <3>1, EditStays
      <3> QED
        BY <2>2, <2>3, <3>1, <3>2, RowShape
    <2>4. CASE api.read.sub # s
      BY <1>t, <2>1, <2>4 DEF TypeOK
    <2> QED
      BY <2>3, <2>4
  <1>1. ASSUME NEW s \in Subs, NEW p \in Priced, Checkout(s, p) PROVE History' /\ Announced /\ Carried'
    <2>1. History' /\ Announced
      BY <1>1, CheckoutHistory
    <2>2. \A v \in Subs : stripe[v] # NoRow => stripe'[v] = stripe[v]
      BY <1>1 DEF Checkout, TypeOK
    <2>3. api' = api /\ unpriced' = unpriced
      BY <1>1 DEF Checkout, history
    <2>4. Carried'
      BY <1>a, <2>2, <2>3 DEF Carried
    <2> QED
      BY <2>1, <2>4
  <1>2. ASSUME NEW s \in Subs, RenewalFails(s) PROVE History' /\ Announced /\ Carried'
    <2> DEFINE state == [stripe[s] EXCEPT !.status = "past_due"]
               types == <<"updated", "failed">>
    <2>1. /\ stripe[s] \in Row /\ stripe[s] # NoRow /\ stripe[s].sub = s /\ stripe[s].status = "active"
      BY <1>2, <1>c DEF RenewalFails
    <2>2. state \in Row /\ state.sub = s /\ state.status = "past_due"
      BY <1>s, <2>1 DEF Row
    <2>3. /\ types \in Seq(Types) /\ DOMAIN types = {1, 2} /\ types[1] = "updated" /\ types[2] = "failed"
      BY DEF Types
    <2>4. /\ Change(s, state, types) /\ latest' = latest /\ api' = api
          /\ bills' = [bills EXCEPT ![s] = "open"] /\ unpriced' = unpriced
      BY <1>2 DEF RenewalFails, history
    <2>5. bills'[s] = "open" /\ \A v \in Subs \ {s} : bills'[v] = bills[v]
      BY <2>4 DEF TypeOK
    <2>6. Carried'
      BY <1>t, <1>s, <2>1, <2>4 DEF Change
    <2> HIDE DEF state, types
    <2>7. History' /\ Announced
      <3>1. \A f \in Facts : \E k \in DOMAIN types : f \in Brings(types[k])
        BY <1>b, <2>3
      <3>2. \A k \in DOMAIN types : /\ types[k] \notin {"created", "checkout"}
                                    /\ types[k] = "deleted" => state.status = "canceled"
                                    /\ types[k] = "failed" => state.status = "past_due" /\ bills'[s] = "open"
                                    /\ types[k] = "paid" => state.status = "active" /\ bills'[s] = "paid"
        BY <2>2, <2>3, <2>5
      <3>3. \E k \in DOMAIN types : types[k] \in {"paid", "failed"}
        BY <2>3
      <3> QED
        BY <2>1, <2>2, <2>3, <2>4, <2>5, <3>1, <3>2, <3>3, ChangeHistory
    <2> QED
      BY <2>6, <2>7
  <1>3. ASSUME NEW s \in Subs, RenewalPaid(s) PROVE History' /\ Announced /\ Carried'
    <2> DEFINE state == [stripe[s] EXCEPT !.status = "active"]
               types == <<"updated", "paid">>
    <2>1. /\ stripe[s] \in Row /\ stripe[s] # NoRow /\ stripe[s].sub = s /\ stripe[s].status = "past_due"
      BY <1>3, <1>c DEF RenewalPaid
    <2>2. state \in Row /\ state.sub = s /\ state.status = "active"
      BY <1>s, <2>1 DEF Row
    <2>3. /\ types \in Seq(Types) /\ DOMAIN types = {1, 2} /\ types[1] = "updated" /\ types[2] = "paid"
      BY DEF Types
    <2>4. /\ Change(s, state, types) /\ latest' = latest /\ api' = api
          /\ bills' = [bills EXCEPT ![s] = "paid"] /\ unpriced' = unpriced
      BY <1>3 DEF RenewalPaid, history
    <2>5. bills'[s] = "paid" /\ \A v \in Subs \ {s} : bills'[v] = bills[v]
      BY <2>4 DEF TypeOK
    <2>6. Carried'
      BY <1>t, <1>s, <2>1, <2>4 DEF Change
    <2> HIDE DEF state, types
    <2>7. History' /\ Announced
      <3>1. \A f \in Facts : \E k \in DOMAIN types : f \in Brings(types[k])
        BY <1>b, <2>3
      <3>2. \A k \in DOMAIN types : /\ types[k] \notin {"created", "checkout"}
                                    /\ types[k] = "deleted" => state.status = "canceled"
                                    /\ types[k] = "failed" => state.status = "past_due" /\ bills'[s] = "open"
                                    /\ types[k] = "paid" => state.status = "active" /\ bills'[s] = "paid"
        BY <2>2, <2>3, <2>5
      <3>3. \E k \in DOMAIN types : types[k] \in {"paid", "failed"}
        BY <2>3
      <3> QED
        BY <2>1, <2>2, <2>3, <2>4, <2>5, <3>1, <3>2, <3>3, ChangeHistory
    <2> QED
      BY <2>6, <2>7
  <1>4. ASSUME NEW s \in Subs, StripeCancels(s) PROVE History' /\ Announced /\ Carried'
    <2> DEFINE state == [stripe[s] EXCEPT !.status = "canceled"]
               types == <<"deleted">>
    <2>1. /\ stripe[s] \in Row /\ stripe[s] # NoRow /\ stripe[s].sub = s
          /\ stripe[s].status \in {"active", "past_due"}
      BY <1>4, <1>c DEF StripeCancels
    <2>2. /\ state \in Row /\ state.sub = s /\ state.status = "canceled"
          /\ \A f \in Facts : f # "status" => state[f] = stripe[s][f]
      BY <1>s, <2>1 DEF Row, Facts
    <2>3. types \in Seq(Types) /\ DOMAIN types = {1} /\ types[1] = "deleted"
      BY DEF Types
    <2>4. Change(s, state, types) /\ latest' = latest /\ api' = api /\ bills' = bills
          /\ unpriced' = unpriced
      BY <1>4 DEF StripeCancels, history
    <2>6. Carried'
      BY <1>t, <1>s, <2>1, <2>4 DEF Change
    <2> HIDE DEF state, types
    <2>7. History' /\ Announced
      <3>1. \A f \in Facts : state[f] # stripe[s][f] => \E k \in DOMAIN types : f \in Brings(types[k])
        BY <1>b, <2>2, <2>3
      <3>2. \A k \in DOMAIN types : /\ types[k] \notin {"created", "checkout"}
                                    /\ types[k] = "deleted" => state.status = "canceled"
                                    /\ types[k] = "failed" => state.status = "past_due" /\ bills'[s] = "open"
                                    /\ types[k] = "paid" => state.status = "active" /\ bills'[s] = "paid"
        BY <2>2, <2>3
      <3> QED
        BY <2>1, <2>2, <2>3, <2>4, <3>1, <3>2, ChangeHistory
    <2> QED
      BY <2>6, <2>7
  <1>5. CASE ApiStripe
    <2>1. CASE stripe[api.read.sub].status = "canceled"
      <3>1. UNCHANGED remote /\ api' = Idle
        BY <1>5, <2>1 DEF ApiStripe
      <3> QED
        BY <1>i, <1>u, <3>1 DEF Carried
    <2>2. CASE stripe[api.read.sub].status # "canceled"
      <3>1. PICK state \in Row, types \in Seq(Types) : Carries(state, types)
        BY <1>5, <2>2, ApiChange
      <3>s. PICK s \in Subs : s = api.read.sub
        BY <3>1 DEF Carries
      <3>2. /\ api.edit \in Edits /\ stripe[s] \in Row /\ stripe[s] # NoRow /\ stripe[s].sub = s
            /\ stripe[s].status # "canceled"
        BY <2>2, <3>1, <3>s DEF Carries, History
      <3>3. /\ state = Charged(api.edit, stripe[s]) /\ state.sub = s
            /\ state.status = IF api.edit.op = "cancel_now" THEN "canceled" ELSE stripe[s].status
            /\ Change(s, state, types) /\ latest' = latest /\ bills' = bills
            /\ api' = [api EXCEPT !.at = "commit"]
        BY <3>1, <3>2, <3>s DEF Carries
      <3>4. unpriced' = unpriced \union IF Unpriced(api.edit) THEN {api.edit.plan} ELSE {}
        BY <3>1 DEF Carries
      <3>5. \/ types = <<>> /\ state = stripe[s]
            \/ types = <<"deleted">> /\ state.status = "canceled"
            \/ types = <<"updated">> /\ state.status # "canceled"
        BY <3>1, <3>s DEF Carries
      <3>6. api.edit.op = "cancel_now" => \A f \in Facts : f # "status" => state[f] = stripe[s][f]
        BY <3>2, <3>3 DEF Charged, Unpriced, Edit, Facts, Row
      <3>7. stripe' = [stripe EXCEPT ![s] = state] /\ state # NoRow
        BY <3>3, RowShape DEF Change
      <3>8. \A k \in DOMAIN types : /\ types[k] \notin {"created", "checkout", "failed", "paid"}
                                    /\ types[k] = "deleted" => state.status = "canceled"
        BY <3>5
      <3>9. ASSUME NEW f \in Facts, state[f] # stripe[s][f]
            PROVE  \E k \in DOMAIN types : f \in Brings(types[k])
        <4>1. state # stripe[s]
          BY <3>9
        <4>2. CASE state.status = "canceled"
          <5>1. f = "status"
            BY <3>2, <3>3, <3>6, <3>9, <4>2
          <5>2. types = <<"deleted">>
            BY <3>5, <4>1, <4>2
          <5>3. 1 \in DOMAIN types /\ types[1] = "deleted"
            BY <5>2
          <5> QED
            BY <1>b, <5>1, <5>3
        <4>3. CASE state.status # "canceled"
          <5>1. types = <<"updated">>
            BY <3>5, <4>1, <4>3
          <5>2. 1 \in DOMAIN types /\ types[1] = "updated"
            BY <5>1
          <5> QED
            BY <1>b, <5>2
        <4> QED
          BY <4>2, <4>3
      <3>10. Carried'
        <4>1. api'.read.sub = s /\ api'.edit = api.edit
          <5>1. api \in [at : {"stripe", "commit"}, edit : Edits, read : Row]
            BY <1>5, <1>a DEF ApiStripe
          <5> QED
            BY <3>3, <3>s, <5>1
        <4>2. stripe'[s] = state
          BY <3>7 DEF TypeOK
        <4>3. ~Unpriced(api.edit) => Edit(api.edit, state) = state
          BY <3>2, <3>3, EditStays DEF Charged
        <4>4. Unpriced(api.edit) => api.edit.plan \in unpriced'
          BY <3>4
        <4>5. Unpriced(api'.edit) <=> Unpriced(api.edit)
          BY <4>1 DEF Unpriced
        <4> QED
          BY <3>7, <4>1, <4>2, <4>3, <4>4, <4>5 DEF Carried, Unpriced
      <3>11. History' /\ Announced
        BY <3>2, <3>3, <3>8, <3>9, ChangeHistory
      <3> QED
        BY <3>10, <3>11
    <2> QED
      BY <2>1, <2>2
  <1>6. ASSUME Webhook \/ UNCHANGED vars PROVE History' /\ Announced /\ Carried'
    <2>1. UNCHANGED <<remote, api, unpriced>>
      BY <1>6 DEF Webhook, Redeliver, Deliver, UpsertInvoice, Handle, Swallow, vars, history
    <2> QED
      BY <1>u, <2>1 DEF Carried, remote
  <1>7. ASSUME (\E edit \in Edits : ApiRead(edit)) \/ ApiCommit \/ ApiFails
        PROVE  History' /\ Announced /\ Carried'
    <2>1. UNCHANGED remote /\ (api' = Idle \/ \E edit \in Edits : api' = [at |-> "stripe", edit |-> edit, read |-> row])
      BY <1>7 DEF ApiRead, ApiCommit, ApiFails
    <2>2. api'.at # "commit"
      BY <1>i, <2>1
    <2> QED
      BY <1>u, <2>1, <2>2 DEF Carried
  <1> QED
    BY <1>1, <1>2, <1>3, <1>4, <1>5, <1>6, <1>7 DEF Next, Stripe, Api

-----------------------------------------------------------------------------
(* Delivery in order: an event is handled after all the earlier ones, and   *)
(* by itself.                                                              *)
Queued ==
    /\ acked \subseteq DOMAIN log
    /\ mode = "ordered" =>
        /\ \A j \in acked, i \in DOMAIN log : i < j => i \in acked
        /\ \A v, w \in Workers : handling[v] # 0 /\ handling[w] # 0 => v = w
        /\ \A w \in Workers : handling[w] # 0 =>
              handling[w] \notin acked /\ \A i \in DOMAIN log : i < handling[w] => i \in acked

LEMMA QueuedStep ==
    ASSUME TypeOK, TypeOK', Queued, Announced, [Next]_vars
    PROVE  Queued'
  <1>l. /\ DOMAIN log \subseteq DOMAIN log' /\ \A i \in DOMAIN log : i \in Nat
        /\ \A i \in DOMAIN log, j \in DOMAIN log' : j \notin DOMAIN log => i < j
    BY LogEvents DEF Announced, New
  <1>h. \A w \in Workers : handling[w] # 0 => handling[w] \in DOMAIN log
    BY DEF TypeOK
  <1>n. \A i \in DOMAIN log' : i \in Nat
    BY LenProperties DEF TypeOK
  <1>1. CASE UNCHANGED <<mode, acked, handling>>
    <2>1. \A i \in DOMAIN log', j \in DOMAIN log : i < j => i \in DOMAIN log
      <3> SUFFICES ASSUME NEW i \in DOMAIN log', NEW j \in DOMAIN log, i < j, i \notin DOMAIN log PROVE FALSE
        OBVIOUS
      <3>1. j < i /\ j \in Nat
        BY <1>l
      <3> QED
        BY <1>n, <3>1
    <2> QED
      BY <1>1, <1>l, <1>h, <2>1 DEF Queued
  <1>2. ASSUME NEW i \in DOMAIN log, NEW w \in Workers, Deliver(w, i) PROVE Queued'
    <2>1. /\ UNCHANGED <<mode, acked, log>> /\ handling' = [handling EXCEPT ![w] = i]
          /\ i \notin acked /\ MayDeliver(i)
      BY <1>2 DEF Deliver, remote
    <2>2. mode = "ordered" => /\ \A v \in Workers : handling[v] = 0
                              /\ \A j \in DOMAIN log : j < i => j \in acked
      <3>1. \A j \in DOMAIN log : j < i => j \in 1..(i - 1)
        BY LenProperties DEF TypeOK
      <3> QED
        BY <2>1, <3>1 DEF MayDeliver
    <2> QED
      <3>1. acked' \subseteq DOMAIN log' /\ DOMAIN log' = DOMAIN log /\ acked' = acked
        BY <2>1 DEF Queued
      <3>2. \A v \in Workers : handling'[v] = IF v = w THEN i ELSE handling[v]
        BY <2>1 DEF TypeOK
      <3> QED
        BY <2>1, <2>2, <3>1, <3>2 DEF Queued
  <1>3. ASSUME NEW w \in Workers, Handle(w) \/ Swallow(w) PROVE Queued'
    <2>1. /\ UNCHANGED <<mode, log>> /\ handling[w] # 0
          /\ acked' = acked \union {handling[w]} /\ handling' = [handling EXCEPT ![w] = 0]
      BY <1>3 DEF Handle, Swallow, Acknowledge, remote
    <2> QED
      BY <1>h, <2>1 DEF Queued, TypeOK
  <1>4. ASSUME NEW i \in DOMAIN log, Redeliver(i) PROVE Queued'
    BY <1>4 DEF Redeliver, Queued, remote
  <1>5. ASSUME NEW w \in Workers, UpsertInvoice(w) PROVE Queued'
    <2>1. UNCHANGED <<mode, acked, handling>>
      BY <1>5 DEF UpsertInvoice
    <2> QED
      BY <1>1, <2>1
  <1>6. CASE Stripe \/ Api \/ UNCHANGED vars
    <2>1. UNCHANGED <<mode, acked, handling>>
      BY <1>6 DEF Stripe, Checkout, RenewalFails, RenewalPaid, StripeCancels,
             Api, ApiRead, ApiStripe, ApiCommit, ApiFails, vars, workers
    <2> QED
      BY <1>1, <2>1
  <1> QED
    BY <1>2, <1>3, <1>4, <1>5, <1>6 DEF Next, Webhook

-----------------------------------------------------------------------------
(* Delivery in order, every event handled, and no call to the row of        *)
(* another subscription.                                                   *)
InOrder == mode = "ordered" /\ swallowed = {} /\ "call" \notin overtaken

(* An event of the latest subscription is acknowledged; one that brings a   *)
(* column is not.                                                          *)
Opened == \E i \in acked : log[i].sub = latest

Coming(f) == \E i \in DOMAIN log \ acked : log[i].sub = latest /\ f \in Brings(log[i].type)

(* A column as Stripe has it of the latest subscription, or a plan that     *)
(* Stripe does not know.                                                   *)
Right(r, f) == r[f] = stripe[latest][f] \/ (f = "plan" /\ r[f] \in unpriced)

(* The row shows the latest subscription once one of its events is          *)
(* handled, and of it whatever no event is still to bring.                 *)
Shown ==
    /\ 1 \in acked => row # NoRow
    /\ Opened => /\ row # NoRow /\ row.sub = latest
                 /\ \A f \in Facts : ~Coming(f) => Right(row, f)

(* What a handler has read is the row, up to what an API call wrote         *)
(* meanwhile; and that is as Stripe has it, or a later event brings it.    *)
Reading ==
    \A w \in Workers : handling[w] # 0 =>
        /\ seen[w] = NoRow <=> row = NoRow
        /\ seen[w] # NoRow => seen[w].sub = row.sub
        /\ Opened => \A f \in Facts :
              /\ \/ seen[w][f] = row[f] \/ Right(row, f)
                 \/ \E j \in DOMAIN log : j > handling[w] /\ log[j].sub = latest /\ f \in Brings(log[j].type)
              /\ ~Coming(f) => Right(seen[w], f)

(* The invoice of a subscription that is not replaced is as Stripe has it   *)
(* unless an event of it is still to be written, and a handler that is     *)
(* about to write it has read it.                                          *)
Replaced(s) == stripe[s] # NoRow /\ s # latest

Awaited(s) ==
    \E i \in DOMAIN log \ acked : /\ OfInvoice(log[i]) /\ log[i].sub = s
                                  /\ \A w \in Workers : handling[w] = i => billing[w] # "done"

Listed ==
    /\ \A s \in Subs : Replaced(s) \/ Awaited(s) \/ invoices[s] = bills[s]
    /\ \A w \in Workers : handling[w] # 0 /\ billing[w] # "done" => billing[w] = invoices[log[handling[w]].sub]

LEMMA InOrderBefore ==
    ASSUME [Next]_vars, InOrder'
    PROVE  InOrder
  BY DEF InOrder, Next, Stripe, Checkout, RenewalFails, RenewalPaid, StripeCancels,
         Webhook, Redeliver, Deliver, UpsertInvoice, Handle, Swallow,
         Api, ApiRead, ApiStripe, ApiCommit, ApiFails, vars, workers, history

(* As long as no row is written and none is read, Stripe may change.        *)
LEMMA LooksOn ==
    ASSUME TypeOK, TypeOK', History, Announced, Queued, Shown, Reading, Listed, InOrder,
           UNCHANGED <<workers, local>>, unpriced \subseteq unpriced'
    PROVE  Shown' /\ Reading' /\ Listed'
  <1>u. UNCHANGED <<acked, handling, seen, billing, row, invoices>>
    BY DEF workers, local
  <1>l. /\ acked \subseteq DOMAIN log /\ DOMAIN log \subseteq DOMAIN log'
        /\ \A i \in DOMAIN log : log'[i] = log[i] /\ i \in Nat
        /\ \A i \in DOMAIN log, j \in New : i < j
        /\ \A w \in Workers : handling[w] # 0 => handling[w] \in DOMAIN log
    BY LogEvents DEF Queued, Announced, TypeOK
  <1>p. \A i \in DOMAIN log' : i \in Nat /\ i > 0
    BY LenProperties DEF TypeOK
  <1>n. \A j \in New : j \in DOMAIN log' \ acked' /\ \A w \in Workers : handling[w] # 0 => j > handling[w]
    BY <1>u, <1>l DEF New
  <1>1. Opened' => Opened /\ latest' = latest /\ latest \in Subs /\ latest # NoRow
    <2> SUFFICES ASSUME Opened' PROVE latest' = latest /\ Opened /\ latest \in Subs /\ latest # NoRow
      OBVIOUS
    <2>1. PICK i \in acked : log'[i].sub = latest'
      BY <1>u DEF Opened
    <2>2. i \in DOMAIN log /\ log[i].sub = latest' /\ i \in Nat /\ i \in DOMAIN log'
      BY <1>l, <2>1
    <2>3. ASSUME latest' # latest PROVE FALSE
      <3>1. PICK c \in New : Opens(c)'
        BY <2>3 DEF Announced
      <3>2. i >= c /\ i < c
        BY <1>l, <2>1, <2>2, <3>1 DEF Opens
      <3>3. i \in Nat /\ c \in Nat
        BY <2>2, <3>1, <1>p DEF New
      <3> QED
        BY <3>2, <3>3
    <2> QED
      BY <2>1, <2>2, <2>3, LogEvents, ConstantsAssumption DEF Opened
  <1>2. Opened' => \A f \in Facts : ~Coming(f)' => ~Coming(f) /\ stripe'[latest][f] = stripe[latest][f]
    <2> SUFFICES ASSUME Opened', NEW f \in Facts, ~Coming(f)'
                 PROVE  ~Coming(f) /\ stripe'[latest][f] = stripe[latest][f]
      OBVIOUS
    <2>1. ~Coming(f)
      BY <1>u, <1>l, <1>1 DEF Coming
    <2>2. ~\E j \in New : log'[j].sub = latest /\ f \in Brings(log'[j].type)
      BY <1>n, <1>1 DEF Coming
    <2> QED
      BY <1>1, <2>1, <2>2 DEF Announced
  <1>3. Shown'
    BY <1>u, <1>1, <1>2 DEF Shown, Right
  <1>4. Reading'
    <2> SUFFICES ASSUME NEW w \in Workers, handling[w] # 0
                 PROVE  /\ seen[w] = NoRow <=> row = NoRow
                        /\ seen[w] # NoRow => seen[w].sub = row.sub
                        /\ Opened' => \A f \in Facts :
                              /\ \/ seen[w][f] = row[f] \/ Right(row, f)'
                                 \/ \E j \in DOMAIN log' : /\ j > handling[w] /\ log'[j].sub = latest'
                                                           /\ f \in Brings(log'[j].type)
                              /\ ~Coming(f)' => Right(seen[w], f)'
      BY <1>u DEF Reading
    <2>1. ASSUME Opened', NEW f \in Facts
          PROVE  \/ seen[w][f] = row[f] \/ Right(row, f)'
                 \/ \E j \in DOMAIN log' : j > handling[w] /\ log'[j].sub = latest /\ f \in Brings(log'[j].type)
      <3>1. CASE stripe'[latest][f] = stripe[latest][f]
        BY <1>u, <1>1, <1>l, <2>1, <3>1 DEF Reading, Right
      <3>2. CASE stripe'[latest][f] # stripe[latest][f]
        BY <1>1, <1>n, <2>1, <3>2 DEF Announced
      <3> QED
        BY <3>1, <3>2
    <2> QED
      BY <1>u, <1>1, <1>2, <2>1 DEF Reading, Right
  <1>5. Listed'
    <2>1. ASSUME NEW s \in Subs PROVE Replaced(s)' \/ Awaited(s)' \/ invoices[s] = bills'[s]
      <3>1. Awaited(s) => Awaited(s)'
        BY <1>u, <1>l DEF Awaited
      <3>2. (\E j \in New : OfInvoice(log'[j]) /\ log'[j].sub = s) => Awaited(s)'
        <4>1. \A j \in New : \A w \in Workers : handling[w] # j
          <5> TAKE j \in New
          <5> TAKE w \in Workers
          <5>1. CASE handling[w] = 0
            BY <1>p, <5>1 DEF New
          <5>2. CASE handling[w] # 0
            BY <1>l, <5>2 DEF New
          <5> QED
            BY <5>1, <5>2
        <4> QED
          BY <1>u, <1>n, <4>1 DEF Awaited
      <3>3. Replaced(s) => Replaced(s)'
        BY DEF Replaced, Announced
      <3> QED
        BY <3>1, <3>2, <3>3 DEF Listed, Announced
    <2> QED
      BY <1>u, <1>l, <2>1 DEF Listed
  <1> QED
    BY <1>3, <1>4, <1>5

(* A handler reads the row, and an invoice that it is to write. *)
LEMMA DeliverOrder ==
    ASSUME TypeOK, History, Queued, Shown, Reading, Listed, InOrder,
           NEW w \in Workers, NEW i \in DOMAIN log, Deliver(w, i)
    PROVE  Shown' /\ Reading' /\ Listed'
  <1>1. /\ UNCHANGED <<stripe, latest, bills, log, acked, row, invoices, unpriced>>
        /\ handling' = [handling EXCEPT ![w] = i] /\ seen' = [seen EXCEPT ![w] = row]
        /\ billing' = [billing EXCEPT ![w] = IF OfInvoice(log[i]) THEN invoices[log[i].sub] ELSE "done"]
        /\ \A v \in Workers : handling[v] = 0
    BY DEF Deliver, MayDeliver, InOrder, remote, local, history
  <1>2. /\ handling'[w] = i /\ seen'[w] = row
        /\ billing'[w] = IF OfInvoice(log[i]) THEN invoices[log[i].sub] ELSE "done"
        /\ \A v \in Workers : v # w => handling'[v] = 0
    BY <1>1 DEF TypeOK
  <1>3. i # 0 /\ log[i].sub \in Subs
    BY LogEvents, LenProperties DEF TypeOK
  <1>4. Shown'
    BY <1>1 DEF Shown, Opened, Coming, Right
  <1>5. Reading'
    BY <1>1, <1>2 DEF Reading, Shown, Opened, Coming, Right
  <1>6. \A s \in Subs : invoices[s] # "done"
    BY DEF TypeOK, Bills
  <1>7. ASSUME NEW s \in Subs, Awaited(s) PROVE Awaited(s)'
    <2>1. PICK k \in DOMAIN log \ acked : OfInvoice(log[k]) /\ log[k].sub = s
      BY <1>7 DEF Awaited
    <2>2. \A v \in Workers : handling'[v] = k => billing'[v] # "done"
      <3>1. k # 0
        BY LenProperties DEF TypeOK
      <3> QED
        BY <1>2, <1>3, <1>6, <2>1, <3>1
    <2> QED
      BY <1>1, <2>1, <2>2 DEF Awaited
  <1>8. Listed'
    BY <1>1, <1>2, <1>7 DEF Listed, Replaced
  <1> QED
    BY <1>4, <1>5, <1>8

(* The last event of an invoice leaves it as Stripe has it. *)
LEMMA UpsertOrder ==
    ASSUME TypeOK, Told, Invoiced, History, Queued, Shown, Reading, Listed, InOrder,
           NEW w \in Workers, UpsertInvoice(w)
    PROVE  Shown' /\ Reading' /\ Listed'
  <1>d. PICK i \in DOMAIN log : i = handling[w] /\ i # 0
    BY DEF UpsertInvoice, TypeOK
  <1>e. PICK e \in Event : e = log[i]
    BY LogEvents
  <1>1. /\ UNCHANGED <<stripe, latest, bills, log, acked, handling, row, unpriced>>
        /\ seen' = [seen EXCEPT ![w] = row] /\ billing' = [billing EXCEPT ![w] = "done"]
        /\ i # 0 /\ billing[w] # "done"
        /\ invoices' = IF ~Customer(e, seen[w]) \/ billing[w] = Billed(e) THEN invoices
                       ELSE [invoices EXCEPT ![e.sub] = Billed(e)]
    BY <1>d, <1>e DEF UpsertInvoice, remote, history
  <1>2. /\ seen'[w] = row /\ billing'[w] = "done"
        /\ \A v \in Workers : handling[v] # 0 => v = w
    BY <1>d, <1>1 DEF TypeOK, Queued, InOrder
  <1>3. /\ i \in DOMAIN log \ acked /\ OfInvoice(e) /\ e.sub \in Subs
        /\ billing[w] = invoices[e.sub] /\ \A j \in DOMAIN log : j < i => j \in acked
    BY <1>d, <1>e, <1>1, LogEvents DEF TypeOK, Queued, InOrder, Invoiced, Listed
  <1>4. Shown'
    BY <1>1 DEF Shown, Opened, Coming, Right
  <1>5. Reading'
    BY <1>1, <1>2 DEF Reading, Shown, Opened, Coming, Right
  <1>6. 1 \in acked /\ row # NoRow /\ seen[w] # NoRow
    <2>1. 1 \in DOMAIN log /\ log # <<>> /\ i >= 1 /\ i \in Nat
      BY <1>3, LenProperties, EmptySeq DEF TypeOK
    <2>2. i # 1
      BY <1>3, <1>e, <2>1 DEF History, Provisions, OfInvoice
    <2>3. 1 \in acked
      BY <1>3, <2>1, <2>2
    <2> QED
      BY <1>d, <1>1, <2>3 DEF Shown, Reading
  (* The customer is the row's, once the latest subscription's checkout is  *)
  (* handled, which came before its invoices.                               *)
  <1>c. e.sub = latest => Customer(e, seen[w])
    <2> SUFFICES ASSUME e.sub = latest PROVE Customer(e, seen[w])
      OBVIOUS
    <2>1. latest # NoRow
      BY <1>3, ConstantsAssumption
    <2>2. PICK c \in DOMAIN log : Opens(c)
      BY <2>1 DEF History
    <2>3. i >= c /\ c # i /\ log[c].sub = latest
      <3>1. i \in DOMAIN log /\ log[i].sub = latest /\ OfInvoice(log[i])
        BY <1>3, <1>e
      <3> QED
        BY <2>2, <3>1 DEF Opens, Provisions, OfInvoice
    <2>4. c \in Nat /\ i \in Nat
      BY LogEvents
    <2>5. c \in acked
      BY <1>3, <2>3, <2>4
    <2>6. Opened
      BY <2>3, <2>5 DEF Opened
    <2>7. row.sub = latest
      BY <2>6 DEF Shown
    <2> QED
      BY <1>d, <1>6, <2>7 DEF Reading, Customer
  <1>r. e.sub # latest => Replaced(e.sub)
    BY <1>3, <1>e DEF Told, Replaced
  <1>7. /\ e.sub = latest => invoices'[e.sub] = Billed(e)
        /\ \A s \in Subs : s # e.sub => invoices'[s] = invoices[s]
    BY <1>1, <1>3, <1>c DEF TypeOK
  <1>8. ASSUME NEW s \in Subs, NEW k \in DOMAIN log \ acked, k # i, OfInvoice(log[k]), log[k].sub = s
        PROVE  Awaited(s)'
    <2>1. \A v \in Workers : handling'[v] # k
      <3>1. k # 0
        BY LenProperties DEF TypeOK
      <3> QED
        BY <1>d, <1>1, <1>2, <1>8, <3>1
    <2> QED
      BY <1>1, <1>8, <2>1 DEF Awaited
  <1>9. Replaced(e.sub)' \/ Awaited(e.sub)' \/ invoices'[e.sub] = bills[e.sub]
    <2>0. Replaced(e.sub)' <=> Replaced(e.sub)
      BY <1>1 DEF Replaced
    <2>1. CASE LaterBill(i)
      <3>1. PICK k \in DOMAIN log : k > i /\ log[k].sub = log[i].sub /\ OfInvoice(log[k])
        BY <2>1 DEF LaterBill
      <3>2. k \in Nat /\ i \in Nat
        BY <1>3, LogEvents
      <3>3. k \notin acked /\ k # i
        BY <1>3, <3>1, <3>2 DEF Queued, InOrder
      <3> QED
        BY <1>3, <1>8, <1>e, <3>1, <3>3
    <2>2. CASE ~LaterBill(i)
      BY <1>3, <1>e, <1>r, <1>7, <2>0, <2>2 DEF History
    <2> QED
      BY <2>1, <2>2
  <1>10. ASSUME NEW s \in Subs, s # e.sub PROVE Replaced(s)' \/ Awaited(s)' \/ invoices'[s] = bills[s]
    <2>1. CASE Awaited(s)
      <3>1. PICK k \in DOMAIN log \ acked : OfInvoice(log[k]) /\ log[k].sub = s
        BY <2>1 DEF Awaited
      <3> QED
        BY <1>8, <1>e, <1>10, <3>1
    <2>2. CASE ~Awaited(s)
      BY <1>1, <1>7, <1>10, <2>2 DEF Listed, Replaced
    <2> QED
      BY <2>1, <2>2
  <1>11. Listed'
    BY <1>1, <1>2, <1>9, <1>10 DEF Listed
  <1> QED
    BY <1>4, <1>5, <1>11

(* A call writes what it has made true at Stripe. *)
LEMMA CommitOrder ==
    ASSUME TypeOK, Known, Carried, Shown, Reading, Listed, InOrder', ApiCommit
    PROVE  Shown' /\ Reading' /\ Listed'
  <1>i. Idle.at = "idle"
    BY DEF Idle
  <1>1. /\ UNCHANGED <<stripe, latest, bills, log, acked, handling, seen, billing, invoices, unpriced>>
        /\ api.at = "commit" /\ row' = Flush(api.read, Edit(api.edit, api.read), row)
        /\ row.sub = api.read.sub
    BY DEF ApiCommit, remote, workers, InOrder
  <1>2. /\ api.edit \in Edits /\ api.read \in Row /\ row # NoRow /\ row \in Row
        /\ stripe[row.sub] # NoRow
        /\ IF Unpriced(api.edit) THEN api.edit.plan \in unpriced
           ELSE Edit(api.edit, stripe[row.sub]) = stripe[row.sub]
        /\ stripe[row.sub] \in Row
    <2>1. api # Idle
      BY <1>i, <1>1
    <2> QED
      BY <1>1, <2>1, RowShape DEF TypeOK, Known, Carried
  <1>3. Edit(api.edit, api.read) \in Row /\ Edit(api.edit, api.read).sub = api.read.sub
    BY <1>2, EditType
  <1>4. row' \in Row /\ row' # NoRow /\ row'.sub = row.sub
    BY <1>1, <1>2, <1>3, FlushType, RowShape
  <1>5. ASSUME NEW f \in Facts
        PROVE  \/ row'[f] = row[f] \/ row'[f] = stripe[row.sub][f]
               \/ f = "plan" /\ row'[f] \in unpriced
    <2>1. row'[f] = IF Edit(api.edit, api.read)[f] # api.read[f] THEN Edit(api.edit, api.read)[f] ELSE row[f]
      BY <1>1, <1>2, <1>3, FlushFacts
    <2>2. CASE Unpriced(api.edit)
      <3>1. Edit(api.edit, api.read) = [api.read EXCEPT !.plan = api.edit.plan] /\ api.edit.plan \in unpriced
        BY <1>2, <2>2 DEF Unpriced, Edit
      <3> QED
        BY <1>2, <2>1, <3>1 DEF Row, Facts
    <2>3. CASE ~Unpriced(api.edit)
      <3>1. Edit(api.edit, api.read)[f] # api.read[f]
               => Edit(api.edit, stripe[row.sub])[f] = Edit(api.edit, api.read)[f]
        BY <1>2, EditFacts
      <3> QED
        BY <1>2, <2>1, <2>3, <3>1
    <2> QED
      BY <2>2, <2>3
  <1>6. Opened' = Opened /\ \A f \in Facts : Coming(f)' = Coming(f)
    BY <1>1 DEF Opened, Coming
  <1>7. Shown'
    <2>1. ASSUME Opened PROVE \A f \in Facts : ~Coming(f) => Right(row, f)'
      <3>1. row.sub = latest /\ \A f \in Facts : ~Coming(f) => Right(row, f)
        BY <2>1 DEF Shown
      <3>2. ASSUME NEW f \in Facts, ~Coming(f) PROVE Right(row, f)'
        BY <1>1, <1>5, <3>1, <3>2 DEF Right
      <3> QED
        BY <3>2
    <2> QED
      BY <1>1, <1>4, <1>6, <2>1 DEF Shown
  <1>8. Reading'
    <2>1. ASSUME NEW w \in Workers, handling[w] # 0, Opened, NEW f \in Facts
          PROVE  /\ \/ seen[w][f] = row'[f] \/ Right(row, f)'
                    \/ \E j \in DOMAIN log : j > handling[w] /\ log[j].sub = latest /\ f \in Brings(log[j].type)
                 /\ ~Coming(f) => Right(seen[w], f)'
      <3>1. row.sub = latest
        BY <2>1 DEF Shown
      <3>2. Right(seen[w], f) <=> Right(seen[w], f)'
        BY <1>1 DEF Right
      <3>3. \/ seen[w][f] = row[f] \/ Right(row, f)
            \/ \E j \in DOMAIN log : j > handling[w] /\ log[j].sub = latest /\ f \in Brings(log[j].type)
        BY <2>1 DEF Reading
      <3>4. Right(row, f) => Right(row, f)'
        BY <1>1, <1>5, <3>1 DEF Right
      <3>5. row'[f] = row[f] \/ Right(row, f)'
        BY <1>1, <1>5, <3>1 DEF Right
      <3> QED
        BY <2>1, <3>2, <3>3, <3>4, <3>5 DEF Reading
    <2> QED
      BY <1>1, <1>2, <1>4, <1>6, <2>1 DEF Reading
  <1>9. Listed'
    BY <1>1 DEF Listed, Awaited, Replaced
  <1> QED
    BY <1>7, <1>8, <1>9

(* What a provisioning event brings, whatever the row was. *)
LEMMA ProvisionFacts ==
    ASSUME NEW e \in Event, Speaks(e), Provisions(e), NEW r \in Row \union {NoRow}
    PROVE  Handled(e, r) \in Row /\ Handled(e, r) # NoRow /\ Handled(e, r).sub = e.sub
  <1>1. Handled(e, r).sub = e.sub
    BY DEF Handled
  <1>2. Handled(e, r) \in Row
    BY ConstantsAssumption DEF Handled, Row, Event, Statuses
  <1> QED
    BY <1>1, <1>2, RowShape

(* Handling an event shows what it brings; if it is of another              *)
(* subscription than the latest, it is of an earlier one.                  *)
LEMMA HandleOrder ==
    ASSUME TypeOK, History, Queued, Shown, Reading, Listed, InOrder,
           NEW w \in Workers, Handle(w)
    PROVE  Shown' /\ Reading' /\ Listed'
  <1>d. PICK i \in DOMAIN log : i = handling[w] /\ i # 0
    BY DEF Handle, TypeOK
  <1>e. PICK e \in Event : e = log[i] /\ Speaks(e)
    BY LogEvents DEF History
  <1>n. PICK new : new = Handled(e, seen[w])
    OBVIOUS
  <1>1. /\ UNCHANGED <<stripe, latest, bills, log, invoices, unpriced>>
        /\ billing[w] = "done" /\ ~Conflicts(w)
        /\ row' = IF seen[w] = NoRow \/ row = NoRow THEN (IF new = NoRow THEN row ELSE new)
                  ELSE Flush(seen[w], new, row)
        /\ acked' = acked \union {i} /\ handling' = [handling EXCEPT ![w] = 0]
    BY <1>d, <1>e, <1>n DEF Handle, Acknowledge, remote, history
  <1>2. \A v \in Workers : handling'[v] = 0
    BY <1>d, <1>1 DEF TypeOK, Queued, InOrder
  <1>3. /\ i \notin acked /\ acked \subseteq DOMAIN log
        /\ \A j \in DOMAIN log : j < i => j \in acked
        /\ \A j \in acked, k \in DOMAIN log : k < j => k \in acked
    BY <1>d DEF Queued, InOrder
  <1>4. \A j \in DOMAIN log : j \in Nat /\ j >= 1
    BY LenProperties DEF TypeOK
  <1>5. /\ seen[w] = NoRow <=> row = NoRow
        /\ seen[w] # NoRow => seen[w].sub = row.sub
        /\ seen[w] \in Row \union {NoRow} /\ row \in Row \union {NoRow}
    BY <1>d DEF Reading, TypeOK
  <1>6. /\ row = NoRow => i = 1 /\ acked = {} /\ Provisions(e) /\ row' = new
        /\ row # NoRow => seen[w] \in Row /\ row \in Row /\ new \in Row /\ row' = Flush(seen[w], new, row)
    <2>1. CASE row = NoRow
      <3>1. 1 \notin acked /\ log # <<>> /\ 1 \in DOMAIN log
        BY <2>1, <1>d, <1>4, EmptySeq, LenProperties DEF Shown, TypeOK
      <3>2. i = 1 /\ acked = {}
        BY <1>3, <1>4, <3>1
      <3>3. Provisions(e)
        BY <1>e, <3>1, <3>2 DEF History
      <3>4. new # NoRow
        BY <1>e, <1>5, <1>n, <3>3, ProvisionFacts
      <3> QED
        BY <1>1, <2>1, <3>2, <3>3, <3>4
    <2>2. CASE row # NoRow
      BY <1>1, <1>5, <1>n, <2>2, HandledType
    <2> QED
      BY <2>1, <2>2
  <1>7. row' \in Row /\ row' # NoRow /\ row'.sub = new.sub
    <2>1. CASE row = NoRow
      BY <1>6, <1>e, <1>5, <1>n, <2>1, ProvisionFacts
    <2>2. CASE row # NoRow
      BY <1>5, <1>6, <2>2, FlushType, RowShape
    <2> QED
      BY <2>1, <2>2
  <1>8. ASSUME Opened'
        PROVE  row'.sub = latest /\ \A f \in Facts : ~Coming(f)' => Right(row', f)
    <2>1. PICK k \in acked \union {i} : log[k].sub = latest
      BY <1>1, <1>8 DEF Opened
    <2>2. PICK c \in DOMAIN log : Opens(c)
      <3>1. latest # NoRow
        BY <1>3, <2>1, LogEvents, ConstantsAssumption
      <3> QED
        BY <3>1 DEF History
    <2>3. /\ c + 1 \in DOMAIN log /\ log[c].sub = latest /\ Provisions(log[c])
          /\ log[c + 1].sub = latest /\ log[c + 1].type = "updated"
          /\ \A j \in DOMAIN log : /\ log[j].sub = latest => j >= c
                                   /\ Provisions(log[j]) /\ j >= c => log[j].sub = latest
      BY <2>2 DEF Opens
    <2>4. c = i \/ c \in acked
      <3>1. k >= c /\ k \in DOMAIN log /\ k \in Nat /\ c \in Nat
        BY <1>3, <1>4, <2>1, <2>3
      <3> QED
        BY <1>3, <2>1, <3>1
    <2>5. CASE c = i
      <3>1. row'.sub = latest
        BY <1>7, <1>5, <1>e, <1>n, <2>3, <2>5, ProvisionFacts
      <3>2. c + 1 \notin acked'
        BY <1>1, <1>3, <1>4, <2>3, <2>5
      <3>3. \A f \in Facts : f \in Brings(log[c + 1].type)
        BY <2>3 DEF Brings
      <3>4. \A f \in Facts : Coming(f)'
        BY <1>1, <2>3, <3>2, <3>3 DEF Coming
      <3> QED
        BY <3>1, <3>4
    <2>6. CASE c \in acked
      <3>1. Opened /\ i > c
        <4>1. Opened
          BY <2>3, <2>6 DEF Opened
        <4> QED
          BY <1>3, <1>4, <2>6, <4>1
      <3>2. row # NoRow /\ row.sub = latest /\ seen[w] # NoRow /\ seen[w].sub = latest
        BY <1>5, <3>1 DEF Shown
      <3>3. \A f \in Facts : f \notin Brings(e.type) \/ e.sub # latest => (~Coming(f)' => ~Coming(f))
        BY <1>1, <1>e DEF Coming
      <3>4. CASE e.sub # latest
        <4>1. ~Provisions(e)
          BY <1>e, <1>4, <2>3, <3>1, <3>4
        <4>2. new = seen[w]
          BY <1>n, <3>2, <3>4, <4>1 DEF Handled, Mine
        <4>3. \A f \in Facts : row'[f] = row[f]
          BY <1>6, <3>2, <4>2, FlushFacts
        <4> QED
          BY <1>7, <3>1, <3>2, <3>3, <3>4, <4>2, <4>3 DEF Shown, Right
      <3>5. CASE e.sub = latest
        <4>1. row'.sub = latest
          BY <1>n, <1>6, <1>7, <3>2, <3>5, HandledType
        <4>2. ASSUME NEW f \in Facts, ~Coming(f)' PROVE Right(row', f)
          <5>1. row'[f] = IF new[f] # seen[w][f] THEN new[f] ELSE row[f]
            BY <1>6, <3>2, FlushFacts
          <5>2. new[f] = IF f \in Brings(e.type) THEN e[f]
                         ELSE IF e.type = "paid" /\ f = "status" /\ seen[w].status = "past_due" THEN "active"
                         ELSE seen[w][f]
            BY <1>e, <1>n, <1>6, <3>2, <3>5, HandledFacts
          <5>3. \A j \in DOMAIN log : j > i /\ log[j].sub = latest => f \notin Brings(log[j].type)
            <6> SUFFICES ASSUME NEW j \in DOMAIN log, j > i, log[j].sub = latest PROVE f \notin Brings(log[j].type)
              OBVIOUS
            <6>1. j \notin acked'
              BY <1>1, <1>3, <1>4
            <6> QED
              BY <1>1, <4>2, <6>1 DEF Coming
          <5>4. e[f] = stripe[latest][f]
            <6>1. ~Later(i, f)
              BY <1>e, <3>5, <5>3 DEF Later
            <6> QED
              BY <1>e, <3>5, <6>1 DEF History
          <5>5. CASE f \in Brings(e.type)
            <6>1. seen[w][f] = row[f] \/ Right(row, f)
              BY <1>d, <3>1, <5>3 DEF Reading
            <6> QED
              BY <5>1, <5>2, <5>4, <5>5, <6>1 DEF Right
          <5>6. CASE f \notin Brings(e.type)
            <6>1. Right(row, f) /\ Right(seen[w], f)
              BY <1>d, <3>1, <3>3, <4>2, <5>6 DEF Shown, Reading
            <6>2. e.type = "paid" /\ f = "status" => seen[w].status = "active"
              BY <1>e, <5>4, <6>1 DEF Speaks, Right
            <6>3. row'[f] = row[f]
              BY <5>1, <5>2, <5>6, <6>2
            <6> QED
              BY <6>1, <6>3 DEF Right
          <5> QED
            BY <5>5, <5>6
        <4> QED
          BY <4>1, <4>2
      <3> QED
        BY <3>4, <3>5
    <2> QED
      BY <2>4, <2>5, <2>6
  <1>9. Shown'
    <2>1. \A f \in Facts : Right(row', f) => Right(row, f)'
      BY <1>1 DEF Right
    <2> QED
      BY <1>1, <1>7, <1>8, <2>1 DEF Shown
  <1>10. Reading'
    BY <1>2 DEF Reading
  <1>11. ASSUME NEW s \in Subs, Awaited(s) PROVE Awaited(s)'
    <2>1. PICK k \in DOMAIN log \ acked : /\ OfInvoice(log[k]) /\ log[k].sub = s
                                          /\ \A v \in Workers : handling[v] = k => billing[v] # "done"
      BY <1>11 DEF Awaited
    <2>2. k # i /\ k # 0
      BY <1>1, <1>4, <1>d, <2>1
    <2> QED
      BY <1>1, <1>2, <2>1, <2>2 DEF Awaited
  <1>12. Listed'
    BY <1>1, <1>2, <1>11 DEF Listed, Replaced
  <1> QED
    BY <1>9, <1>10, <1>12

(* The inductive invariant of delivery in order. *)
Orderly == History /\ Carried /\ Queued /\ (InOrder => Shown /\ Reading /\ Listed)

LEMMA OrderlyStep == Faithful /\ Orderly /\ [Next]_vars => Orderly'
  <1> SUFFICES ASSUME Faithful, Orderly, [Next]_vars PROVE Orderly'
    OBVIOUS
  <1>0. TypeOK /\ TypeOK' /\ Known /\ Told /\ Invoiced /\ History /\ Carried /\ Queued
    BY FaithfulStep DEF Faithful, Orderly
  <1>1. History' /\ Announced /\ Carried'
    BY <1>0, HistoryStep
  <1>2. Queued'
    BY <1>0, <1>1, QueuedStep
  <1>3. ASSUME InOrder' PROVE Shown' /\ Reading' /\ Listed'
    <2>1. InOrder /\ Shown /\ Reading /\ Listed
      BY <1>3, InOrderBefore DEF Orderly
    <2>2. ASSUME UNCHANGED <<workers, local>>, unpriced \subseteq unpriced' PROVE Shown' /\ Reading' /\ Listed'
      BY <1>0, <1>1, <2>1, <2>2, LooksOn
    <2>3. CASE Stripe \/ UNCHANGED vars
      <3>1. UNCHANGED <<workers, local, unpriced>>
        BY <2>3 DEF Stripe, Checkout, RenewalFails, RenewalPaid, StripeCancels, vars, history
      <3> QED
        BY <2>2, <3>1
    <2>4. ASSUME NEW w \in Workers, NEW i \in DOMAIN log, Deliver(w, i) PROVE Shown' /\ Reading' /\ Listed'
      BY <1>0, <2>1, <2>4, DeliverOrder
    <2>5. ASSUME NEW w \in Workers, UpsertInvoice(w) PROVE Shown' /\ Reading' /\ Listed'
      BY <1>0, <2>1, <2>5, UpsertOrder
    <2>6. ASSUME NEW w \in Workers, Handle(w) PROVE Shown' /\ Reading' /\ Listed'
      BY <1>0, <2>1, <2>6, HandleOrder
    <2>7. ASSUME NEW w \in Workers, Swallow(w) PROVE FALSE
      BY <1>3, <2>7 DEF Swallow, InOrder
    <2>8. ASSUME NEW i \in DOMAIN log, Redeliver(i) PROVE FALSE
      BY <2>1, <2>8 DEF Redeliver, InOrder
    <2>9. CASE (\E edit \in Edits : ApiRead(edit)) \/ ApiStripe \/ ApiFails
      <3>1. UNCHANGED <<workers, local>> /\ unpriced \subseteq unpriced'
        BY <2>9 DEF ApiRead, ApiStripe, ApiFails, history
      <3> QED
        BY <2>2, <3>1
    <2>10. CASE ApiCommit
      BY <1>0, <1>3, <2>1, <2>10, CommitOrder
    <2> QED
      BY <2>3, <2>4, <2>5, <2>6, <2>7, <2>8, <2>9, <2>10 DEF Next, Webhook, Api
  <1> QED
    BY <1>1, <1>2, <1>3 DEF Orderly

(* Events delivered and handled in order bring the organization's row, but  *)
(* for a plan that has no price, and the invoice to what Stripe shows of   *)
(* the subscription bought last, for any number of checkouts, renewals,    *)
(* cancellations and API calls, also calls that die between Stripe and the *)
(* commit or that commit while a handler is between its read and its       *)
(* commit (webhook_handler.py:14, 197-236, service.py:113-136).            *)
THEOREM Synchronized == Spec => []SyncedInOrder
  <1>1. Init => Orderly
    <2> SUFFICES ASSUME Init PROVE Orderly
      OBVIOUS
    <2>1. /\ DOMAIN log = {} /\ log = <<>> /\ api.at = "idle" /\ acked = {} /\ latest = NoRow /\ row = NoRow
          /\ \A s \in Subs : stripe[s] = NoRow
          /\ \A w \in Workers : handling[w] = 0
          /\ invoices = bills
      BY EmptySeq DEF Init, Idle
    <2>2. History
      BY <2>1 DEF History
    <2>3. Carried /\ Queued
      BY <2>1 DEF Carried, Queued
    <2>4. Shown /\ Reading /\ Listed
      BY <2>1 DEF Shown, Reading, Listed, Opened
    <2> QED
      BY <2>2, <2>3, <2>4 DEF Orderly
  <1>2. Faithful /\ Orderly => SyncedInOrder
    <2> SUFFICES ASSUME Faithful, Orderly, InOrder, Quiet, latest # NoRow
                 PROVE  /\ row # NoRow
                        /\ \/ row = stripe[latest]
                           \/ row = [stripe[latest] EXCEPT !.plan = row.plan] /\ row.plan \in unpriced
                        /\ invoices[latest] = bills[latest]
      BY DEF SyncedInOrder, InOrder, Synced
    <2>1. TypeOK /\ History /\ Shown /\ Listed /\ acked = DOMAIN log
      BY DEF Faithful, Orderly, Quiet
    <2>2. Opened
      BY <2>1 DEF Opened, History, Opens
    <2>3. \A f \in Facts : ~Coming(f)
      BY <2>1 DEF Coming
    <2>4. row # NoRow /\ row.sub = latest /\ \A f \in Facts : Right(row, f)
      BY <2>1, <2>2, <2>3 DEF Shown
    <2>5. row \in Row /\ stripe[latest] \in Row /\ stripe[latest].sub = latest
      BY <2>1, <2>4 DEF TypeOK, History
    <2>6. \/ row = stripe[latest]
          \/ row = [stripe[latest] EXCEPT !.plan = row.plan] /\ row.plan \in unpriced
      <3>1. /\ row.status = stripe[latest].status /\ row.ending = stripe[latest].ending
            /\ row.plan = stripe[latest].plan \/ row.plan \in unpriced
        BY <2>4 DEF Right, Facts
      <3> QED
        BY <2>4, <2>5, <3>1 DEF Row
    <2>7. invoices[latest] = bills[latest]
      BY <2>1 DEF Listed, Awaited, Replaced, TypeOK
    <2> QED
      BY <2>4, <2>6, <2>7
  <1>3. Spec => []Orderly
    <2>1. Faithful /\ Faithful' /\ Orderly /\ [Next]_vars => Orderly'
      BY OrderlyStep
    <2> QED
      BY <1>1, <2>1, FaithfulAlways, PTL DEF Spec
  <1> QED
    BY <1>2, <1>3, FaithfulAlways, PTL
=============================================================================
