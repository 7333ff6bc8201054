------------------------------- MODULE Billing -------------------------------
(***************************************************************************)
(* Paid subscriptions of HealthPage: billing.Service as the API process    *)
(* runs it (Checkout, Cancel, HandleWebhook, any number at a time) and as  *)
(* worker-billing runs it (ProcessDue, one pass after the other), over the *)
(* rows of subscriptions, payments and accounts.billing_plan.              *)
(*                                                                         *)
(* Every call to the database or to the payment provider is a step of its  *)
(* own: the service opens no transaction, and UpdateSubscription writes    *)
(* the whole row from the copy its caller read earlier.  Amounts, receipts *)
(* and the choice of period play no part in the control flow.              *)
(***************************************************************************)
EXTENDS Integers, FiniteSets

CONSTANTS
    Accounts,
    FirstPayments,  \* ids of the payment rows Checkout creates
    Renewals,       \* ids of the payment rows ProcessDue creates
    Hooks,          \* concurrent executions of POST /webhooks/billing
    PeriodLen,      \* BillingPeriod.Advance, in ticks
    RetryInterval,  \* BILLING_RETRY_INTERVAL, in ticks
    MaxDunning,     \* BILLING_MAX_DUNNING
    Horizon,        \* the last tick of the clock
    MaxFaults,      \* bound on failing calls in one behaviour
    None            \* no account, no payment

Payments == FirstPayments \cup Renewals
Ends == 0 .. Horizon + PeriodLen + RetryInterval    \* of a period, or of a grace

ASSUME BillingConstants ==
    /\ FirstPayments \cap Renewals = {} /\ IsFiniteSet(Renewals)
    /\ PeriodLen \in Nat \ {0} /\ RetryInterval \in Nat \ {0}
    /\ MaxDunning \in Nat \ {0}
    /\ Horizon \in Nat /\ MaxFaults \in Nat
    /\ None \notin Accounts /\ None \notin Payments

VARIABLES
    now,        \* the clock, from tick 1
    subs,       \* Accounts -> row of subscriptions
    plan,       \* Accounts -> accounts.billing_plan
    pay,        \* Payments -> row of payments
    prov,       \* Payments -> state of the payment at the provider (external)
    events,     \* notifications the provider has not seen answered with 2xx
    co,         \* FirstPayments -> the Checkout call that made the payment
    hk,         \* Hooks -> execution of HandleWebhook
    cn,         \* Accounts -> execution of Cancel
    wk,         \* worker-billing: its place in ProcessDue
    \* History variables, read by the properties only.
    activated,  \* Payments for which activate turned the plan on
    credit,     \* Accounts \X ends -> periods opened with that end, less charges
    asked,      \* Accounts that have called Cancel at some time
    applied,    \* Payments whose activate has written the subscription
    optedOut,   \* Accounts whose Cancel nobody overlapped, no payment since
    reactivated, \* Accounts a payment activated once more, no such Cancel since
    faults      \* failed calls so far

rowVars == <<subs, plan, pay>>
extVars == <<now, prov, events>>
histVars == <<activated, credit, asked, applied, optedOut, reactivated>>
vars == <<now, subs, plan, pay, prov, events, co, hk, cn, wk, activated,
          credit, asked, applied, optedOut, reactivated, faults>>

\* The words of the provider for a finished payment, and ours for a payment.
ProviderStatuses == {"succeeded", "canceled", "refunded"}

\* A row of subscriptions.  end = 0 is a NULL current_period_end; token says
\* whether a saved payment method is known.
SubRow == [plan: {"free", "premium"},
           status: {"pending", "active", "past_due", "canceled"},
           token: BOOLEAN, end: Nat, cancel: BOOLEAN, dunning: Nat]
PayRow == [account: Accounts \cup {None}, linked: BOOLEAN,
           status: {"none", "pending", "succeeded", "failed", "refunded"}]

NewSub == [plan |-> "free", status |-> "active", token |-> FALSE, end |-> 0,
           cancel |-> FALSE, dunning |-> 0]
NoPay == [account |-> None, linked |-> FALSE, status |-> "none"]

\* A caller that is not running holds no copy of a row.
NoHook == [pc |-> "idle", pay |-> None, event |-> "failed", at |-> 0, sub |-> NewSub]
NoCancel == [pc |-> "idle", sub |-> NewSub]
NoPass == [pc |-> "idle", batch |-> {}, snap |-> [a \in Accounts |-> NewSub],
           acc |-> None, pay |-> None, at |-> 0]

\* The type of the state: the three tables, the provider and the callers.
TypeOK ==
    /\ now \in Nat /\ faults \in Nat
    /\ subs \in [Accounts -> SubRow]
    /\ plan \in [Accounts -> {"free", "premium"}]
    /\ pay \in [Payments -> PayRow]
    /\ prov \in [Payments -> {"none", "created"} \cup ProviderStatuses]
    /\ events \in SUBSET (Payments \X ProviderStatuses)
    /\ co \in [FirstPayments -> [pc: {"none", "create", "link", "save", "done", "error"},
                                 sub: SubRow]]
    /\ hk \in [Hooks -> [pc: {"idle", "mark", "read", "save", "plan"},
                         pay: Payments \cup {None},
                         event: {"succeeded", "failed", "refunded"},
                         at: Nat, sub: SubRow]]
    /\ cn \in [Accounts -> [pc: {"idle", "save"}, sub: SubRow]]
    /\ wk \in [pc: {"idle", "next", "charge", "mark", "markfailed", "save", "plan"},
               batch: SUBSET Accounts, snap: [Accounts -> SubRow],
               acc: Accounts \cup {None}, pay: Payments \cup {None}, at: Nat]
    /\ activated \in SUBSET Payments
    /\ credit \in [Accounts -> [Ends -> Int]]
    /\ asked \in SUBSET Accounts /\ applied \in SUBSET Payments
    /\ optedOut \in SUBSET Accounts /\ reactivated \in SUBSET Accounts

Init ==
    /\ now = 1 /\ faults = 0
    /\ subs = [a \in Accounts |-> NewSub]
    /\ plan = [a \in Accounts |-> "free"]
    /\ pay = [p \in Payments |-> NoPay]
    /\ prov = [p \in Payments |-> "none"]
    /\ events = {}
    /\ co = [p \in FirstPayments |-> [pc |-> "none", sub |-> NewSub]]
    /\ hk = [h \in Hooks |-> NoHook]
    /\ cn = [a \in Accounts |-> NoCancel]
    /\ wk = NoPass
    /\ activated = {}
    /\ credit = [a \in Accounts |-> [t \in Ends |-> 0]]
    /\ asked = {} /\ applied = {} /\ optedOut = {} /\ reactivated = {}

\* History: a period or a grace that ends at t begins.
Opened(a, t) == [credit EXCEPT ![a][t] = @ + 1]

\* A call that fails, or a process that dies before making it.
Fault == faults < MaxFaults /\ faults' = faults + 1

-----------------------------------------------------------------------------
(* The queries.  Each is a statement of its own.                           *)

\* The row of the account, made if there was none (every account has one here).
EnsureSubscription(a) == subs[a]
SubscriptionByAccount(a) == subs[a]

\* The whole row is written.
UpdateSubscription(a, row) == subs' = [subs EXCEPT ![a] = row]

SetAccountPlan(a, p) == plan' = [plan EXCEPT ![a] = p]

\* A new row, for an id not used yet.
CreatePayment(p, a) ==
    /\ pay[p].status = "none"
    /\ pay' = [pay EXCEPT ![p] = [account |-> a, linked |-> FALSE,
                                  status |-> "pending"]]

\* A payment is found by the provider's id once that is stored.
PaymentByProviderID(p) == pay[p].linked

\* The provider's id is stored when it is given and kept when it is not.
UpdatePaymentResult(p, status, id) ==
    pay' = [pay EXCEPT ![p].status = status, ![p].linked = @ \/ id]

\* ListDueSubscriptions.
Due(s) ==
    /\ s.plan = "premium" /\ s.status \in {"active", "past_due"}
    /\ s.end # 0 /\ s.end <= now

-----------------------------------------------------------------------------
(* Checkout.                                                               *)

Return(p, how) == co' = [co EXCEPT ![p] = [pc |-> how, sub |-> NewSub]]

\* EnsureSubscription, and the pending payment row, which nobody looks up
\* before CheckoutLink.
CheckoutBegin(p, a) ==
    /\ co[p].pc = "none"
    /\ CreatePayment(p, a)
    /\ co' = [co EXCEPT ![p] = [pc |-> "create", sub |-> EnsureSubscription(a)]]
    /\ UNCHANGED <<subs, plan, extVars, hk, cn, wk, histVars, faults>>

\* provider.CreatePayment; when it fails the payment may exist there or not.
CheckoutCreate(p) ==
    /\ co[p].pc = "create"
    /\ \/ /\ prov' = [prov EXCEPT ![p] = "created"]
          /\ co' = [co EXCEPT ![p].pc = "link"]
          /\ UNCHANGED faults
       \/ /\ Fault
          /\ prov' \in {prov, [prov EXCEPT ![p] = "created"]}
          /\ Return(p, "error")
    /\ UNCHANGED <<rowVars, now, events, hk, cn, wk, histVars>>

\* Mutant: the provider's id is not stored with the payment.
CheckoutLinkForgets(p) ==
    /\ co[p].pc = "link"
    /\ co' = [co EXCEPT ![p].pc = "save"]
    /\ UNCHANGED <<rowVars, extVars, hk, cn, wk, histVars, faults>>

\* UpdatePaymentResult: status pending again, and the provider's id.
CheckoutLink(p) ==
    /\ co[p].pc = "link"
    /\ \/ /\ UpdatePaymentResult(p, "pending", TRUE)
          /\ co' = [co EXCEPT ![p].pc = "save"]
          /\ UNCHANGED faults
       \/ /\ Fault
          /\ Return(p, "error")
          /\ UNCHANGED pay
    /\ UNCHANGED <<subs, plan, extVars, hk, cn, wk, histVars>>

\* Mutant: a new checkout turns the automatic renewal on before it is paid.
CheckoutSaveRenews(p) ==
    /\ co[p].pc = "save"
    /\ UpdateSubscription(pay[p].account,
                          [co[p].sub EXCEPT !.status = "pending", !.cancel = FALSE])
    /\ Return(p, "done")
    /\ UNCHANGED <<plan, pay, extVars, hk, cn, wk, histVars, faults>>

\* UpdateSubscription from the copy read at the start, and the answer with
\* the confirmation URL.
CheckoutSave(p) ==
    /\ co[p].pc = "save"
    /\ \/ /\ UpdateSubscription(pay[p].account, [co[p].sub EXCEPT !.status = "pending"])
          /\ Return(p, "done")
          /\ UNCHANGED faults
       \/ /\ Fault
          /\ Return(p, "error")
          /\ UNCHANGED subs
    /\ UNCHANGED <<plan, pay, extVars, hk, cn, wk, histVars>>

-----------------------------------------------------------------------------
(* The provider and its customer (external).                               *)

Report(p, s) ==
    /\ prov' = [prov EXCEPT ![p] = s]
    /\ events' = events \cup {<<p, s>>}

\* The customer who got the URL pays, or lets the payment expire.
CustomerDecides(p) ==
    /\ prov[p] = "created" /\ co[p].pc = "done"
    /\ \E s \in {"succeeded", "canceled"} : Report(p, s)
    /\ UNCHANGED <<rowVars, now, co, hk, cn, wk, histVars, faults>>

\* The money is given back in the provider's own console.
Refund(p) ==
    /\ prov[p] = "succeeded"
    /\ Report(p, "refunded")
    /\ UNCHANGED <<rowVars, now, co, hk, cn, wk, histVars, faults>>

-----------------------------------------------------------------------------
(* HandleWebhook.  Notifications are redelivered until answered 2xx, may   *)
(* arrive in any order and may be handled twice at the same time.          *)

\* The provider's word for a finished payment, in terms of payments.status.
ykStatus(s) == IF s = "canceled" THEN "failed" ELSE s

\* Mutant: a repeated success is not recognised.
HandledUnlessPaid(row, status) == row.status = status /\ status # "succeeded"

\* The idempotency test, on the row as it was read.
Handled(row, status) == row.status = status \/ row.status = "succeeded"

\* Mutant: every notification about a known payment counts as a success.
ActivatesAlways(status) == TRUE

\* The switch: which status turns the subscription on.
Activates(status) == status = "succeeded"

\* The row activate writes over the one it read.
Activated(s, at, token) ==
    [s EXCEPT !.plan = "premium", !.status = "active", !.end = at + PeriodLen,
              !.cancel = FALSE, !.dunning = 0, !.token = token]

HookStep(h, label) == hk' = [hk EXCEPT ![h].pc = label]
HookReturns(h) == hk' = [hk EXCEPT ![h] = NoHook]
HookFails(h) == Fault /\ HookReturns(h)           \* 5xx: the event remains
Answered(h, e) == HookReturns(h) /\ events' = events \ {e}

\* PaymentByProviderID and the idempotency test.  Any error of the lookup is
\* taken for an unknown payment, which is answered 202 and forgotten.
HookReceive(h, e) ==
    /\ hk[h].pc = "idle" /\ e \in events
    /\ LET p == e[1]
           status == ykStatus(e[2])
           ours == PaymentByProviderID(p) /\ ~Handled(pay[p], status)
       IN \/ /\ ours
             /\ hk' = [hk EXCEPT ![h] = [@ EXCEPT !.pc = "mark", !.pay = p,
                                                  !.event = status, !.at = now]]
             /\ UNCHANGED <<events, faults>>
          \/ ~ours /\ Answered(h, e) /\ UNCHANGED faults
          \/ Fault /\ Answered(h, e)
    /\ UNCHANGED <<rowVars, now, prov, co, cn, wk, histVars>>

\* The notification an execution is handling.
Handling(h) == CHOOSE e \in Payments \X ProviderStatuses :
                  e[1] = hk[h].pay /\ ykStatus(e[2]) = hk[h].event

\* UpdatePaymentResult; a success goes on with the subscription.
HookMark(h) ==
    /\ hk[h].pc = "mark"
    /\ \/ /\ UpdatePaymentResult(hk[h].pay, hk[h].event, FALSE)
          /\ \/ Activates(hk[h].event) /\ HookStep(h, "read") /\ UNCHANGED events
             \/ ~Activates(hk[h].event) /\ Answered(h, Handling(h))
          /\ UNCHANGED faults
       \/ HookFails(h) /\ UNCHANGED <<pay, events>>
    /\ UNCHANGED <<subs, plan, now, prov, co, cn, wk, histVars>>

\* activate: SubscriptionByAccount, and the new values; the event may carry
\* the token of the saved payment method.
HookRead(h) ==
    /\ hk[h].pc = "read"
    /\ LET s == SubscriptionByAccount(pay[hk[h].pay].account)
       IN \/ /\ \E t \in {TRUE, s.token} :
                   hk' = [hk EXCEPT ![h].pc = "save",
                                    ![h].sub = Activated(s, hk[h].at, t)]
             /\ UNCHANGED faults
          \/ HookFails(h)
    /\ UNCHANGED <<rowVars, extVars, co, cn, wk, histVars>>

\* History: payment p activates the subscription of a, for the first time,
\* which is a new start for its cancellations, or once more.
Applies(p, a) ==
    /\ applied' = applied \cup {p}
    /\ optedOut' = IF p \in applied THEN optedOut ELSE optedOut \ {a}
    /\ reactivated' = IF p \in applied THEN reactivated \cup {a} ELSE reactivated

\* activate: UpdateSubscription.
HookSave(h) ==
    /\ hk[h].pc = "save"
    /\ LET a == pay[hk[h].pay].account
       IN \/ /\ UpdateSubscription(a, hk[h].sub)
             /\ Applies(hk[h].pay, a)
             /\ credit' = Opened(a, hk[h].sub.end)
             /\ HookStep(h, "plan")
             /\ UNCHANGED faults
          \/ HookFails(h) /\ UNCHANGED <<subs, applied, optedOut, reactivated, credit>>
    /\ UNCHANGED <<plan, pay, extVars, co, cn, wk, activated, asked>>

\* activate: SetAccountPlan, and the 202.
HookPlan(h) ==
    /\ hk[h].pc = "plan"
    /\ LET p == hk[h].pay
       IN \/ /\ SetAccountPlan(pay[p].account, "premium")
             /\ activated' = activated \cup {p}
             /\ Answered(h, Handling(h))
             /\ UNCHANGED faults
          \/ HookFails(h) /\ UNCHANGED <<plan, activated, events>>
    /\ UNCHANGED <<subs, pay, now, prov, co, cn, wk, credit, asked, applied,
                   optedOut, reactivated>>

-----------------------------------------------------------------------------
(* Cancel.                                                                 *)

CancelBegin(a) ==
    /\ cn[a].pc = "idle"
    /\ cn' = [cn EXCEPT ![a] = [pc |-> "save",
                                sub |-> [EnsureSubscription(a) EXCEPT !.cancel = TRUE]]]
    /\ asked' = asked \cup {a}
    /\ UNCHANGED <<rowVars, extVars, co, hk, wk, activated, credit, applied,
                   optedOut, reactivated, faults>>

\* Does another caller hold a copy of the row, to be written later?
InHand(a) ==
    \/ a \in wk.batch
    \/ wk.acc = a /\ wk.pc \in {"charge", "mark", "markfailed", "save"}
    \/ \E h \in Hooks : hk[h].pc = "save" /\ pay[hk[h].pay].account = a
    \/ \E p \in FirstPayments : /\ co[p].pc \in {"create", "link", "save"}
                                 /\ pay[p].account = a

CancelSave(a) ==
    /\ cn[a].pc = "save"
    /\ cn' = [cn EXCEPT ![a] = NoCancel]
    /\ \/ /\ UpdateSubscription(a, cn[a].sub)
          /\ IF InHand(a) THEN UNCHANGED <<optedOut, reactivated>>
             ELSE /\ optedOut' = optedOut \cup {a}
                  /\ reactivated' = reactivated \ {a}
          /\ UNCHANGED faults
       \/ Fault /\ UNCHANGED <<subs, optedOut, reactivated>>
    /\ UNCHANGED <<plan, pay, extVars, co, hk, wk, activated, credit, asked, applied>>

-----------------------------------------------------------------------------
(* ProcessDue.                                                             *)

WorkerScan ==
    /\ wk.pc = "idle"
    /\ \E a \in Accounts : Due(subs[a])
    /\ wk' = [wk EXCEPT !.pc = "next", !.batch = {a \in Accounts : Due(subs[a])},
                        !.snap = subs]
    /\ UNCHANGED <<rowVars, extVars, co, hk, cn, histVars, faults>>

\* An error ends the pass: the rest of the batch waits for the next one.
WorkerFails ==
    /\ Fault
    /\ wk' = NoPass

\* The copy downgrade writes.
Downgraded(s) == [s EXCEPT !.plan = "free", !.status = "canceled"]

\* Mutant: a cancelled subscription is renewed like any other.
WorkerNextIgnoresCancel(a, p) ==
    /\ wk.pc = "next" /\ a \in wk.batch
    /\ CreatePayment(p, a)
    /\ wk' = [wk EXCEPT !.pc = "charge", !.batch = @ \ {a}, !.acc = a,
                        !.pay = p, !.at = now]
    /\ UNCHANGED <<subs, plan, extVars, co, hk, cn, histVars, faults>>

\* renewOne of the subscription that is due the longest: a cancelled one is
\* downgraded, for another a pending payment is created.
WorkerNext(a, p) ==
    /\ wk.pc = "next" /\ a \in wk.batch
    /\ \A b \in wk.batch : wk.snap[a].end <= wk.snap[b].end
    /\ \/ /\ wk.snap[a].cancel
          /\ wk' = [wk EXCEPT !.pc = "save", !.batch = @ \ {a}, !.acc = a,
                              !.snap[a] = Downgraded(@)]
          /\ UNCHANGED <<pay, faults>>
       \/ /\ ~wk.snap[a].cancel /\ CreatePayment(p, a)
          /\ wk' = [wk EXCEPT !.pc = "charge", !.batch = @ \ {a}, !.acc = a,
                              !.pay = p, !.at = now]
          /\ UNCHANGED faults
       \/ WorkerFails /\ UNCHANGED pay
    /\ UNCHANGED <<subs, plan, extVars, co, hk, cn, histVars>>

WorkerDone ==
    /\ wk.pc = "next" /\ wk.batch = {}
    /\ wk' = NoPass
    /\ UNCHANGED <<rowVars, extVars, co, hk, cn, histVars, faults>>

\* provider.ChargeRecurring, under a key made for this call alone.
Charged(a, p) ==
    /\ Report(p, "succeeded")
    /\ credit' = [credit EXCEPT ![a][wk.snap[a].end] = @ - 1]
WorkerCharge ==
    /\ wk.pc = "charge"
    /\ LET a == wk.acc
           p == wk.pay
       IN \/ /\ wk.snap[a].token /\ Charged(a, p)             \* answered in time
             /\ wk' = [wk EXCEPT !.pc = "mark"]
             /\ UNCHANGED faults
          \/ /\ wk.snap[a].token /\ Fault /\ Charged(a, p)    \* pending, timeout
             /\ wk' = [wk EXCEPT !.pc = "markfailed"]
          \/ /\ wk' = [wk EXCEPT !.pc = "markfailed"]         \* refused, no token
             /\ UNCHANGED <<prov, events, credit, faults>>
    /\ UNCHANGED <<rowVars, now, co, hk, cn, activated, asked, applied,
                   optedOut, reactivated>>

\* The copy a renewal writes: the plan is left alone.
Renewed(s, at) == [s EXCEPT !.status = "active", !.dunning = 0, !.end = at + PeriodLen]

\* The charge went through: the payment row first, then the subscription.
WorkerMark ==
    /\ wk.pc = "mark"
    /\ \/ /\ UpdatePaymentResult(wk.pay, "succeeded", TRUE)
          /\ wk' = [wk EXCEPT !.pc = "save", !.snap[wk.acc] = Renewed(@, wk.at)]
          /\ UNCHANGED faults
       \/ WorkerFails /\ UNCHANGED pay
    /\ UNCHANGED <<subs, plan, extVars, co, hk, cn, histVars>>

\* Mutants: one attempt too many, one too few.
DunnedLate(s, at) ==
    IF s.dunning >= MaxDunning
    THEN Downgraded([s EXCEPT !.dunning = @ + 1])
    ELSE [s EXCEPT !.dunning = @ + 1, !.status = "past_due",
                   !.end = at + RetryInterval]
DunnedEarly(s, at) ==
    IF s.dunning + 2 >= MaxDunning
    THEN Downgraded([s EXCEPT !.dunning = @ + 1])
    ELSE [s EXCEPT !.dunning = @ + 1, !.status = "past_due",
                   !.end = at + RetryInterval]

\* Dunning: another attempt later, or the downgrade.
Dunned(s, at) ==
    IF s.dunning + 1 >= MaxDunning
    THEN Downgraded([s EXCEPT !.dunning = @ + 1])
    ELSE [s EXCEPT !.dunning = @ + 1, !.status = "past_due",
                   !.end = at + RetryInterval]
WorkerMarkFailed ==
    /\ wk.pc = "markfailed"
    /\ \/ /\ UpdatePaymentResult(wk.pay, "failed", FALSE)
          /\ wk' = [wk EXCEPT !.pc = "save", !.snap[wk.acc] = Dunned(@, wk.at)]
          /\ UNCHANGED faults
       \/ WorkerFails /\ UNCHANGED pay
    /\ UNCHANGED <<subs, plan, extVars, co, hk, cn, histVars>>

\* UpdateSubscription, from the copy the scan read.  A subscription that
\* goes past_due keeps its plan and is finished with.
WorkerSave ==
    /\ wk.pc = "save"
    /\ LET a == wk.acc
       IN \/ /\ UpdateSubscription(a, wk.snap[a])
             /\ wk' = [wk EXCEPT !.pc = IF wk.snap[a].status = "past_due"
                                        THEN "next" ELSE "plan"]
             /\ credit' = IF wk.snap[a].status = "canceled" THEN credit
                          ELSE Opened(a, wk.snap[a].end)
             /\ UNCHANGED faults
          \/ WorkerFails /\ UNCHANGED <<subs, credit>>
    /\ UNCHANGED <<plan, pay, extVars, co, hk, cn, activated, asked, applied,
                   optedOut, reactivated>>

\* SetAccountPlan, the last call of a renewal and of a downgrade.
WorkerPlan ==
    /\ wk.pc = "plan"
    /\ LET a == wk.acc
       IN \/ /\ SetAccountPlan(a, IF wk.snap[a].status = "active" THEN "premium" ELSE "free")
             /\ wk' = [wk EXCEPT !.pc = "next"]
             /\ UNCHANGED faults
          \/ WorkerFails /\ UNCHANGED plan
    /\ UNCHANGED <<subs, pay, extVars, co, hk, cn, histVars>>

-----------------------------------------------------------------------------
Tick ==
    /\ now < Horizon
    /\ now' = now + 1
    /\ UNCHANGED <<rowVars, prov, events, co, hk, cn, wk, histVars, faults>>

Checkout(p) == CheckoutCreate(p) \/ CheckoutLink(p) \/ CheckoutSave(p)
Webhook(h) == HookMark(h) \/ HookRead(h) \/ HookSave(h) \/ HookPlan(h)
Worker ==
    \/ \E a \in Accounts, p \in Renewals : WorkerNext(a, p)
    \/ WorkerDone \/ WorkerCharge \/ WorkerMark \/ WorkerMarkFailed
    \/ WorkerSave \/ WorkerPlan

Next ==
    \/ \E p \in FirstPayments, a \in Accounts : CheckoutBegin(p, a)
    \/ \E p \in FirstPayments : Checkout(p) \/ CustomerDecides(p)
    \/ \E p \in Payments : Refund(p)
    \/ \E h \in Hooks, e \in events : HookReceive(h, e)
    \/ \E h \in Hooks : Webhook(h)
    \/ \E a \in Accounts : CancelBegin(a) \/ CancelSave(a)
    \/ WorkerScan \/ Worker
    \/ Tick

Spec == Init /\ [][Next]_vars

\* A webhook execution runs to its end, and the provider redelivers a success
\* until it is answered 2xx.  Users, the worker, time and faults are free.
FairSpec ==
    /\ Spec
    /\ \A h \in Hooks : WF_vars(Webhook(h))
    /\ \A p \in FirstPayments :
         SF_vars(\E h \in Hooks : <<p, "succeeded">> \in events /\ HookReceive(h, <<p, "succeeded">>))

-----------------------------------------------------------------------------
(* Properties.                                                             *)

\* The plan is premium only where money was taken at some time: no order of
\* webhooks, renewals, cancellations and failures gives it away.
PremiumIsPaid ==
    \A a \in Accounts : plan[a] = "premium" =>
        \E p \in Payments : /\ pay[p].account = a
                            /\ prov[p] \in {"succeeded", "refunded"}

\* Dunning is counted whoever writes the row: an active subscription owes no
\* attempt, one in grace has failed at least once and has an attempt left.
GraceIsCounted ==
    \A a \in Accounts :
        /\ subs[a].status = "active" => subs[a].dunning = 0
        /\ subs[a].status = "past_due" => subs[a].dunning \in 1 .. MaxDunning - 1

\* No premium subscription is shut down early: one that is canceled has been
\* cancelled by its account, or was refused MaxDunning recurring charges; the
\* grace attempts are not cut short by failed writes, crashes or stale copies.
DowngradeIsEarned ==
    \A a \in Accounts : subs[a].status = "canceled" =>
        \/ a \in asked
        \/ Cardinality({p \in Renewals : pay[p].account = a /\ pay[p].status = "failed"})
              >= MaxDunning

\* No stale copy brings back a period that was charged for: every recurring
\* charge that takes money follows an activation, renewal or grace that set the
\* due date it is made for, one charge for each, whatever Cancel and Checkout
\* write in between.  Every exception takes a failed call: a charge whose answer
\* or bookkeeping was lost is made again, under a new key.
ChargesAreBacked ==
    \A a \in Accounts : \A t \in Ends : credit[a][t] + faults >= 0

\* What the customer paid at checkout turns the plan on in the end.
PaidIsActivated ==
    \A p \in FirstPayments :
        (prov[p] = "succeeded" /\ co[p].pc = "done") ~>
            (p \in activated \/ prov[p] = "refunded")

\* A Cancel that was answered while no other caller had the row in hand (no
\* Checkout between its first and its last query, no activation between its
\* two, no pass of the worker that has read the row and not finished with it)
\* is not undone by any later write of the whole row, until another payment
\* activates the subscription.  The exception is a payment that activates it
\* once more, as two executions of its webhook at once do: ActivatesOnce is
\* the other case.
Kept == optedOut \ reactivated
CancelSticks == \A a \in Kept : subs[a].plan = "premium" => subs[a].cancel

\* HandleWebhook, "a repeated delivery of the same successful event does not
\* activate the subscription twice", however many of its calls fail and be
\* they repeated before or after renewals and refunds.  It holds where
\* webhooks are handled one at a time, as in BillingLifecycle: two executions
\* at once may both pass the idempotency test before either has marked the
\* payment, and then the code does activate twice.
ActivatesOnce == reactivated = {}
=============================================================================
