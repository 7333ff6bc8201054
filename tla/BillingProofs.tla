---------------------------- MODULE BillingProofs ----------------------------
(***************************************************************************)
(* Theorems about Billing, for any number of accounts, payments, webhook   *)
(* executions and faults, any periods and any horizon.                     *)
(***************************************************************************)
EXTENDS Billing, FiniteSetTheorems, TLAPS

-----------------------------------------------------------------------------
(* The inductive invariant.  The service has no transactions: a caller     *)
(* reads a row, works, and writes the whole row back.  So what is to hold  *)
(* of the rows must hold of every copy a caller still has in hand.         *)

Taken == {"succeeded", "refunded"}      \* the provider has had the money
Clock == 1 .. Horizon + 1

Paid == {a \in Accounts : \E p \in Payments : pay[p].account = a /\ prov[p] \in Taken}
Refused(a) == {p \in Renewals : pay[p].account = a /\ pay[p].status = "failed"}
Failures(a) == Cardinality(Refused(a))

\* What holds of a row of account a, given the accounts that have paid, those
\* that have asked to cancel, and the number of charges a was refused.
RowFits(s, a, paid, gone, n) ==
    /\ s \in SubRow /\ s.end \in Ends
    /\ s.status = "active" => s.dunning = 0
    /\ s.status = "past_due" => s.dunning \in 1 .. MaxDunning - 1
    /\ s.plan = "premium" => a \in paid
    /\ s.cancel => a \in gone
    /\ s.dunning <= n
    /\ s.status = "canceled" => a \in gone \/ n >= MaxDunning

\* s is the row of a, now or at some earlier time, or will be.
RowOf(a, s) == RowFits(s, a, Paid, asked, Failures(a))

\* Payment rows: one that exists is somebody's, and a renewal is known to the
\* provider's webhooks only once it has succeeded.
PaymentsKnown ==
    \A p \in Payments :
        /\ pay[p].status # "none" => pay[p].account \in Accounts
        /\ pay[p].status = "none" => pay[p].account = None
        /\ pay[p].linked => pay[p].status # "none"
        /\ p \in Renewals /\ pay[p].linked => pay[p].status = "succeeded"

CheckoutOK(p) ==
    /\ co[p].pc \in {"create", "link", "save"} =>
         pay[p].status # "none" /\ RowOf(pay[p].account, co[p].sub)
    /\ co[p].pc \in {"none", "create"} => prov[p] = "none"

HookOK(h) ==
    hk[h].pc # "idle" =>
        /\ hk[h].pay \in FirstPayments /\ pay[hk[h].pay].status # "none"
        /\ hk[h].at \in Clock
        /\ hk[h].event = "succeeded" => prov[hk[h].pay] \in Taken
        /\ hk[h].pc # "mark" => hk[h].event = "succeeded"
        /\ hk[h].pc = "save" => RowOf(pay[hk[h].pay].account, hk[h].sub)

CancelOK(a) == cn[a].pc = "save" => RowOf(a, cn[a].sub)

\* The worker charges what was due when it looked, for a payment that nobody
\* else touches.
WorkerOK ==
    /\ \A a \in Accounts : RowOf(a, wk.snap[a])
    /\ \A a \in wk.batch : wk.snap[a].plan = "premium" /\ wk.snap[a].status \in {"active", "past_due"}
    /\ wk.pc \in {"charge", "mark", "markfailed", "save", "plan"} =>
         wk.acc \in Accounts /\ wk.acc \notin wk.batch
    /\ wk.pc \in {"charge", "mark", "markfailed"} =>
         /\ wk.pay \in Renewals /\ wk.at \in Clock
         /\ pay[wk.pay] = [account |-> wk.acc, linked |-> FALSE, status |-> "pending"]
         /\ wk.snap[wk.acc].plan = "premium" /\ ~wk.snap[wk.acc].cancel
         /\ wk.snap[wk.acc].status \in {"active", "past_due"}
    /\ wk.pc \in {"save", "plan"} /\ wk.snap[wk.acc].status = "active" =>
         wk.snap[wk.acc].plan = "premium"

EventsTrue == \A p \in Payments : \A s \in Taken : <<p, s>> \in events => prov[p] \in Taken

RowsOK == \A a \in Accounts : RowOf(a, subs[a])
PlansPaid == \A a \in Accounts : plan[a] = "premium" => a \in Paid

Inv ==
    /\ TypeOK /\ now \in Clock
    /\ PaymentsKnown /\ EventsTrue /\ RowsOK /\ PlansPaid
    /\ \A p \in FirstPayments : CheckoutOK(p)
    /\ \A h \in Hooks : HookOK(h)
    /\ \A a \in Accounts : CancelOK(a)
    /\ WorkerOK

-----------------------------------------------------------------------------
(* Rows.                                                                   *)

\* More money, more refusals and a request to cancel take nothing away.
LEMMA RowFitsMore ==
    ASSUME NEW s, NEW a, NEW p, NEW q, NEW g, NEW k, NEW n \in Nat, NEW m \in Nat,
           RowFits(s, a, p, g, n), p \subseteq q, g \subseteq k, n <= m
    PROVE  RowFits(s, a, q, k, m)
BY BillingConstants DEF RowFits, SubRow

\* Every account starts with a row that fits.
LEMMA NewSubFits ==
    ASSUME NEW a, NEW p, NEW g, NEW n \in Nat
    PROVE  RowFits(NewSub, a, p, g, n) /\ NewSub \in SubRow
BY BillingConstants DEF RowFits, SubRow, NewSub, Ends

\* The rows the callers make of the copies they read.
LEMMA ActivatedFits ==
    ASSUME NEW s, NEW a, NEW p, NEW g, NEW n \in Nat, NEW at \in Clock, NEW k \in BOOLEAN,
           RowFits(s, a, p, g, n), a \in p
    PROVE  RowFits(Activated(s, at, k), a, p, g, n)
<1> DEFINE r == Activated(s, at, k)
<1>1. s \in SubRow
  BY DEF RowFits
<1>2. at + PeriodLen \in Ends /\ at + PeriodLen \in Nat
  BY BillingConstants DEF Clock, Ends
<1>3. /\ r \in SubRow /\ r.plan = "premium" /\ r.status = "active" /\ r.end = at + PeriodLen
      /\ r.cancel = FALSE /\ r.dunning = 0
  BY <1>1, <1>2 DEF Activated, SubRow
<1> HIDE DEF r
<1>4. RowFits(r, a, p, g, n)
  BY <1>2, <1>3 DEF RowFits
<1> QED BY <1>4 DEF r

LEMMA RenewedFits ==
    ASSUME NEW s, NEW a, NEW p, NEW g, NEW n \in Nat, NEW at \in Clock,
           RowFits(s, a, p, g, n)
    PROVE  /\ RowFits(Renewed(s, at), a, p, g, n)
           /\ Renewed(s, at).plan = s.plan /\ Renewed(s, at).cancel = s.cancel
           /\ Renewed(s, at).status = "active"
<1> DEFINE r == Renewed(s, at)
<1>1. s \in SubRow
  BY DEF RowFits
<1>2. at + PeriodLen \in Ends /\ at + PeriodLen \in Nat
  BY BillingConstants DEF Clock, Ends
<1>3. /\ r \in SubRow /\ r.plan = s.plan /\ r.status = "active" /\ r.end = at + PeriodLen
      /\ r.cancel = s.cancel /\ r.dunning = 0
  BY <1>1, <1>2 DEF Renewed, SubRow
<1> HIDE DEF r
<1>4. RowFits(r, a, p, g, n)
  BY <1>2, <1>3 DEF RowFits
<1> QED BY <1>3, <1>4 DEF r

LEMMA DowngradedFits ==
    ASSUME NEW s, NEW a, NEW p, NEW g, NEW n \in Nat,
           s \in SubRow, s.end \in Ends, s.cancel => a \in g, s.dunning <= n,
           a \in g \/ n >= MaxDunning
    PROVE  /\ RowFits(Downgraded(s), a, p, g, n)
           /\ Downgraded(s).plan = "free" /\ Downgraded(s).status = "canceled"
<1> DEFINE r == Downgraded(s)
<1>1. /\ r \in SubRow /\ r.plan = "free" /\ r.status = "canceled" /\ r.end = s.end
      /\ r.cancel = s.cancel /\ r.dunning = s.dunning
  BY DEF Downgraded, SubRow
<1> HIDE DEF r
<1>2. RowFits(r, a, p, g, n)
  BY <1>1 DEF RowFits
<1> QED BY <1>1, <1>2 DEF r

\* Dunning: with one refusal more the row owes one attempt less, and it is
\* downgraded only when all have been refused.
LEMMA DunnedFits ==
    ASSUME NEW s, NEW a, NEW p, NEW g, NEW n \in Nat, NEW at \in Clock,
           RowFits(s, a, p, g, n)
    PROVE  /\ RowFits(Dunned(s, at), a, p, g, n + 1)
           /\ Dunned(s, at).status \in {"past_due", "canceled"}
           /\ Dunned(s, at).plan \in {"free", s.plan} /\ Dunned(s, at).cancel = s.cancel
<1> DEFINE more == [s EXCEPT !.dunning = @ + 1]
           grace == [s EXCEPT !.dunning = @ + 1, !.status = "past_due", !.end = at + RetryInterval]
<1>1. s \in SubRow /\ s.end \in Ends /\ (s.cancel => a \in g) /\ s.dunning <= n /\ s.dunning \in Nat
  BY DEF RowFits, SubRow
<1>2. at + RetryInterval \in Ends /\ at + RetryInterval \in Nat
  BY BillingConstants DEF Clock, Ends
<1>3. CASE s.dunning + 1 >= MaxDunning
  <2>1. Dunned(s, at) = Downgraded(more)
    BY <1>3 DEF Dunned
  <2>2. /\ more \in SubRow /\ more.end = s.end /\ more.cancel = s.cancel
        /\ more.dunning = s.dunning + 1
    BY <1>1 DEF SubRow
  <2> HIDE DEF more
  <2>3. n + 1 >= MaxDunning /\ more.dunning <= n + 1 /\ n + 1 \in Nat
    BY <1>1, <1>3, <2>2, BillingConstants
  <2>4. /\ RowFits(Downgraded(more), a, p, g, n + 1)
        /\ Downgraded(more).plan = "free" /\ Downgraded(more).status = "canceled"
    BY <1>1, <2>2, <2>3, DowngradedFits
  <2>5. Downgraded(more).cancel = more.cancel
    BY <2>2 DEF Downgraded, SubRow
  <2> QED BY <2>1, <2>2, <2>4, <2>5
<1>4. CASE ~(s.dunning + 1 >= MaxDunning)
  <2>1. Dunned(s, at) = grace
    BY <1>4 DEF Dunned
  <2>2. /\ grace \in SubRow /\ grace.end = at + RetryInterval /\ grace.cancel = s.cancel
        /\ grace.plan = s.plan /\ grace.status = "past_due" /\ grace.dunning = s.dunning + 1
    <3>1. s.dunning + 1 \in Nat
      BY <1>1
    <3>2. grace = [s EXCEPT !.dunning = s.dunning + 1, !.status = "past_due",
                            !.end = at + RetryInterval]
      BY <1>1 DEF SubRow
    <3> DEFINE d == s.dunning + 1
               e == at + RetryInterval
    <3> HIDE DEF d, e
    <3>3. /\ [s EXCEPT !.dunning = d, !.status = "past_due", !.end = e] \in SubRow
          /\ grace.end = at + RetryInterval /\ grace.cancel = s.cancel
          /\ grace.plan = s.plan /\ grace.status = "past_due" /\ grace.dunning = s.dunning + 1
      BY <1>1, <1>2, <3>1 DEF SubRow, d, e
    <3> QED BY <3>2, <3>3 DEF d, e
  <2> HIDE DEF grace
  <2>3. s.dunning + 1 \in 1 .. MaxDunning - 1 /\ s.dunning + 1 <= n + 1
    BY <1>1, <1>4, BillingConstants
  <2>4. s.plan = "premium" => a \in p
    BY DEF RowFits
  <2>5. RowFits(grace, a, p, g, n + 1)
    BY <1>1, <1>2, <2>2, <2>3, <2>4 DEF RowFits
  <2> QED BY <2>1, <2>2, <2>5
<1> QED BY <1>3, <1>4

\* Cancel, and Checkout.
LEMMA CancelledFits ==
    ASSUME NEW s, NEW a, NEW p, NEW g, NEW n \in Nat, RowFits(s, a, p, g, n)
    PROVE  /\ RowFits([s EXCEPT !.cancel = TRUE], a, p, g \cup {a}, n)
           /\ [s EXCEPT !.cancel = TRUE].cancel
<1> DEFINE r == [s EXCEPT !.cancel = TRUE]
<1>1. /\ r \in SubRow /\ r.plan = s.plan /\ r.status = s.status /\ r.end = s.end
      /\ r.cancel = TRUE /\ r.dunning = s.dunning
  BY DEF SubRow, RowFits
<1> HIDE DEF r
<1>2. RowFits(r, a, p, g \cup {a}, n)
  BY <1>1 DEF RowFits
<1> QED BY <1>1, <1>2 DEF r

LEMMA PendingFits ==
    ASSUME NEW s, NEW a, NEW p, NEW g, NEW n \in Nat, RowFits(s, a, p, g, n)
    PROVE  /\ RowFits([s EXCEPT !.status = "pending"], a, p, g, n)
           /\ [s EXCEPT !.status = "pending"].plan = s.plan
           /\ [s EXCEPT !.status = "pending"].cancel = s.cancel
           /\ [s EXCEPT !.status = "pending"].status = "pending"
<1> DEFINE r == [s EXCEPT !.status = "pending"]
<1>1. /\ r \in SubRow /\ r.plan = s.plan /\ r.status = "pending" /\ r.end = s.end
      /\ r.cancel = s.cancel /\ r.dunning = s.dunning
  BY DEF SubRow, RowFits
<1> HIDE DEF r
<1>2. RowFits(r, a, p, g, n)
  BY <1>1 DEF RowFits
<1> QED BY <1>1, <1>2 DEF r

-----------------------------------------------------------------------------
(* What only grows: payments keep their account, refused renewals stay     *)
(* refused, money taken stays taken (or is refunded), a request to cancel  *)
(* stays made.                                                             *)

PayGrows ==
    /\ pay' \in [Payments -> PayRow] /\ PaymentsKnown'
    /\ \A p \in Payments : pay[p].status # "none" =>
         pay'[p].status # "none" /\ pay'[p].account = pay[p].account
    /\ \A a \in Accounts : Refused(a) \subseteq Refused(a)'
ProvGrows == \A p \in Payments : prov[p] \in Taken => prov'[p] \in Taken
Grows == PayGrows /\ ProvGrows /\ asked \subseteq asked'

LEMMA RefusedFinite ==
    ASSUME NEW a
    PROVE  IsFiniteSet(Refused(a)) /\ Failures(a) \in Nat
<1>1. IsFiniteSet(Renewals) /\ Refused(a) \subseteq Renewals
  BY BillingConstants DEF Refused
<1>2. IsFiniteSet(Refused(a))
  BY <1>1, FS_Subset
<1> QED BY <1>2, FS_CardinalityType DEF Failures

LEMMA FailuresGrow ==
    ASSUME NEW a \in Accounts, Refused(a) \subseteq Refused(a)'
    PROVE  Failures(a)' \in Nat /\ Failures(a) <= Failures(a)'
<1>1. IsFiniteSet(Renewals) /\ Refused(a)' \subseteq Renewals
  BY BillingConstants DEF Refused
<1>2. IsFiniteSet(Refused(a)')
  BY <1>1, FS_Subset
<1>3. Cardinality(Refused(a)') \in Nat /\ Cardinality(Refused(a)) <= Cardinality(Refused(a)')
  BY <1>2, FS_Subset, FS_CardinalityType
<1> QED BY <1>3 DEF Failures

LEMMA PaidStays ==
    ASSUME Inv, Grows
    PROVE  Paid \subseteq Paid'
<1> SUFFICES ASSUME NEW a \in Paid PROVE a \in Paid'
  OBVIOUS
<1>1. PICK p \in Payments : pay[p].account = a /\ prov[p] \in Taken
  BY DEF Paid
<1>2. pay[p].status # "none" /\ a \in Accounts
  BY <1>1, BillingConstants DEF Inv, PaymentsKnown, Paid
<1> QED BY <1>1, <1>2 DEF Grows, PayGrows, ProvGrows, Paid

LEMMA Carry ==
    ASSUME Inv, Grows, NEW a \in Accounts, NEW s, RowOf(a, s)
    PROVE  RowFits(s, a, Paid', asked', Failures(a)')
<1>1. Failures(a) \in Nat /\ Failures(a)' \in Nat /\ Failures(a) <= Failures(a)'
  BY RefusedFinite, FailuresGrow DEF Grows, PayGrows
<1>2. Paid \subseteq Paid' /\ asked \subseteq asked'
  BY PaidStays DEF Grows
<1>3. RowFits(s, a, Paid, asked, Failures(a))
  BY DEF RowOf
<1> QED BY <1>1, <1>2, <1>3, RowFitsMore

\* A part of the state that a step leaves alone stays as it should be.
LEMMA RowsStay ==
    ASSUME Inv, Grows, NEW a \in Accounts, subs'[a] = subs[a]
    PROVE  RowOf(a, subs[a])'
<1>1. RowFits(subs[a], a, Paid', asked', Failures(a)')
  BY Carry DEF Inv, RowsOK
<1> QED BY <1>1 DEF RowOf

LEMMA CheckoutsStay ==
    ASSUME Inv, Grows, NEW p \in FirstPayments, co'[p] = co[p],
           co[p].pc \in {"none", "create"} => prov'[p] = prov[p]
    PROVE  CheckoutOK(p)'
<1>1. ASSUME co[p].pc \in {"create", "link", "save"}
      PROVE  pay'[p].status # "none" /\ RowOf(pay[p].account, co[p].sub)'
  <2>1. pay[p].status # "none" /\ RowOf(pay[p].account, co[p].sub)
    BY <1>1 DEF Inv, CheckoutOK
  <2>2. pay'[p].status # "none" /\ pay'[p].account = pay[p].account /\ pay[p].account \in Accounts
    BY <2>1 DEF Grows, PayGrows, Inv, PaymentsKnown, Payments
  <2>3. \A a \in Accounts : RowOf(a, co[p].sub) =>
          RowFits(co[p].sub, a, Paid', asked', Failures(a)')
    BY Carry
  <2>4. RowFits(co[p].sub, pay'[p].account, Paid', asked', Failures(pay[p].account)')
    BY <2>1, <2>2, <2>3
  <2> QED BY <2>2, <2>4 DEF RowOf
<1>2. co[p].pc \in {"none", "create"} => prov'[p] = "none"
  BY DEF Inv, CheckoutOK
<1> QED BY <1>1, <1>2 DEF CheckoutOK

LEMMA HooksStay ==
    ASSUME Inv, Grows, NEW h \in Hooks, hk'[h] = hk[h]
    PROVE  HookOK(h)'
<1> DEFINE p == hk[h].pay
<1>1. SUFFICES ASSUME hk[h].pc # "idle"
               PROVE  HookOK(h)'
  BY DEF HookOK
<1>2. /\ p \in FirstPayments /\ pay[p].status # "none" /\ p \in Payments
      /\ hk[h].event = "succeeded" => prov[p] \in Taken
      /\ hk[h].pc # "mark" => hk[h].event = "succeeded"
      /\ hk[h].pc = "save" => RowOf(pay[p].account, hk[h].sub)
      /\ hk[h].at \in Clock
  BY <1>1 DEF Inv, HookOK, Payments
<1>3. /\ pay'[p].status # "none" /\ pay'[p].account = pay[p].account
      /\ pay[p].account \in Accounts /\ (prov[p] \in Taken => prov'[p] \in Taken)
  BY <1>2 DEF Grows, PayGrows, ProvGrows, Inv, PaymentsKnown
<1>4. ASSUME hk[h].pc = "save"
      PROVE  RowOf(pay[p].account, hk[h].sub)'
  <2>1. \A a \in Accounts : RowOf(a, hk[h].sub) =>
          RowFits(hk[h].sub, a, Paid', asked', Failures(a)')
    BY Carry
  <2>2. RowFits(hk[h].sub, pay'[p].account, Paid', asked', Failures(pay[p].account)')
    BY <1>2, <1>3, <1>4, <2>1
  <2> QED BY <2>2 DEF RowOf
<1> QED BY <1>2, <1>3, <1>4 DEF HookOK

LEMMA CancelsStay ==
    ASSUME Inv, Grows, NEW a \in Accounts, cn'[a] = cn[a]
    PROVE  CancelOK(a)'
<1>1. cn[a].pc = "save" => RowFits(cn[a].sub, a, Paid', asked', Failures(a)')
  BY Carry DEF Inv, CancelOK
<1> QED BY <1>1 DEF CancelOK, RowOf

LEMMA SnapsStay ==
    ASSUME Inv, Grows, NEW a \in Accounts, wk'.snap[a] = wk.snap[a]
    PROVE  RowOf(a, wk.snap[a])'
<1>1. RowFits(wk.snap[a], a, Paid', asked', Failures(a)')
  BY Carry DEF Inv, WorkerOK
<1> QED BY <1>1 DEF RowOf

LEMMA WorkerStays ==
    ASSUME Inv, Grows, wk' = wk,
           wk.pc \in {"charge", "mark", "markfailed"} => pay'[wk.pay] = pay[wk.pay]
    PROVE  WorkerOK'
<1>1. \A a \in Accounts : RowOf(a, wk.snap[a])'
  BY SnapsStay
<1> QED BY <1>1 DEF Inv, WorkerOK

\* The plan needs no more than the row.
LEMMA PlansStay ==
    ASSUME Inv, Grows, plan' = plan
    PROVE  PlansPaid'
BY PaidStays DEF Inv, PlansPaid

LEMMA EventsStay ==
    ASSUME Inv, Grows, events' \subseteq events
    PROVE  EventsTrue'
BY DEF Inv, EventsTrue, Grows, ProvGrows

\* The idle records of the callers.
LEMMA IdleRecords ==
    /\ NewSub \in SubRow /\ NoCancel.pc = "idle" /\ NoHook.pc = "idle"
    /\ NoPass.pc = "idle" /\ NoPass.batch = {} /\ \A a \in Accounts : NoPass.snap[a] = NewSub
BY DEF NewSub, SubRow, NoCancel, NoHook, NoPass

LEMMA NewSubIsRow ==
    ASSUME NEW a
    PROVE  RowOf(a, NewSub) /\ RowFits(NewSub, a, Paid', asked', Failures(a)')
<1>1. Failures(a) \in Nat /\ Failures(a)' \in Nat
  <2>1. IsFiniteSet(Refused(a)')
    <3>1. Refused(a)' \subseteq Renewals
      BY DEF Refused
    <3> QED BY <3>1, BillingConstants, FS_Subset
  <2> QED BY <2>1, RefusedFinite, FS_CardinalityType DEF Failures
<1> QED BY <1>1, NewSubFits DEF RowOf

LEMMA PassEnds ==
    ASSUME wk' = NoPass
    PROVE  WorkerOK'
<1>1. \A a \in Accounts : RowFits(wk'.snap[a], a, Paid', asked', Failures(a)')
  BY IdleRecords, NewSubIsRow
<1> QED BY <1>1, IdleRecords DEF WorkerOK, RowOf

-----------------------------------------------------------------------------
(* The four ways a payment row changes.                                    *)

LEMMA PayUnchanged ==
    ASSUME Inv, UNCHANGED pay
    PROVE  PayGrows
BY DEF Inv, TypeOK, PaymentsKnown, PayGrows, Refused

LEMMA PayCreated ==
    ASSUME Inv, NEW p \in Payments, NEW a \in Accounts, CreatePayment(p, a)
    PROVE  /\ PayGrows
           /\ pay'[p] = [account |-> a, linked |-> FALSE, status |-> "pending"]
           /\ \A q \in Payments : pay[q].status # "none" => pay'[q] = pay[q]
<1>0. pay \in [Payments -> PayRow] /\ pay[p].status = "none"
  BY DEF Inv, TypeOK, CreatePayment
<1>1. /\ pay'[p] = [account |-> a, linked |-> FALSE, status |-> "pending"]
      /\ \A q \in Payments : q # p => pay'[q] = pay[q]
      /\ pay' \in [Payments -> PayRow]
  BY <1>0 DEF CreatePayment, PayRow
<1>2. PaymentsKnown'
  BY <1>1 DEF Inv, PaymentsKnown
<1>3. \A b \in Accounts : Refused(b) \subseteq Refused(b)'
  BY <1>0, <1>1 DEF Refused, Payments
<1> QED BY <1>0, <1>1, <1>2, <1>3 DEF PayGrows

LEMMA PayResult ==
    ASSUME Inv, NEW p \in Payments, NEW s \in {"pending", "succeeded", "failed", "refunded"},
           NEW id \in BOOLEAN, UpdatePaymentResult(p, s, id), pay[p].status # "none",
           p \in Renewals => s \in {"succeeded", "failed"} /\ ~pay[p].linked
                             /\ (id => s = "succeeded") /\ pay[p].status # "failed"
    PROVE  /\ PayGrows
           /\ pay'[p].status = s /\ pay'[p].account = pay[p].account
           /\ \A q \in Payments : q # p => pay'[q] = pay[q]
<1>0. pay \in [Payments -> PayRow]
  BY DEF Inv, TypeOK
<1>1. /\ pay'[p].status = s /\ pay'[p].account = pay[p].account
      /\ pay'[p].linked = (pay[p].linked \/ id)
      /\ \A q \in Payments : q # p => pay'[q] = pay[q]
      /\ pay' \in [Payments -> PayRow]
  BY <1>0 DEF UpdatePaymentResult, PayRow
<1>2. PaymentsKnown'
  BY <1>1 DEF Inv, PaymentsKnown
<1>3. \A b \in Accounts : Refused(b) \subseteq Refused(b)'
  BY <1>1, BillingConstants DEF Refused, Payments
<1> QED BY <1>1, <1>2, <1>3 DEF PayGrows

\* A caller writes a row that was the account's, or will be.
LEMMA RowWritten ==
    ASSUME Inv, Grows, NEW a \in Accounts, NEW new, UpdateSubscription(a, new), RowOf(a, new)
    PROVE  subs' \in [Accounts -> SubRow] /\ RowsOK'
<1>1. RowFits(new, a, Paid', asked', Failures(a)') /\ new \in SubRow
  BY Carry DEF RowOf, RowFits
<1>2. subs' \in [Accounts -> SubRow] /\ subs'[a] = new
      /\ \A b \in Accounts : b # a => subs'[b] = subs[b]
  BY <1>1 DEF UpdateSubscription, Inv, TypeOK
<1>3. RowOf(a, subs[a])'
  BY <1>1, <1>2 DEF RowOf
<1>4. \A b \in Accounts : RowOf(b, subs[b])'
  BY <1>2, <1>3, RowsStay
<1> QED BY <1>2, <1>4 DEF RowsOK

-----------------------------------------------------------------------------
(* Every step keeps the invariant.                                         *)

\* Checkout.
LEMMA CheckoutKeepsInv ==
    ASSUME Inv, NEW p \in FirstPayments,
           (\E a \in Accounts : CheckoutBegin(p, a)) \/ Checkout(p)
    PROVE  Inv'
<1>0. p \in Payments /\ p \notin Renewals
  BY BillingConstants DEF Payments
<1>1. ASSUME NEW a \in Accounts, CheckoutBegin(p, a)
      PROVE  Inv'
  <2>1. /\ PayGrows /\ pay'[p] = [account |-> a, linked |-> FALSE, status |-> "pending"]
        /\ \A q \in Payments : pay[q].status # "none" => pay'[q] = pay[q]
    BY <1>0, <1>1, PayCreated DEF CheckoutBegin
  <2>2. Grows
    BY <1>1, <2>1 DEF Grows, ProvGrows, CheckoutBegin, extVars, histVars
  <2>3. co'[p] = [pc |-> "create", sub |-> subs[a]] /\ \A q \in FirstPayments : q # p => co'[q] = co[q]
    BY <1>1 DEF CheckoutBegin, EnsureSubscription, Inv, TypeOK
  <2>4. RowOf(a, subs[a])'
    BY <1>1, <2>2, RowsStay DEF CheckoutBegin
  <2>5. CheckoutOK(p)'
    <3>1. prov'[p] = "none"
      BY <1>1 DEF CheckoutBegin, extVars, Inv, CheckoutOK
    <3>2. RowFits(subs[a], a, Paid', asked', Failures(a)')
      BY <1>1, <2>4 DEF RowOf, CheckoutBegin
    <3> QED BY <2>1, <2>3, <3>1, <3>2 DEF CheckoutOK, RowOf
  <2>6. \A q \in FirstPayments : CheckoutOK(q)'
    BY <1>1, <2>2, <2>3, <2>5, CheckoutsStay DEF CheckoutBegin, extVars
  <2>7. TypeOK'
    BY <1>1, <2>1 DEF CheckoutBegin, EnsureSubscription, Inv, TypeOK, PayGrows, extVars, histVars
  <2>8. WorkerOK'
    <3>1. wk.pc \in {"charge", "mark", "markfailed"} => pay'[wk.pay] = pay[wk.pay]
      BY <2>1 DEF Inv, WorkerOK, Payments
    <3> QED BY <1>1, <2>2, <3>1, WorkerStays DEF CheckoutBegin
  <2> QED BY <1>1, <2>1, <2>2, <2>6, <2>7, <2>8, RowsStay, HooksStay, CancelsStay, PlansStay,
             EventsStay DEF Inv, CheckoutBegin, extVars, histVars, PayGrows, RowsOK
<1>2. CASE Checkout(p)
  <2>1. /\ UNCHANGED <<plan, now, events, hk, cn, wk, activated, credit, asked, applied, optedOut, reactivated>>
        /\ faults' \in Nat
    <3>1. faults \in Nat
      BY DEF Inv, TypeOK
    <3>2. CASE CheckoutCreate(p)
      BY <3>1, <3>2 DEF CheckoutCreate, rowVars, histVars, Fault
    <3>3. CASE CheckoutLink(p)
      BY <3>1, <3>3 DEF CheckoutLink, UpdatePaymentResult, extVars, histVars, Fault
    <3>4. CASE CheckoutSave(p)
      BY <3>1, <3>4 DEF CheckoutSave, extVars, histVars, Fault
    <3> QED BY <1>2, <3>2, <3>3, <3>4 DEF Checkout
  <2>2. PayGrows /\ \A q \in Payments : q # p => pay'[q] = pay[q]
    <3>1. CASE UNCHANGED pay
      BY <3>1, PayUnchanged
    <3>2. CASE ~UNCHANGED pay
      <4>1. UpdatePaymentResult(p, "pending", TRUE) /\ co[p].pc = "link"
        BY <1>2, <3>2 DEF Checkout, CheckoutCreate, CheckoutLink, CheckoutSave, rowVars
      <4>2. pay[p].status # "none"
        BY <4>1 DEF Inv, CheckoutOK
      <4> QED BY <1>0, <4>1, <4>2, PayResult
    <3> QED BY <3>1, <3>2
  <2>3. /\ prov' \in [Payments -> {"none", "created"} \cup ProviderStatuses]
        /\ \A q \in Payments : q # p => prov'[q] = prov[q]
        /\ prov'[p] # prov[p] => co[p].pc = "create"
    BY <1>2, <1>0 DEF Checkout, CheckoutCreate, CheckoutLink, CheckoutSave, extVars, Inv, TypeOK
  <2>4. Grows
    BY <2>1, <2>2, <2>3 DEF Grows, ProvGrows, Inv, CheckoutOK, Taken
  <2>5. /\ \A q \in FirstPayments : q # p => co'[q] = co[q]
        /\ co[p].pc \in {"create", "link", "save"}
        /\ co'[p].pc \in {"link", "save", "done", "error"}
        /\ co'[p].pc \in {"link", "save"} => co'[p].sub = co[p].sub
        /\ co' \in [FirstPayments -> [pc: {"none", "create", "link", "save", "done", "error"},
                                      sub: SubRow]]
    <3>1. /\ co \in [FirstPayments -> [pc: {"none", "create", "link", "save", "done", "error"},
                                       sub: SubRow]]
          /\ NewSub \in SubRow
      BY IdleRecords DEF Inv, TypeOK
    <3>2. CASE CheckoutCreate(p)
      BY <3>1, <3>2 DEF CheckoutCreate, Return
    <3>3. CASE CheckoutLink(p)
      BY <3>1, <3>3 DEF CheckoutLink, UpdatePaymentResult, Return
    <3>4. CASE CheckoutSave(p)
      BY <3>1, <3>4 DEF CheckoutSave, Return
    <3> QED BY <1>2, <3>2, <3>3, <3>4 DEF Checkout
  <2>6. /\ pay[p].status # "none" /\ pay[p].account \in Accounts
        /\ RowOf(pay[p].account, co[p].sub)
        /\ pay'[p].status # "none" /\ pay'[p].account = pay[p].account
    BY <1>0, <2>2, <2>5 DEF Inv, CheckoutOK, PaymentsKnown, PayGrows
  <2>7. CheckoutOK(p)'
    <3>1. \A a \in Accounts : RowOf(a, co[p].sub) =>
            RowFits(co[p].sub, a, Paid', asked', Failures(a)')
      BY <2>4, Carry
    <3>2. RowFits(co[p].sub, pay'[p].account, Paid', asked', Failures(pay[p].account)')
      BY <2>6, <3>1
    <3> QED BY <2>5, <2>6, <3>2 DEF CheckoutOK, RowOf
  <2>8. \A q \in FirstPayments : CheckoutOK(q)'
    BY <2>3, <2>4, <2>5, <2>7, CheckoutsStay DEF Payments
  <2>9. subs' \in [Accounts -> SubRow] /\ RowsOK'
    <3>1. CASE UNCHANGED subs
      BY <2>4, <3>1, RowsStay DEF RowsOK, Inv, TypeOK
    <3>2. CASE ~UNCHANGED subs
      <4> DEFINE a == pay[p].account
                 new == [co[p].sub EXCEPT !.status = "pending"]
      <4>1. subs' = [subs EXCEPT ![a] = new]
        BY <1>2, <3>2 DEF Checkout, CheckoutCreate, CheckoutLink, CheckoutSave, rowVars,
                          UpdateSubscription
      <4>2. Failures(a) \in Nat
        BY RefusedFinite
      <4>3. RowOf(a, new)
        BY <2>6, <4>2, PendingFits DEF RowOf
      <4> HIDE DEF new
      <4> QED BY <2>4, <2>6, <4>1, <4>3, RowWritten DEF UpdateSubscription
    <3> QED BY <3>1, <3>2
  <2>10. TypeOK'
    BY <2>1, <2>2, <2>3, <2>5, <2>9 DEF Inv, TypeOK, PayGrows
  <2>11. WorkerOK'
    <3>1. wk.pc \in {"charge", "mark", "markfailed"} => pay'[wk.pay] = pay[wk.pay]
      BY <1>0, <2>2 DEF Inv, WorkerOK, Payments
    <3> QED BY <2>1, <2>4, <3>1, WorkerStays
  <2> QED BY <2>1, <2>2, <2>4, <2>8, <2>9, <2>10, <2>11, HooksStay, CancelsStay, PlansStay,
             EventsStay DEF Inv, PayGrows
<1> QED BY <1>1, <1>2

\* The provider, its customer and the clock.
LEMMA ProviderKeepsInv ==
    ASSUME Inv, (\E p \in FirstPayments : CustomerDecides(p)) \/ (\E p \in Payments : Refund(p)) \/ Tick
    PROVE  Inv'
<1>1. CASE Tick
  <2>1. Grows
    BY <1>1, PayUnchanged DEF Tick, rowVars, histVars, Grows, ProvGrows
  <2>2. TypeOK' /\ now' \in Clock
    BY <1>1, BillingConstants DEF Tick, rowVars, histVars, Inv, TypeOK, Clock
  <2> QED BY <1>1, <2>1, <2>2, RowsStay, CheckoutsStay, HooksStay, CancelsStay, WorkerStays,
             PlansStay, EventsStay DEF Inv, Tick, rowVars, histVars, Grows, PayGrows, RowsOK
<1>2. ASSUME NEW p \in Payments, NEW s \in ProviderStatuses, Report(p, s),
             prov[p] \in {"created", "succeeded"}, prov[p] = "succeeded" => s \in Taken,
             UNCHANGED <<rowVars, now, co, hk, cn, wk, histVars, faults>>
      PROVE  Inv'
  <2>1. /\ prov' = [prov EXCEPT ![p] = s] /\ prov \in [Payments -> {"none", "created"} \cup ProviderStatuses]
        /\ events' = events \cup {<<p, s>>}
    BY <1>2 DEF Report, Inv, TypeOK
  <2>2. Grows
    BY <1>2, <2>1, PayUnchanged DEF rowVars, histVars, Grows, ProvGrows, Taken
  <2>3. TypeOK'
    BY <1>2, <2>1 DEF rowVars, histVars, Inv, TypeOK
  <2>4. EventsTrue'
    BY <1>2, <2>1, <2>2 DEF Inv, EventsTrue, Grows, ProvGrows
  <2>5. \A q \in FirstPayments : co[q].pc \in {"none", "create"} => prov'[q] = prov[q]
    BY <1>2, <2>1 DEF Inv, CheckoutOK, Payments
  <2> QED BY <1>2, <2>2, <2>3, <2>4, <2>5, RowsStay, CheckoutsStay, HooksStay, CancelsStay,
             WorkerStays, PlansStay DEF Inv, rowVars, histVars, Grows, PayGrows, RowsOK
<1>3. ASSUME NEW p \in FirstPayments, CustomerDecides(p)
      PROVE  Inv'
  BY <1>2, <1>3 DEF CustomerDecides, ProviderStatuses, Payments, Taken
<1>4. ASSUME NEW p \in Payments, Refund(p)
      PROVE  Inv'
  BY <1>2, <1>4 DEF Refund, ProviderStatuses, Taken
<1> QED BY <1>1, <1>3, <1>4

\* Cancel.
LEMMA CancelKeepsInv ==
    ASSUME Inv, NEW a \in Accounts, CancelBegin(a) \/ CancelSave(a)
    PROVE  Inv'
<1>1. CASE CancelBegin(a)
  <2> DEFINE new == [subs[a] EXCEPT !.cancel = TRUE]
  <2>1. Grows
    BY <1>1, PayUnchanged DEF CancelBegin, rowVars, extVars, Grows, ProvGrows
  <2>2. RowFits(subs[a], a, Paid', asked', Failures(a)') /\ Failures(a)' \in Nat
    BY <2>1, Carry, FailuresGrow DEF Inv, RowsOK, Grows, PayGrows
  <2>3. RowFits(new, a, Paid', asked' \cup {a}, Failures(a)')
    BY <2>2, CancelledFits
  <2>4. asked' \cup {a} = asked' /\ new \in SubRow
    BY <1>1, <2>3 DEF CancelBegin, RowFits
  <2> HIDE DEF new
  <2>5. cn' = [cn EXCEPT ![a] = [pc |-> "save", sub |-> new]]
    BY <1>1 DEF CancelBegin, EnsureSubscription, new
  <2>6. CancelOK(a)'
    BY <2>3, <2>4, <2>5 DEF CancelOK, RowOf, Inv, TypeOK
  <2>7. \A b \in Accounts : CancelOK(b)'
    BY <2>1, <2>5, <2>6, CancelsStay DEF Inv, TypeOK
  <2>8. TypeOK'
    <3>1. cn' \in [Accounts -> [pc: {"idle", "save"}, sub: SubRow]]
      BY <2>4, <2>5 DEF Inv, TypeOK
    <3>2. /\ UNCHANGED <<now, subs, plan, pay, prov, events, co, hk, wk, activated, credit,
                         applied, optedOut, reactivated, faults>>
          /\ asked' = asked \cup {a}
      BY <1>1 DEF CancelBegin, rowVars, extVars
    <3> QED BY <3>1, <3>2 DEF Inv, TypeOK
  <2> QED BY <1>1, <2>1, <2>7, <2>8, RowsStay, CheckoutsStay, HooksStay, WorkerStays,
             PlansStay, EventsStay DEF Inv, CancelBegin, rowVars, extVars, Grows, PayGrows, RowsOK
<1>2. CASE CancelSave(a)
  <2>1. Grows
    BY <1>2, PayUnchanged DEF CancelSave, extVars, Grows, ProvGrows
  <2>2. subs' \in [Accounts -> SubRow] /\ RowsOK'
    <3>1. CASE UNCHANGED subs
      BY <2>1, <3>1, RowsStay DEF Inv, TypeOK, RowsOK
    <3>2. CASE UpdateSubscription(a, cn[a].sub)
      BY <1>2, <2>1, <3>2, RowWritten DEF Inv, CancelOK, CancelSave
    <3> QED BY <1>2, <3>1, <3>2 DEF CancelSave
  <2>3. cn' = [cn EXCEPT ![a] = NoCancel]
    BY <1>2 DEF CancelSave
  <2>4. \A b \in Accounts : CancelOK(b)'
    BY <2>1, <2>3, CancelsStay, IdleRecords DEF Inv, TypeOK, CancelOK
  <2>5. faults' \in Nat /\ optedOut' \in SUBSET Accounts /\ reactivated' \in SUBSET Accounts
    BY <1>2 DEF CancelSave, Fault, Inv, TypeOK
  <2>6. cn' \in [Accounts -> [pc: {"idle", "save"}, sub: SubRow]]
    BY <2>3, IdleRecords DEF Inv, TypeOK, NoCancel
  <2>7. TypeOK'
    BY <1>2, <2>2, <2>5, <2>6 DEF CancelSave, extVars, Inv, TypeOK
  <2> QED BY <1>2, <2>1, <2>2, <2>4, <2>7, CheckoutsStay, HooksStay, WorkerStays,
             PlansStay, EventsStay DEF Inv, CancelSave, extVars, Grows, PayGrows
<1> QED BY <1>1, <1>2

\* HandleWebhook.
HookCall == [pc: {"idle", "mark", "read", "save", "plan"}, pay: Payments \cup {None},
             event: {"succeeded", "failed", "refunded"}, at: Nat, sub: SubRow]

LEMMA ReceiveKeepsInv ==
    ASSUME Inv, NEW h \in Hooks, NEW e \in events, HookReceive(h, e)
    PROVE  Inv'
<1> DEFINE p == e[1]
           status == ykStatus(e[2])
           ours == PaymentByProviderID(p) /\ ~Handled(pay[p], status)
<1>0. e \in Payments \X ProviderStatuses /\ p \in Payments /\ e[2] \in ProviderStatuses
      /\ e = <<e[1], e[2]>> /\ e[1] = p
  BY DEF Inv, TypeOK
<1>1. /\ UNCHANGED <<rowVars, now, prov, co, cn, wk, histVars>>
      /\ events' \subseteq events
  BY DEF HookReceive, Answered
<1>2. faults' \in Nat
  <2>1. UNCHANGED faults \/ Fault
    BY DEF HookReceive
  <2> QED BY <2>1 DEF Fault, Inv, TypeOK
<1>3. Grows
  BY <1>1, PayUnchanged DEF rowVars, histVars, Grows, ProvGrows
<1>4. \/ hk' = [hk EXCEPT ![h] = NoHook]
      \/ ours /\ hk' = [hk EXCEPT ![h] = [@ EXCEPT !.pc = "mark", !.pay = p,
                                                    !.event = status, !.at = now]]
  BY DEF HookReceive, Answered, HookReturns
<1>5. status \in {"succeeded", "failed", "refunded"} /\ (status = "succeeded" => e[2] = "succeeded")
  BY <1>0 DEF ykStatus, ProviderStatuses
<1>6. HookOK(h)' /\ hk' \in [Hooks -> HookCall]
  <2>0. hk \in [Hooks -> HookCall] /\ now \in Nat /\ now \in Clock
    BY DEF Inv, TypeOK, HookCall
  <2>1. CASE hk' = [hk EXCEPT ![h] = NoHook]
    <3>1. NoHook \in HookCall
      BY IdleRecords DEF NoHook, HookCall
    <3> QED BY <2>0, <2>1, <3>1, IdleRecords DEF HookOK
  <2>2. CASE ours /\ hk' = [hk EXCEPT ![h] = [@ EXCEPT !.pc = "mark", !.pay = p,
                                                        !.event = status, !.at = now]]
    <3>1. /\ hk'[h].pc = "mark" /\ hk'[h].pay = p /\ hk'[h].event = status /\ hk'[h].at = now
          /\ hk' \in [Hooks -> HookCall]
      <4> HIDE DEF p, status
      <4> QED BY ZenonT(60), <2>0, <2>2, <1>0, <1>5 DEF HookCall
    <3>2. pay[p].linked /\ pay[p].status # "succeeded"
      BY <2>2 DEF PaymentByProviderID, Handled
    <3>3. p \in FirstPayments /\ pay[p].status # "none"
      BY <1>0, <3>2 DEF Inv, PaymentsKnown, Payments
    <3>4. status = "succeeded" => prov[p] \in Taken
      BY <1>0, <1>5 DEF Inv, EventsTrue, Taken
    <3> QED BY <1>1, <2>0, <3>1, <3>3, <3>4 DEF HookOK, rowVars
  <2> QED BY <1>4, <2>1, <2>2
<1>7. \A g \in Hooks : HookOK(g)'
  <2>1. \A g \in Hooks : g # h => hk'[g] = hk[g]
    BY <1>4 DEF Inv, TypeOK
  <2> QED BY <1>3, <1>6, <2>1, HooksStay
<1>8. TypeOK'
  BY <1>1, <1>2, <1>6 DEF rowVars, histVars, Inv, TypeOK, HookCall
<1> QED BY <1>1, <1>3, <1>7, <1>8, RowsStay, CheckoutsStay, CancelsStay, WorkerStays, PlansStay,
           EventsStay DEF Inv, rowVars, histVars, Grows, PayGrows, RowsOK

\* An execution that ends, whatever else the step does.
LEMMA HookEnds ==
    ASSUME Inv, Grows, NEW h \in Hooks, HookReturns(h)
    PROVE  hk' \in [Hooks -> HookCall] /\ \A g \in Hooks : HookOK(g)'
<1>0. hk \in [Hooks -> HookCall]
  BY DEF Inv, TypeOK, HookCall
<1>1. NoHook \in HookCall
  BY IdleRecords DEF NoHook, HookCall
<1>2. hk' \in [Hooks -> HookCall] /\ hk'[h] = NoHook /\ \A g \in Hooks : g # h => hk'[g] = hk[g]
  BY <1>0, <1>1 DEF HookReturns
<1>3. HookOK(h)'
  BY <1>2, IdleRecords DEF HookOK
<1> QED BY <1>2, <1>3, HooksStay

\* One more period or grace of a that ends at t.
LEMMA OpenedCounts ==
    ASSUME NEW a \in Accounts, NEW t \in Ends, credit \in [Accounts -> [Ends -> Int]]
    PROVE  /\ Opened(a, t) \in [Accounts -> [Ends -> Int]]
           /\ \A b \in Accounts : \A u \in Ends :
                Opened(a, t)[b][u] = IF b = a /\ u = t THEN credit[b][u] + 1 ELSE credit[b][u]
<1>1. Opened(a, t) = [credit EXCEPT ![a] = [credit[a] EXCEPT ![t] = credit[a][t] + 1]]
  BY DEF Opened
<1>2. [credit[a] EXCEPT ![t] = credit[a][t] + 1] \in [Ends -> Int]
  OBVIOUS
<1> QED BY <1>1, <1>2

LEMMA WebhookKeepsInv ==
    ASSUME Inv, NEW h \in Hooks, Webhook(h)
    PROVE  Inv'
<1> DEFINE p == hk[h].pay
           a == pay[p].account
<1>0. /\ hk \in [Hooks -> HookCall] /\ hk[h].pc # "idle"
      /\ faults' = faults \/ Fault
      /\ UNCHANGED <<now, prov, co, cn, wk, asked>> /\ events' \subseteq events
  <2>1. hk \in [Hooks -> HookCall]
    BY DEF Inv, TypeOK, HookCall
  <2> QED BY <2>1 DEF Webhook, HookMark, HookRead, HookSave, HookPlan, HookFails, Answered, rowVars,
                     extVars, histVars
<1>1. /\ p \in FirstPayments /\ p \in Payments /\ p \notin Renewals /\ pay[p].status # "none"
      /\ a \in Accounts /\ hk[h].at \in Clock
      /\ hk[h].event = "succeeded" => prov[p] \in Taken
      /\ hk[h].pc # "mark" => hk[h].event = "succeeded"
  <2>1. /\ p \in FirstPayments /\ pay[p].status # "none" /\ hk[h].at \in Clock
        /\ hk[h].event = "succeeded" => prov[p] \in Taken
        /\ hk[h].pc # "mark" => hk[h].event = "succeeded"
    BY <1>0 DEF Inv, HookOK
  <2> QED BY <2>1, BillingConstants DEF Inv, PaymentsKnown, Payments
<1>2. faults' \in Nat
  BY <1>0 DEF Fault, Inv, TypeOK
<1>3. PayGrows /\ \A q \in Payments : q # p => pay'[q] = pay[q]
  <2>1. CASE UNCHANGED pay
    BY <2>1, PayUnchanged
  <2>2. CASE ~UNCHANGED pay
    <3>1. UpdatePaymentResult(p, hk[h].event, FALSE)
      BY <2>2 DEF Webhook, HookMark, HookRead, HookSave, HookPlan, rowVars
    <3>2. hk[h].event \in {"pending", "succeeded", "failed", "refunded"}
      BY <1>0 DEF HookCall
    <3> QED BY <1>1, <3>1, <3>2, PayResult
  <2> QED BY <2>1, <2>2
<1>4. Grows
  BY <1>0, <1>3 DEF Grows, ProvGrows
<1>5. a \in Paid \/ hk[h].pc = "mark"
  BY <1>1 DEF Paid
<1>6. hk' \in [Hooks -> HookCall] /\ \A g \in Hooks : HookOK(g)'
  <2>1. CASE HookReturns(h)
    BY <1>4, <2>1, HookEnds
  <2>2. ASSUME NEW label \in {"read", "plan"}, HookStep(h, label),
               label = "read" => hk[h].event = "succeeded",
               label = "plan" => hk[h].pc = "save"
        PROVE  hk' \in [Hooks -> HookCall] /\ \A g \in Hooks : HookOK(g)'
    <3>1. /\ hk' \in [Hooks -> HookCall] /\ \A g \in Hooks : g # h => hk'[g] = hk[g]
          /\ hk'[h].pc = label /\ hk'[h].pay = p /\ hk'[h].event = hk[h].event
          /\ hk'[h].at = hk[h].at
      BY <1>0, <2>2 DEF HookStep, HookCall
    <3>2. pay'[p].status # "none" /\ (prov[p] \in Taken => prov'[p] \in Taken)
      BY <1>1, <1>4 DEF Grows, PayGrows, ProvGrows
    <3>3. HookOK(h)'
      BY <1>1, <2>2, <3>1, <3>2 DEF HookOK
    <3> QED BY <1>4, <3>1, <3>3, HooksStay
  <2>3. ASSUME hk[h].pc = "read", NEW t \in {TRUE, subs[a].token},
               hk' = [hk EXCEPT ![h].pc = "save", ![h].sub = Activated(subs[a], hk[h].at, t)]
        PROVE  hk' \in [Hooks -> HookCall] /\ \A g \in Hooks : HookOK(g)'
    <3> DEFINE new == Activated(subs[a], hk[h].at, t)
    <3>1. RowOf(a, subs[a]) /\ Failures(a) \in Nat /\ t \in BOOLEAN /\ a \in Paid
      <4>1. subs[a].token \in BOOLEAN /\ RowOf(a, subs[a])
        BY <1>1 DEF Inv, RowsOK, TypeOK, SubRow
      <4> QED BY <1>5, <2>3, <4>1, RefusedFinite
    <3>2. RowOf(a, new)
      BY <1>1, <3>1, ActivatedFits DEF RowOf
    <3>3. new \in SubRow
      BY <3>2 DEF RowOf, RowFits
    <3> HIDE DEF new
    <3>4. /\ hk' \in [Hooks -> HookCall] /\ \A g \in Hooks : g # h => hk'[g] = hk[g]
          /\ hk'[h].pc = "save" /\ hk'[h].pay = p /\ hk'[h].event = hk[h].event
          /\ hk'[h].at = hk[h].at /\ hk'[h].sub = new
      <4>1. hk' = [hk EXCEPT ![h].pc = "save", ![h].sub = new]
        BY <2>3 DEF new
      <4> QED BY <1>0, <3>3, <4>1 DEF HookCall
    <3>5. /\ pay'[p].status # "none" /\ pay'[p].account = a
          /\ prov[p] \in Taken => prov'[p] \in Taken
      BY <1>1, <1>4 DEF Grows, PayGrows, ProvGrows
    <3>6. \A b \in Accounts : RowOf(b, new) => RowFits(new, b, Paid', asked', Failures(b)')
      BY <1>4, Carry
    <3>7. RowOf(pay[hk[h].pay].account, hk[h].sub)'
      <4>1. RowFits(new, pay'[hk'[h].pay].account, Paid', asked', Failures(pay[hk[h].pay].account)')
        BY <1>1, <3>2, <3>4, <3>5, <3>6
      <4> QED BY <3>4, <4>1 DEF RowOf
    <3>8. HookOK(h)'
      BY <1>1, <2>3, <3>4, <3>5, <3>7 DEF HookOK
    <3> QED BY <1>4, <3>4, <3>8, HooksStay
  <2>4. CASE HookMark(h)
    BY <2>1, <2>2, <2>4 DEF HookMark, HookFails, Answered, Activates
  <2>5. CASE HookRead(h)
    BY <2>1, <2>3, <2>5 DEF HookRead, HookFails, SubscriptionByAccount
  <2>6. CASE HookSave(h) \/ HookPlan(h)
    BY <2>1, <2>2, <2>6 DEF HookSave, HookPlan, HookFails, Answered
  <2> QED BY <2>4, <2>5, <2>6 DEF Webhook
<1>7. subs' \in [Accounts -> SubRow] /\ RowsOK'
  <2>1. CASE UNCHANGED subs
    BY <1>4, <2>1, RowsStay DEF Inv, TypeOK, RowsOK
  <2>2. CASE ~UNCHANGED subs
    <3>1. UpdateSubscription(a, hk[h].sub) /\ hk[h].pc = "save"
      BY <2>2 DEF Webhook, HookMark, HookRead, HookSave, HookPlan, rowVars
    <3> QED BY <1>1, <1>4, <3>1, RowWritten DEF Inv, HookOK
  <2> QED BY <2>1, <2>2
<1>8. plan' \in [Accounts -> {"free", "premium"}] /\ PlansPaid'
  <2>1. CASE UNCHANGED plan
    BY <1>4, <2>1, PlansStay DEF Inv, TypeOK
  <2>2. CASE ~UNCHANGED plan
    <3>1. SetAccountPlan(a, "premium") /\ hk[h].pc = "plan"
      BY <2>2 DEF Webhook, HookMark, HookRead, HookSave, HookPlan, rowVars
    <3>2. a \in Paid' /\ Paid \subseteq Paid'
      BY <1>4, <1>5, <3>1, PaidStays
    <3> QED BY <1>1, <3>1, <3>2 DEF SetAccountPlan, Inv, TypeOK, PlansPaid
  <2> QED BY <2>1, <2>2
<1>9. /\ activated' \in SUBSET Payments /\ credit' \in [Accounts -> [Ends -> Int]]
      /\ applied' \in SUBSET Payments
      /\ optedOut' \in SUBSET Accounts /\ reactivated' \in SUBSET Accounts
  <2>1. credit \in [Accounts -> [Ends -> Int]] /\ activated \in SUBSET Payments
        /\ applied \in SUBSET Payments
        /\ optedOut \in SUBSET Accounts /\ reactivated \in SUBSET Accounts
    BY DEF Inv, TypeOK
  <2>2. CASE HookMark(h) \/ HookRead(h) \/ HookPlan(h)
    BY <1>1, <2>1, <2>2 DEF HookMark, HookRead, HookPlan, histVars
  <2>3. CASE HookSave(h)
    <3>1. activated' = activated /\ optedOut' \subseteq optedOut
          /\ applied' \subseteq applied \cup {hk[h].pay}
          /\ reactivated' \subseteq reactivated \cup {a}
          /\ (credit' = credit \/ credit' = Opened(a, hk[h].sub.end))
      BY <2>3 DEF HookSave, Applies, histVars
    <3>2. Opened(a, hk[h].sub.end) \in [Accounts -> [Ends -> Int]]
      <4>1. hk[h].sub.end \in Ends
        BY <2>3 DEF HookSave, Inv, HookOK, RowOf, RowFits
      <4> QED BY <1>1, <2>1, <4>1, OpenedCounts
    <3>3. p \in Payments /\ a \in Accounts
      BY <1>1
    <3> QED BY <2>1, <3>1, <3>2, <3>3
  <2> QED BY <2>2, <2>3 DEF Webhook
<1>10. TypeOK'
  BY <1>0, <1>2, <1>3, <1>6, <1>7, <1>8, <1>9 DEF Inv, TypeOK, PayGrows, HookCall
<1>11. WorkerOK'
  <2>1. wk.pc \in {"charge", "mark", "markfailed"} => pay'[wk.pay] = pay[wk.pay]
    BY <1>1, <1>3 DEF Inv, WorkerOK, Payments
  <2> QED BY <1>0, <1>4, <2>1, WorkerStays
<1> QED BY <1>0, <1>3, <1>4, <1>6, <1>7, <1>8, <1>10, <1>11, CheckoutsStay, CancelsStay,
           EventsStay DEF Inv, PayGrows

\* ProcessDue.
WorkerCall == [pc: {"idle", "next", "charge", "mark", "markfailed", "save", "plan"},
               batch: SUBSET Accounts, snap: [Accounts -> SubRow],
               acc: Accounts \cup {None}, pay: Payments \cup {None}, at: Nat]

LEMMA NoPassIsCall == NoPass \in WorkerCall
BY IdleRecords DEF NoPass, WorkerCall

\* What is left to show of a step of the worker.
LEMMA WorkerStepKeepsInv ==
    ASSUME Inv, PayGrows, ProvGrows, WorkerOK', EventsTrue', wk' \in WorkerCall,
           UNCHANGED <<now, co, hk, cn, activated, asked, applied, optedOut, reactivated>>,
           \A p \in FirstPayments : prov'[p] = prov[p],
           prov' \in [Payments -> {"none", "created"} \cup ProviderStatuses],
           events' \in SUBSET (Payments \X ProviderStatuses),
           subs' \in [Accounts -> SubRow], RowsOK',
           plan' \in [Accounts -> {"free", "premium"}], PlansPaid',
           credit' \in [Accounts -> [Ends -> Int]], faults' = faults \/ Fault
    PROVE  Inv'
<1>1. Grows
  BY DEF Grows
<1>2. faults' \in Nat
  BY DEF Inv, TypeOK, Fault
<1>3. TypeOK'
  BY <1>2 DEF Inv, TypeOK, PayGrows, WorkerCall
<1> QED BY <1>1, <1>3, CheckoutsStay, HooksStay, CancelsStay DEF Inv, PayGrows

LEMMA ScanKeepsInv ==
    ASSUME Inv, WorkerScan
    PROVE  Inv'
<1> DEFINE due == {a \in Accounts : Due(subs[a])}
           new == [wk EXCEPT !.pc = "next", !.batch = due, !.snap = subs]
<1>0. wk \in WorkerCall /\ subs \in [Accounts -> SubRow]
  BY DEF Inv, TypeOK, WorkerCall
<1>1. wk' = new
  BY DEF WorkerScan
<1>2. \A a \in due : subs[a].plan = "premium" /\ subs[a].status \in {"active", "past_due"}
  BY DEF Due
<1>3. due \in SUBSET Accounts
  OBVIOUS
<1> HIDE DEF due
<1>4. new \in WorkerCall /\ new.pc = "next" /\ new.batch = due /\ new.snap = subs
  BY <1>0, <1>3 DEF WorkerCall
<1> HIDE DEF new
<1>5. UNCHANGED <<now, subs, plan, pay, prov, events, co, hk, cn, activated, credit, asked,
                  applied, optedOut, reactivated, faults>>
  BY DEF WorkerScan, rowVars, extVars, histVars
<1>6. PayGrows /\ ProvGrows /\ Grows
  BY <1>5, PayUnchanged DEF Grows, ProvGrows
<1>7. RowsOK' /\ PlansPaid' /\ EventsTrue'
  BY <1>5, <1>6, RowsStay, PlansStay, EventsStay DEF RowsOK
<1>8. WorkerOK'
  <2>1. \A a \in Accounts : RowOf(a, wk.snap[a])'
    BY <1>1, <1>4, <1>5, <1>7 DEF RowsOK, RowOf
  <2> QED BY <1>1, <1>2, <1>4, <1>5, <2>1 DEF WorkerOK
<1> QED BY <1>1, <1>4, <1>5, <1>6, <1>7, <1>8, WorkerStepKeepsInv DEF Inv, TypeOK

\* renewOne: a cancelled subscription is about to be downgraded, for another a
\* payment has been created.
LEMMA NextKeepsInv ==
    ASSUME Inv, NEW a \in Accounts, NEW p \in Renewals, WorkerNext(a, p)
    PROVE  Inv'
<1>0. /\ wk \in WorkerCall /\ wk.pc = "next" /\ a \in wk.batch /\ p \in Payments
      /\ RowOf(a, wk.snap[a]) /\ wk.snap \in [Accounts -> SubRow] /\ now \in Clock /\ now \in Nat
      /\ wk.snap[a].plan = "premium" /\ wk.snap[a].status \in {"active", "past_due"}
      /\ wk.snap[a] \in SubRow
  BY DEF Inv, TypeOK, WorkerCall, WorkerOK, WorkerNext, Payments
<1>1. /\ UNCHANGED <<now, subs, plan, prov, events, co, hk, cn, activated, credit, asked, applied, optedOut, reactivated>>
      /\ faults' = faults \/ Fault
  BY DEF WorkerNext, WorkerFails, extVars, histVars
<1>2. ASSUME PayGrows, WorkerOK', wk' \in WorkerCall
      PROVE  Inv'
  <2>1. ProvGrows /\ Grows
    BY <1>1, <1>2 DEF Grows, ProvGrows
  <2>2. RowsOK' /\ PlansPaid' /\ EventsTrue'
    BY <1>1, <2>1, RowsStay, PlansStay, EventsStay DEF RowsOK
  <2> QED BY <1>1, <1>2, <2>1, <2>2, WorkerStepKeepsInv DEF Inv, TypeOK
<1>3. CASE wk.snap[a].cancel /\ wk' = [wk EXCEPT !.pc = "save", !.batch = @ \ {a}, !.acc = a,
                                                  !.snap[a] = Downgraded(@)] /\ UNCHANGED pay
  <2> DEFINE s == Downgraded(wk.snap[a])
  <2>1. Failures(a) \in Nat /\ RowFits(wk.snap[a], a, Paid, asked, Failures(a))
    BY <1>0, RefusedFinite DEF RowOf
  <2>2. /\ wk.snap[a].end \in Ends /\ a \in asked /\ wk.snap[a].dunning <= Failures(a)
    BY <1>3, <2>1 DEF RowFits
  <2>3. RowOf(a, s) /\ s.status = "canceled"
    BY <1>0, <2>1, <2>2, DowngradedFits DEF RowOf
  <2>4. s \in SubRow
    BY <2>3 DEF RowOf, RowFits
  <2> HIDE DEF s
  <2>5. /\ wk' \in WorkerCall /\ wk'.pc = "save" /\ wk'.batch = wk.batch \ {a} /\ wk'.acc = a
        /\ wk'.snap = [wk.snap EXCEPT ![a] = s]
    <3>1. wk' = [wk EXCEPT !.pc = "save", !.batch = @ \ {a}, !.acc = a, !.snap = [@ EXCEPT ![a] = s]]
      BY <1>0, <1>3 DEF s
    <3> QED BY <1>0, <2>4, <3>1 DEF WorkerCall
  <2>6. PayGrows /\ Grows
    BY <1>1, <1>3, PayUnchanged DEF Grows, ProvGrows
  <2>7. WorkerOK'
    <3>1. RowFits(s, a, Paid', asked', Failures(a)')
      BY <2>3, <2>6, Carry
    <3>2. \A b \in Accounts : RowOf(b, wk.snap[b])'
      <4>1. ASSUME NEW b \in Accounts, b # a PROVE RowOf(b, wk.snap[b])'
        BY <1>0, <2>5, <2>6, <4>1, SnapsStay
      <4>2. RowOf(a, wk.snap[a])'
        BY <1>0, <2>5, <3>1 DEF RowOf
      <4> QED BY <4>1, <4>2
    <3> QED BY <1>0, <2>3, <2>5, <3>2 DEF Inv, WorkerOK
  <2> QED BY <1>2, <2>5, <2>6, <2>7
<1>4. CASE ~wk.snap[a].cancel /\ CreatePayment(p, a)
           /\ wk' = [wk EXCEPT !.pc = "charge", !.batch = @ \ {a}, !.acc = a, !.pay = p, !.at = now]
  <2>1. PayGrows /\ pay'[p] = [account |-> a, linked |-> FALSE, status |-> "pending"]
    BY <1>0, <1>4, PayCreated
  <2>2. /\ wk' \in WorkerCall /\ wk'.pc = "charge" /\ wk'.batch = wk.batch \ {a} /\ wk'.acc = a
        /\ wk'.snap = wk.snap /\ wk'.pay = p /\ wk'.at = now
    BY <1>0, <1>4 DEF WorkerCall
  <2>3. Grows
    BY <1>1, <2>1 DEF Grows, ProvGrows
  <2>4. \A b \in Accounts : RowOf(b, wk.snap[b])'
    BY <2>2, <2>3, SnapsStay
  <2>5. WorkerOK'
    BY <1>0, <1>4, <2>1, <2>2, <2>4 DEF Inv, WorkerOK
  <2> QED BY <1>2, <2>1, <2>2, <2>5
<1>5. CASE wk' = NoPass /\ UNCHANGED pay
  BY <1>2, <1>5, PassEnds, NoPassIsCall, PayUnchanged
<1> QED BY <1>3, <1>4, <1>5 DEF WorkerNext, WorkerFails

\* The charge: the payment is the worker's own.
LEMMA ChargeKeepsInv ==
    ASSUME Inv, WorkerCharge
    PROVE  Inv'
<1> DEFINE a == wk.acc
           p == wk.pay
<1>0. /\ wk \in WorkerCall /\ wk.pc = "charge" /\ a \in Accounts /\ p \in Renewals /\ p \in Payments
      /\ p \notin FirstPayments /\ wk.snap[a].end \in Ends
      /\ prov \in [Payments -> {"none", "created"} \cup ProviderStatuses]
      /\ events \in SUBSET (Payments \X ProviderStatuses)
      /\ credit \in [Accounts -> [Ends -> Int]]
  BY BillingConstants DEF Inv, TypeOK, WorkerCall, WorkerOK, WorkerCharge, Payments, RowOf, RowFits
<1>1. /\ UNCHANGED <<now, subs, plan, pay, co, hk, cn, activated, asked, applied, optedOut, reactivated>>
      /\ faults' = faults \/ Fault
  BY DEF WorkerCharge, rowVars
<1>2. /\ UNCHANGED <<prov, events, credit>> \/ Charged(a, p)
      /\ wk' = [wk EXCEPT !.pc = "mark"] \/ wk' = [wk EXCEPT !.pc = "markfailed"]
  BY DEF WorkerCharge
<1>3. /\ prov' \in [Payments -> {"none", "created"} \cup ProviderStatuses]
      /\ events' \in SUBSET (Payments \X ProviderStatuses)
      /\ \A q \in Payments : q # p => prov'[q] = prov[q]
      /\ prov'[p] \in {prov[p], "succeeded"}
      /\ events' \subseteq events \cup {<<p, "succeeded">>}
      /\ <<p, "succeeded">> \in events' => <<p, "succeeded">> \in events \/ prov'[p] = "succeeded"
  <2>1. CASE UNCHANGED <<prov, events, credit>>
    BY <1>0, <2>1
  <2>2. CASE Charged(a, p)
    <3>1. prov' = [prov EXCEPT ![p] = "succeeded"] /\ events' = events \cup {<<p, "succeeded">>}
      BY <2>2 DEF Charged, Report
    <3>2. "succeeded" \in ProviderStatuses /\ <<p, "succeeded">> \in Payments \X ProviderStatuses
      BY <1>0 DEF ProviderStatuses
    <3> HIDE DEF p
    <3> QED BY <1>0, <3>1, <3>2
  <2> QED BY <1>2, <2>1, <2>2
<1>4. credit' \in [Accounts -> [Ends -> Int]]
  <2>1. CASE UNCHANGED credit
    BY <1>0, <2>1
  <2>2. CASE Charged(a, p)
    <3>1. credit' = [credit EXCEPT ![a] = [credit[a] EXCEPT ![wk.snap[a].end] = credit[a][wk.snap[a].end] - 1]]
      BY <2>2 DEF Charged
    <3>2. [credit[a] EXCEPT ![wk.snap[a].end] = credit[a][wk.snap[a].end] - 1] \in [Ends -> Int]
      BY <1>0
    <3> QED BY <1>0, <3>1, <3>2
  <2> QED BY <1>2, <2>1, <2>2
<1>5. PayGrows /\ ProvGrows /\ Grows
  BY <1>1, <1>3, PayUnchanged DEF Grows, ProvGrows, Taken
<1>6. EventsTrue'
  <2> SUFFICES ASSUME NEW q \in Payments, NEW s \in Taken, <<q, s>> \in events'
               PROVE  prov'[q] \in Taken
    BY DEF EventsTrue
  <2>1. CASE <<q, s>> \in events
    BY <1>5, <2>1 DEF Inv, EventsTrue, ProvGrows
  <2>2. CASE <<q, s>> \notin events
    BY <1>3, <2>2 DEF Taken
  <2> QED BY <2>1, <2>2
<1>7. /\ wk' \in WorkerCall /\ wk'.pc \in {"mark", "markfailed"} /\ wk'.batch = wk.batch
      /\ wk'.acc = a /\ wk'.snap = wk.snap /\ wk'.pay = p /\ wk'.at = wk.at
  <2>1. CASE wk' = [wk EXCEPT !.pc = "mark"]
    BY <1>0, <2>1 DEF WorkerCall
  <2>2. CASE wk' = [wk EXCEPT !.pc = "markfailed"]
    BY <1>0, <2>2 DEF WorkerCall
  <2> QED BY <1>2, <2>1, <2>2
<1>8. WorkerOK'
  <2>1. \A b \in Accounts : RowOf(b, wk.snap[b])'
    BY <1>5, <1>7, SnapsStay
  <2> QED BY <1>0, <1>1, <1>7, <2>1 DEF Inv, WorkerOK
<1>9. RowsOK' /\ PlansPaid' /\ \A q \in FirstPayments : prov'[q] = prov[q]
  BY <1>0, <1>1, <1>3, <1>5, RowsStay, PlansStay DEF RowsOK, Payments
<1> QED BY <1>1, <1>3, <1>4, <1>5, <1>6, <1>7, <1>8, <1>9, WorkerStepKeepsInv DEF Inv, TypeOK

\* A refused charge is counted: the payment was not among the refused ones.
LEMMA RefusalCounts ==
    ASSUME Inv, wk.pc = "markfailed", UpdatePaymentResult(wk.pay, "failed", FALSE), PayGrows
    PROVE  /\ wk.acc \in Accounts
           /\ \A a \in Accounts : a = wk.acc => Failures(a)' = Failures(a) + 1
<1>1. /\ wk.acc \in Accounts /\ wk.pay \in Renewals /\ wk.pay \in Payments
      /\ pay[wk.pay].account = wk.acc /\ pay[wk.pay].status = "pending"
      /\ pay \in [Payments -> PayRow]
  BY DEF Inv, WorkerOK, TypeOK, Payments
<1>2. ASSUME NEW a \in Accounts, a = wk.acc
      PROVE  Failures(a)' = Failures(a) + 1
  <2>1. /\ pay'[wk.pay].status = "failed" /\ pay'[wk.pay].account = a
        /\ \A q \in Payments : q # wk.pay => pay'[q] = pay[q]
    BY <1>1, <1>2 DEF UpdatePaymentResult, PayRow
  <2>2. Refused(a)' = Refused(a) \cup {wk.pay} /\ wk.pay \notin Refused(a)
    BY <1>1, <2>1 DEF Refused, Payments
  <2>3. IsFiniteSet(Refused(a))
    BY RefusedFinite
  <2>4. Cardinality(Refused(a) \cup {wk.pay}) = Cardinality(Refused(a)) + 1
    BY <2>2, <2>3, FS_AddElement
  <2> QED BY <2>2, <2>4 DEF Failures
<1> QED BY <1>1, <1>2

\* The result of the charge is noted, and the copy of the row changed.
LEMMA MarkKeepsInv ==
    ASSUME Inv, WorkerMark \/ WorkerMarkFailed
    PROVE  Inv'
<1> DEFINE p == wk.pay
<1>0. /\ wk \in WorkerCall /\ wk.pc \in {"mark", "markfailed"} /\ wk.at \in Clock
      /\ p \in Renewals /\ p \in Payments
      /\ pay[p].linked = FALSE /\ pay[p].status = "pending"
      /\ wk.snap \in [Accounts -> SubRow]
  <2>1. wk \in WorkerCall /\ wk.snap \in [Accounts -> SubRow] /\ wk.pc \in {"mark", "markfailed"}
    BY DEF Inv, TypeOK, WorkerCall, WorkerMark, WorkerMarkFailed
  <2>2. /\ pay[p] = [account |-> wk.acc, linked |-> FALSE, status |-> "pending"]
        /\ wk.at \in Clock /\ p \in Renewals
    BY <2>1 DEF Inv, WorkerOK
  <2> QED BY <2>1, <2>2 DEF Payments
<1>1. PICK a \in Accounts : a = wk.acc
  BY <1>0 DEF Inv, WorkerOK
<1>2. /\ RowOf(a, wk.snap[a]) /\ Failures(a) \in Nat /\ wk.snap[a] \in SubRow
      /\ wk.snap[a].plan = "premium"
  BY <1>0, <1>1, RefusedFinite DEF Inv, WorkerOK
<1>3. /\ UNCHANGED <<now, subs, plan, prov, events, co, hk, cn, activated, credit, asked, applied, optedOut, reactivated>>
      /\ faults' = faults \/ Fault
  BY DEF WorkerMark, WorkerMarkFailed, WorkerFails, UpdatePaymentResult, extVars, histVars
<1>4. ASSUME PayGrows, WorkerOK', wk' \in WorkerCall
      PROVE  Inv'
  <2>1. ProvGrows /\ Grows
    BY <1>3, <1>4 DEF Grows, ProvGrows
  <2>2. RowsOK' /\ PlansPaid' /\ EventsTrue'
    BY <1>3, <2>1, RowsStay, PlansStay, EventsStay DEF RowsOK
  <2> QED BY <1>3, <1>4, <2>1, <2>2, WorkerStepKeepsInv DEF Inv, TypeOK
<1>5. ASSUME PayGrows, NEW s, RowFits(s, a, Paid', asked', Failures(a)'),
             s.status = "active" => s.plan = "premium",
             wk' = [wk EXCEPT !.pc = "save", !.snap = [@ EXCEPT ![a] = s]]
      PROVE  Inv'
  <2>1. Grows
    BY <1>3, <1>5 DEF Grows, ProvGrows
  <2>2. s \in SubRow
    BY <1>5 DEF RowFits
  <2>3. /\ wk' \in WorkerCall /\ wk'.pc = "save" /\ wk'.batch = wk.batch /\ wk'.acc = a
        /\ wk'.snap = [wk.snap EXCEPT ![a] = s]
    BY <1>0, <1>1, <1>5, <2>2 DEF WorkerCall
  <2>4. ASSUME NEW b \in Accounts
        PROVE  RowOf(b, wk.snap[b])'
    <3>1. CASE b = a
      BY <1>0, <1>5, <2>3, <3>1 DEF RowOf
    <3>2. CASE b # a
      BY <1>0, <2>1, <2>3, <3>2, SnapsStay
    <3> QED BY <3>1, <3>2
  <2>5. \A b \in wk'.batch : wk'.snap[b].plan = "premium" /\ wk'.snap[b].status \in {"active", "past_due"}
    <3>1. a \notin wk.batch /\ wk.batch \subseteq Accounts
      BY <1>0, <1>1 DEF Inv, WorkerOK, WorkerCall
    <3>2. \A b \in wk.batch : wk.snap[b].plan = "premium" /\ wk.snap[b].status \in {"active", "past_due"}
      BY DEF Inv, WorkerOK
    <3>3. \A b \in Accounts : b # a => wk'.snap[b] = wk.snap[b]
      BY <1>0, <2>3
    <3> QED BY <2>3, <3>1, <3>2, <3>3
  <2>6. wk'.acc \in Accounts /\ wk'.acc \notin wk'.batch /\ wk'.snap[wk'.acc] = s
    BY <1>0, <1>1, <2>3 DEF Inv, WorkerOK
  <2>7. WorkerOK'
    BY <1>5, <2>3, <2>4, <2>5, <2>6 DEF WorkerOK
  <2> QED BY <1>4, <1>5, <2>3, <2>7
<1>6. CASE WorkerFails /\ UNCHANGED pay
  BY <1>4, <1>6, PassEnds, NoPassIsCall, PayUnchanged DEF WorkerFails
<1>7. CASE WorkerMark /\ ~(WorkerFails /\ UNCHANGED pay)
  <2> DEFINE s == Renewed(wk.snap[a], wk.at)
  <2>1. UpdatePaymentResult(p, "succeeded", TRUE) /\ wk' = [wk EXCEPT !.pc = "save", !.snap[wk.acc] = Renewed(@, wk.at)]
    BY <1>7 DEF WorkerMark
  <2>2. PayGrows
    BY <1>0, <2>1, PayResult
  <2>3. RowOf(a, s) /\ s.plan = "premium"
    BY <1>0, <1>2, RenewedFits DEF RowOf
  <2>4. Grows
    BY <1>3, <2>2 DEF Grows, ProvGrows
  <2>5. wk' = [wk EXCEPT !.pc = "save", !.snap = [@ EXCEPT ![a] = s]]
    BY <1>0, <1>1, <2>1 DEF WorkerCall
  <2> HIDE DEF s
  <2>6. RowFits(s, a, Paid', asked', Failures(a)')
    BY <2>3, <2>4, Carry
  <2> QED BY <1>5, <2>2, <2>3, <2>5, <2>6
<1>8. CASE WorkerMarkFailed /\ ~(WorkerFails /\ UNCHANGED pay)
  <2> DEFINE s == Dunned(wk.snap[a], wk.at)
  <2>1. /\ wk.pc = "markfailed" /\ UpdatePaymentResult(p, "failed", FALSE)
        /\ wk' = [wk EXCEPT !.pc = "save", !.snap[wk.acc] = Dunned(@, wk.at)]
    BY <1>8 DEF WorkerMarkFailed
  <2>2. PayGrows
    BY <1>0, <2>1, PayResult
  <2>3. Failures(a)' = Failures(a) + 1
    BY <1>1, <2>1, <2>2, RefusalCounts
  <2>4. RowFits(s, a, Paid, asked, Failures(a) + 1) /\ s.status \in {"past_due", "canceled"}
    BY <1>0, <1>2, DunnedFits DEF RowOf
  <2>5. Grows
    BY <1>3, <2>2 DEF Grows, ProvGrows
  <2>6. wk' = [wk EXCEPT !.pc = "save", !.snap = [@ EXCEPT ![a] = s]]
    BY <1>0, <1>1, <2>1 DEF WorkerCall
  <2> HIDE DEF s
  <2>7. RowFits(s, a, Paid', asked', Failures(a)')
    <3>1. Paid \subseteq Paid' /\ asked \subseteq asked'
      BY <2>5, PaidStays DEF Grows
    <3>2. Failures(a) + 1 \in Nat /\ Failures(a) + 1 <= Failures(a) + 1
      BY <1>2
    <3>3. RowFits(s, a, Paid', asked', Failures(a) + 1)
      BY <2>4, <3>1, <3>2, RowFitsMore
    <3> HIDE DEF p
    <3> QED BY <2>3, <3>3
  <2> QED BY <1>5, <2>2, <2>4, <2>6, <2>7
<1> QED BY <1>6, <1>7, <1>8

\* The changed copy is written: a renewal or a grace opens what it set.
LEMMA SaveKeepsInv ==
    ASSUME Inv, WorkerSave
    PROVE  Inv'
<1>0. /\ wk \in WorkerCall /\ wk.pc = "save" /\ credit \in [Accounts -> [Ends -> Int]]
  BY DEF Inv, TypeOK, WorkerCall, WorkerSave
<1>1. PICK a \in Accounts : a = wk.acc
  BY <1>0 DEF Inv, WorkerOK
<1>2. RowOf(a, wk.snap[a]) /\ wk.snap[a].end \in Ends
  BY DEF Inv, WorkerOK, RowOf, RowFits
<1>3. /\ UNCHANGED <<now, plan, pay, prov, events, co, hk, cn, activated, asked, applied, optedOut, reactivated>>
      /\ faults' = faults \/ Fault
  BY DEF WorkerSave, WorkerFails, extVars
<1>4. PayGrows /\ ProvGrows /\ Grows
  BY <1>3, PayUnchanged DEF Grows, ProvGrows
<1>5. ASSUME subs' \in [Accounts -> SubRow], RowsOK', credit' \in [Accounts -> [Ends -> Int]],
             WorkerOK', wk' \in WorkerCall
      PROVE  Inv'
  <2>1. PlansPaid' /\ EventsTrue'
    BY <1>3, <1>4, PlansStay, EventsStay
  <2> QED BY <1>3, <1>4, <1>5, <2>1, WorkerStepKeepsInv DEF Inv, TypeOK
<1>6. CASE wk' = NoPass /\ UNCHANGED <<subs, credit>>
  <2>1. subs' \in [Accounts -> SubRow] /\ RowsOK'
    BY <1>4, <1>6, RowsStay DEF Inv, TypeOK, RowsOK
  <2> QED BY <1>0, <1>5, <1>6, <2>1, PassEnds, NoPassIsCall
<1>7. ASSUME NEW label \in {"next", "plan"}, wk' = [wk EXCEPT !.pc = label],
             UpdateSubscription(a, wk.snap[a]), credit' \in {credit, Opened(a, wk.snap[a].end)}
      PROVE  Inv'
  <2>1. subs' \in [Accounts -> SubRow] /\ RowsOK'
    BY <1>2, <1>4, <1>7, RowWritten
  <2>2. credit' \in [Accounts -> [Ends -> Int]]
    BY <1>0, <1>2, <1>7, OpenedCounts
  <2>3. /\ wk' \in WorkerCall /\ wk'.pc = label /\ wk'.batch = wk.batch /\ wk'.acc = wk.acc
        /\ wk'.snap = wk.snap
    BY <1>0, <1>7 DEF WorkerCall
  <2>4. \A b \in Accounts : RowOf(b, wk.snap[b])'
    BY <1>4, <2>3, SnapsStay
  <2>5. WorkerOK'
    BY <1>0, <1>7, <2>3, <2>4 DEF Inv, WorkerOK
  <2> QED BY <1>5, <2>1, <2>2, <2>3, <2>5
<1>8. CASE wk' = [wk EXCEPT !.pc = IF wk.snap[a].status = "past_due" THEN "next" ELSE "plan"]
           /\ UpdateSubscription(a, wk.snap[a])
           /\ credit' \in {credit, Opened(a, wk.snap[a].end)}
  BY <1>7, <1>8
<1> QED BY <1>1, <1>6, <1>8 DEF WorkerSave, WorkerFails

\* The plan follows the copy that was written, and the pass goes on.
LEMMA PlanKeepsInv ==
    ASSUME Inv, WorkerPlan \/ WorkerDone
    PROVE  Inv'
<1>0. wk \in WorkerCall /\ plan \in [Accounts -> {"free", "premium"}]
  BY DEF Inv, TypeOK, WorkerCall
<1>1. /\ UNCHANGED <<now, subs, pay, prov, events, co, hk, cn, activated, asked, applied, optedOut, reactivated, credit>>
      /\ faults' = faults \/ Fault
  BY DEF WorkerPlan, WorkerDone, WorkerFails, rowVars, extVars, histVars
<1>2. PayGrows /\ ProvGrows /\ Grows
  BY <1>1, PayUnchanged DEF Grows, ProvGrows
<1>3. ASSUME plan' \in [Accounts -> {"free", "premium"}], PlansPaid', WorkerOK', wk' \in WorkerCall
      PROVE  Inv'
  <2>1. RowsOK' /\ EventsTrue'
    BY <1>1, <1>2, RowsStay, EventsStay DEF RowsOK
  <2> QED BY <1>1, <1>2, <1>3, <2>1, WorkerStepKeepsInv DEF Inv, TypeOK
<1>4. CASE wk' = NoPass /\ UNCHANGED plan
  BY <1>0, <1>2, <1>3, <1>4, PassEnds, NoPassIsCall, PlansStay
<1>5. CASE /\ wk.pc = "plan"
           /\ SetAccountPlan(wk.acc, IF wk.snap[wk.acc].status = "active" THEN "premium" ELSE "free")
           /\ wk' = [wk EXCEPT !.pc = "next"]
  <2>1. /\ wk' \in WorkerCall /\ wk'.pc = "next" /\ wk'.batch = wk.batch /\ wk'.snap = wk.snap
    BY <1>0, <1>5 DEF WorkerCall
  <2>2. \A b \in Accounts : RowOf(b, wk.snap[b])'
    BY <1>2, <2>1, SnapsStay
  <2>3. WorkerOK'
    BY <2>1, <2>2 DEF Inv, WorkerOK
  <2>4. wk.acc \in Accounts /\ (wk.snap[wk.acc].status = "active" => wk.acc \in Paid)
    BY <1>5 DEF Inv, WorkerOK, RowOf, RowFits
  <2>5. Paid \subseteq Paid'
    BY <1>2, PaidStays
  <2>6. plan' \in [Accounts -> {"free", "premium"}] /\ PlansPaid'
    BY <1>0, <1>5, <2>4, <2>5 DEF SetAccountPlan, Inv, PlansPaid
  <2> QED BY <1>3, <2>1, <2>3, <2>6
<1> QED BY <1>4, <1>5 DEF WorkerPlan, WorkerDone, WorkerFails, rowVars

LEMMA InitInv == Init => Inv
<1> SUFFICES ASSUME Init PROVE Inv
  OBVIOUS
<1>1. \A a \in Accounts : RowOf(a, NewSub)
  BY NewSubIsRow
<1>2. TypeOK /\ now \in Clock
  <2>1. NoPass \in WorkerCall /\ NoCancel \in [pc: {"idle", "save"}, sub: SubRow]
    BY NoPassIsCall, IdleRecords DEF NoCancel
  <2>2. NoHook \in HookCall /\ NoPay \in PayRow /\ NewSub \in SubRow
    BY IdleRecords DEF NoHook, HookCall, NoPay, PayRow
  <2>3. credit \in [Accounts -> [Ends -> Int]] /\ now \in Nat /\ faults \in Nat /\ now \in Clock
    BY BillingConstants DEF Init, Clock
  <2>4. /\ prov \in [Payments -> {"none", "created"} \cup ProviderStatuses]
        /\ co \in [FirstPayments -> [pc: {"none", "create", "link", "save", "done", "error"}, sub: SubRow]]
    BY <2>2 DEF Init
  <2>5. plan \in [Accounts -> {"free", "premium"}] /\ events \in SUBSET (Payments \X ProviderStatuses)
    BY DEF Init
  <2> QED BY <2>1, <2>2, <2>3, <2>4, <2>5 DEF Init, TypeOK, WorkerCall, HookCall
<1>3. RowsOK /\ WorkerOK
  BY <1>1, IdleRecords DEF Init, RowsOK, WorkerOK
<1>4. PaymentsKnown /\ EventsTrue /\ PlansPaid
  BY DEF Init, PaymentsKnown, EventsTrue, PlansPaid, NoPay
<1>5. /\ \A p \in FirstPayments : CheckoutOK(p)
      /\ \A h \in Hooks : HookOK(h)
      /\ \A a \in Accounts : CancelOK(a)
  BY IdleRecords DEF Init, CheckoutOK, HookOK, CancelOK, Payments
<1> QED BY <1>2, <1>3, <1>4, <1>5 DEF Inv

LEMMA StepInv == Inv /\ [Next]_vars => Inv'
<1> SUFFICES ASSUME Inv, [Next]_vars PROVE Inv'
  OBVIOUS
<1>1. CASE UNCHANGED vars
  <2>1. Grows /\ TypeOK'
    BY <1>1, PayUnchanged DEF vars, Grows, ProvGrows, Inv, TypeOK
  <2> QED BY <1>1, <2>1, RowsStay, CheckoutsStay, HooksStay, CancelsStay, WorkerStays, PlansStay,
             EventsStay DEF vars, Inv, Grows, PayGrows, RowsOK
<1>2. CASE Worker
  BY <1>2, NextKeepsInv, ChargeKeepsInv, MarkKeepsInv, SaveKeepsInv, PlanKeepsInv DEF Worker
<1>3. CASE Next /\ ~Worker
  BY <1>3, CheckoutKeepsInv, ProviderKeepsInv, CancelKeepsInv, ReceiveKeepsInv, WebhookKeepsInv,
     ScanKeepsInv DEF Next
<1> QED BY <1>1, <1>2, <1>3

LEMMA AlwaysInv == Spec => []Inv
BY InitInv, StepInv, PTL DEF Spec

\* The three tables, the provider and the callers keep their types.
THEOREM TypeCorrect == Spec => []TypeOK
<1>1. Inv => TypeOK
  BY DEF Inv
<1> QED BY <1>1, AlwaysInv, PTL

\* No order of webhooks, renewals, cancellations, refunds and failures, of any
\* number of callers, turns the plan on for an account that never paid: every
\* row and every copy in hand that says premium is of an account that has.
THEOREM PremiumNeedsMoney == Spec => []PremiumIsPaid
<1>1. Inv => PremiumIsPaid
  BY DEF Inv, PlansPaid, Paid, Taken, PremiumIsPaid
<1> QED BY <1>1, AlwaysInv, PTL

\* Stale copies written back never break the dunning counter.
THEOREM GraceCounts == Spec => []GraceIsCounted
<1>1. Inv => GraceIsCounted
  BY DEF Inv, RowsOK, RowOf, RowFits, GraceIsCounted
<1> QED BY <1>1, AlwaysInv, PTL

\* A subscription is shut down only at its account's request or after
\* MaxDunning refused charges, each noted in the payments table.
THEOREM DowngradesAreEarned == Spec => []DowngradeIsEarned
<1>1. Inv => DowngradeIsEarned
  BY DEF Inv, RowsOK, RowOf, RowFits, Failures, Refused, DowngradeIsEarned
<1> QED BY <1>1, AlwaysInv, PTL

-----------------------------------------------------------------------------
(* Cancellations.  What sticks is the flag of every copy that somebody has *)
(* still to write; Cancel's own copies always have it.                     *)

Keeps(s) == s.plan = "premium" => s.cancel
Copying == {"create", "link", "save"}               \* Checkout has a copy
WorkerHolds(a) ==
    a \in wk.batch \/ (wk.acc = a /\ wk.pc \in {"charge", "mark", "markfailed", "save"})
CancelCopies == \A a \in Accounts : cn[a].pc = "save" => cn[a].sub.cancel
Sticks(a) ==
    /\ Keeps(subs[a])
    /\ WorkerHolds(a) => Keeps(wk.snap[a])
    /\ \A p \in FirstPayments :
         co[p].pc \in Copying /\ pay[p].account = a => Keeps(co[p].sub)
StickInv == CancelCopies /\ \A a \in Kept : Sticks(a)

\* A payment keeps its account, whatever happens to it.
LEMMA AccountsKept ==
    ASSUME Inv, Next
    PROVE  \A p \in Payments : pay[p].status # "none" => pay'[p].account = pay[p].account
<1>0. pay \in [Payments -> PayRow]
  BY DEF Inv, TypeOK
<1>1. ASSUME NEW p \in Payments, NEW a, CreatePayment(p, a)
      PROVE  \A q \in Payments : pay[q].status # "none" => pay'[q].account = pay[q].account
  BY <1>0, <1>1 DEF CreatePayment
<1>2. ASSUME NEW p, NEW s, pay' = [pay EXCEPT ![p].status = s, ![p].linked = @ \/ TRUE]
                           \/ pay' = [pay EXCEPT ![p].status = s, ![p].linked = @ \/ FALSE]
      PROVE  \A q \in Payments : pay[q].status # "none" => pay'[q].account = pay[q].account
  BY <1>0, <1>2 DEF PayRow
<1>3. CASE UNCHANGED pay
  BY <1>3
<1>4. ASSUME NEW p \in FirstPayments, Checkout(p)
      PROVE  \A q \in Payments : pay[q].status # "none" => pay'[q].account = pay[q].account
  BY <1>2, <1>3, <1>4 DEF Checkout, CheckoutCreate, CheckoutLink, CheckoutSave, rowVars,
                          UpdatePaymentResult
<1>5. ASSUME NEW h \in Hooks, Webhook(h)
      PROVE  \A q \in Payments : pay[q].status # "none" => pay'[q].account = pay[q].account
  BY <1>2, <1>3, <1>5 DEF Webhook, HookMark, HookRead, HookSave, HookPlan, rowVars,
                          UpdatePaymentResult
<1>6. CASE Worker
  <2>1. ASSUME NEW a \in Accounts, NEW p \in Renewals, WorkerNext(a, p)
        PROVE  \A q \in Payments : pay[q].status # "none" => pay'[q].account = pay[q].account
    BY <1>1, <1>3, <2>1 DEF WorkerNext, Payments
  <2>2. CASE WorkerMark \/ WorkerMarkFailed
    BY <1>2, <1>3, <2>2 DEF WorkerMark, WorkerMarkFailed, UpdatePaymentResult
  <2>3. CASE WorkerDone \/ WorkerCharge \/ WorkerSave \/ WorkerPlan
    BY <1>3, <2>3 DEF WorkerDone, WorkerCharge, WorkerSave, WorkerPlan, rowVars
  <2> QED BY <1>6, <2>1, <2>2, <2>3 DEF Worker
<1>7. ASSUME NEW p \in FirstPayments, NEW a \in Accounts, CheckoutBegin(p, a)
      PROVE  \A q \in Payments : pay[q].status # "none" => pay'[q].account = pay[q].account
  BY <1>1, <1>7 DEF CheckoutBegin, Payments
<1>8. ASSUME \/ \E p \in FirstPayments : CustomerDecides(p)
             \/ \E p \in Payments : Refund(p)
             \/ \E h \in Hooks, e \in events : HookReceive(h, e)
             \/ \E a \in Accounts : CancelBegin(a) \/ CancelSave(a)
             \/ WorkerScan \/ Tick
      PROVE  UNCHANGED pay
  BY <1>8 DEF CustomerDecides, Refund, HookReceive, CancelBegin, CancelSave, WorkerScan, Tick, rowVars
<1> QED BY <1>3, <1>4, <1>5, <1>6, <1>7, <1>8 DEF Next

\* A step after which nobody has a copy he did not have before.
LEMMA NoNewCopies ==
    ASSUME Inv, StickInv, Next, NEW a \in Kept,
           \A p \in FirstPayments : co'[p].pc \in Copying => co[p].pc \in Copying /\ co'[p].sub = co[p].sub,
           Keeps(subs'[a]), WorkerHolds(a)' => Keeps(wk'.snap[a])
    PROVE  Sticks(a)'
<1>1. ASSUME NEW p \in FirstPayments, co'[p].pc \in Copying, pay'[p].account = a
      PROVE  Keeps(co'[p].sub)
  <2>1. co[p].pc \in Copying /\ co'[p].sub = co[p].sub
    BY <1>1
  <2>2. pay'[p].account = pay[p].account
    BY <2>1, AccountsKept DEF Inv, CheckoutOK, Copying, Payments
  <2> QED BY <1>1, <2>1, <2>2 DEF StickInv, Sticks
<1>2. Keeps(subs[a])'
  BY DEF Keeps
<1>3. (WorkerHolds(a) => Keeps(wk.snap[a]))'
  BY DEF Keeps
<1> QED BY <1>1, <1>2, <1>3 DEF Sticks, Keeps

\* Checkout.
LEMMA CheckoutSticks ==
    ASSUME Inv, StickInv, Next, NEW p \in FirstPayments,
           (\E a \in Accounts : CheckoutBegin(p, a)) \/ Checkout(p)
    PROVE  StickInv'
<1>0. co \in [FirstPayments -> [pc: {"none", "create", "link", "save", "done", "error"}, sub: SubRow]]
  BY DEF Inv, TypeOK
<1>1. /\ UNCHANGED <<cn, wk, Kept>> /\ Kept \subseteq Accounts
      /\ \A q \in FirstPayments : q # p => co'[q] = co[q]
  <2>1. CASE Checkout(p)
    BY <1>0, <2>1 DEF Checkout, CheckoutCreate, CheckoutLink, CheckoutSave, histVars, Return, Kept, Inv, TypeOK
  <2>2. CASE \E a \in Accounts : CheckoutBegin(p, a)
    BY <1>0, <2>2 DEF CheckoutBegin, histVars, Kept, Inv, TypeOK
  <2> QED BY <2>1, <2>2
<1>2. CancelCopies'
  BY <1>1 DEF StickInv, CancelCopies
<1>3. ASSUME NEW a \in Accounts, CheckoutBegin(p, a), NEW b \in Kept
      PROVE  Sticks(b)'
  <2>1. /\ co'[p] = [pc |-> "create", sub |-> subs[a]] /\ UNCHANGED subs /\ pay'[p].account = a
        /\ \A q \in FirstPayments : q # p => pay'[q] = pay[q]
    <3>1. pay \in [Payments -> PayRow] /\ p \in Payments /\ FirstPayments \subseteq Payments
      BY DEF Inv, TypeOK, Payments
    <3> QED BY <1>0, <1>3, <3>1 DEF CheckoutBegin, CreatePayment, EnsureSubscription
  <2>2. Keeps(subs[b]) /\ (WorkerHolds(b) => Keeps(wk.snap[b]))
        /\ \A q \in FirstPayments : co[q].pc \in Copying /\ pay[q].account = b => Keeps(co[q].sub)
    BY DEF StickInv, Sticks
  <2>3. Keeps(subs[b])' /\ (WorkerHolds(b) => Keeps(wk.snap[b]))'
    BY <1>1, <2>1, <2>2 DEF Keeps, WorkerHolds
  <2>4. ASSUME NEW q \in FirstPayments, co'[q].pc \in Copying, pay'[q].account = b
        PROVE  Keeps(co'[q].sub)
    BY <1>1, <2>1, <2>2, <2>4
  <2> QED BY <2>3, <2>4 DEF Sticks, Keeps
<1>4. ASSUME Checkout(p), NEW b \in Kept
      PROVE  Sticks(b)'
  <2>1. /\ \A q \in FirstPayments : co'[q].pc \in Copying => co[q].pc \in Copying /\ co'[q].sub = co[q].sub
    <3>1. CASE CheckoutCreate(p)
      BY <1>0, <1>1, <3>1 DEF CheckoutCreate, Return, Copying
    <3>2. CASE CheckoutLink(p)
      BY <1>0, <1>1, <3>2 DEF CheckoutLink, UpdatePaymentResult, Return, Copying
    <3>3. CASE CheckoutSave(p)
      BY <1>0, <1>1, <3>3 DEF CheckoutSave, Return, Copying
    <3> QED BY <1>4, <3>1, <3>2, <3>3 DEF Checkout
  <2>2. Keeps(subs'[b])
    <3>1. CASE UNCHANGED subs
      BY <3>1 DEF StickInv, Sticks
    <3>2. CASE ~UNCHANGED subs
      <4>1. co[p].pc = "save" /\ UpdateSubscription(pay[p].account, [co[p].sub EXCEPT !.status = "pending"])
        BY <1>4, <3>2 DEF Checkout, CheckoutCreate, CheckoutLink, CheckoutSave, rowVars
      <4> DEFINE r == [co[p].sub EXCEPT !.status = "pending"]
      <4>2. r.plan = co[p].sub.plan /\ r.cancel = co[p].sub.cancel
        BY <1>0 DEF SubRow
      <4> HIDE DEF r
      <4>3. subs' = [subs EXCEPT ![pay[p].account] = r]
        BY <4>1 DEF UpdateSubscription, r
      <4>4. subs'[b] = subs[b] \/ (b = pay[p].account /\ subs'[b] = r)
        BY <1>1, <4>3 DEF Inv, TypeOK
      <4> QED BY <4>1, <4>2, <4>4 DEF StickInv, Sticks, Keeps, Copying
    <3> QED BY <3>1, <3>2
  <2>3. WorkerHolds(b)' => Keeps(wk'.snap[b])
    BY <1>1 DEF StickInv, Sticks, WorkerHolds
  <2> QED BY <2>1, <2>2, <2>3, NoNewCopies
<1> QED BY <1>1, <1>2, <1>3, <1>4 DEF StickInv

\* Webhooks: an activation, the first of its payment or not, takes the account
\* out of those whose cancellation is to be kept.
LEMMA WebhookSticks ==
    ASSUME Inv, StickInv, Next, NEW h \in Hooks, Webhook(h)
    PROVE  StickInv'
<1> DEFINE a == pay[hk[h].pay].account
<1>1. UNCHANGED <<cn, wk, co>>
  BY DEF Webhook, HookMark, HookRead, HookSave, HookPlan
<1>2. UNCHANGED <<subs, Kept>> \/ (subs' = [subs EXCEPT ![a] = hk[h].sub] /\ Kept' = Kept \ {a})
  BY DEF Webhook, HookMark, HookRead, HookSave, HookPlan, rowVars, histVars, UpdateSubscription,
         Applies, Kept
<1>3. Kept' \subseteq Kept /\ \A b \in Kept' : subs'[b] = subs[b]
  BY <1>2 DEF Kept, Inv, TypeOK
<1>4. \A b \in Kept' : Sticks(b)'
  <2>1. SUFFICES ASSUME NEW b \in Kept' PROVE Sticks(b)'
    OBVIOUS
  <2>2. b \in Kept /\ Keeps(subs'[b]) /\ (WorkerHolds(b)' => Keeps(wk'.snap[b]))
    BY <1>1, <1>3 DEF StickInv, Sticks, WorkerHolds
  <2> QED BY <1>1, <2>2, NoNewCopies
<1>5. CancelCopies'
  BY <1>1 DEF StickInv, CancelCopies
<1> QED BY <1>4, <1>5 DEF StickInv

\* Cancel: a cancellation counts when nobody has a copy in hand.
LEMMA CancelKeepsSticks ==
    ASSUME Inv, StickInv, Next, NEW a \in Accounts, CancelBegin(a) \/ CancelSave(a)
    PROVE  StickInv'
<1>0. /\ UNCHANGED <<pay, co, hk, wk>> /\ subs \in [Accounts -> SubRow] /\ Kept \subseteq Accounts
      /\ cn \in [Accounts -> [pc: {"idle", "save"}, sub: SubRow]]
  BY DEF CancelBegin, CancelSave, rowVars, extVars, Kept, Inv, TypeOK
<1>1. CancelCopies'
  <2>1. CASE CancelBegin(a)
    <3>1. subs[a] \in SubRow
      BY <1>0
    <3> DEFINE r == [subs[a] EXCEPT !.cancel = TRUE]
    <3>2. r.cancel
      BY <3>1 DEF SubRow
    <3> HIDE DEF r
    <3>3. cn' = [cn EXCEPT ![a] = [pc |-> "save", sub |-> r]]
      BY <2>1 DEF CancelBegin, EnsureSubscription, r
    <3> QED BY <1>0, <3>2, <3>3 DEF StickInv, CancelCopies
  <2>2. CASE CancelSave(a)
    BY <1>0, <2>2, IdleRecords DEF CancelSave, StickInv, CancelCopies
  <2> QED BY <2>1, <2>2
<1>2. /\ \A b \in Kept' : b \in Kept \/ (b = a /\ ~InHand(a) /\ subs'[a] = cn[a].sub)
      /\ \A b \in Accounts : subs'[b] = subs[b] \/ (b = a /\ cn[a].pc = "save" /\ subs'[b] = cn[a].sub)
  <2>1. CASE CancelBegin(a)
    BY <2>1 DEF CancelBegin, rowVars, Kept
  <2>2. CASE CancelSave(a) /\ UpdateSubscription(a, cn[a].sub)
    BY <1>0, <2>2 DEF CancelSave, UpdateSubscription, Kept
  <2>3. CASE CancelSave(a) /\ UNCHANGED <<subs, optedOut, reactivated>>
    BY <2>3 DEF Kept
  <2> QED BY <2>1, <2>2, <2>3 DEF CancelSave
<1>3. \A b \in Accounts : Keeps(subs[b]) => Keeps(subs'[b])
  BY <1>2 DEF StickInv, CancelCopies, Keeps
<1>4. ASSUME NEW b \in Kept, b \in Kept'
      PROVE  Sticks(b)'
  <2>1. Keeps(subs'[b]) /\ (WorkerHolds(b)' => Keeps(wk'.snap[b]))
    BY <1>0, <1>3 DEF StickInv, Sticks, WorkerHolds
  <2> QED BY <1>0, <2>1, NoNewCopies
<1>5. ASSUME a \in Kept', a \notin Kept
      PROVE  Sticks(a)'
  <2>1. ~InHand(a) /\ subs'[a] = cn[a].sub /\ CancelSave(a)
    <3>1. ~CancelBegin(a)
      BY <1>5 DEF CancelBegin, Kept
    <3> QED BY <1>2, <1>5, <3>1
  <2>2. Keeps(subs[a])'
    BY <2>1 DEF StickInv, CancelCopies, CancelSave, Keeps
  <2>3. ~WorkerHolds(a)' /\ \A p \in FirstPayments : ~(co'[p].pc \in Copying /\ pay'[p].account = a)
    BY <1>0, <2>1 DEF InHand, WorkerHolds, Copying
  <2> QED BY <2>2, <2>3 DEF Sticks
<1>6. \A b \in Kept' : Sticks(b)'
  BY <1>2, <1>4, <1>5
<1> QED BY <1>1, <1>6 DEF StickInv

\* ProcessDue changes its copy only where it leaves plan and flag alone, or
\* takes the plan away.
LEMMA WorkerSticks ==
    ASSUME Inv, StickInv, Next, WorkerScan \/ Worker
    PROVE  StickInv'
<1>0. wk \in WorkerCall
  BY DEF Inv, TypeOK, WorkerCall
<1>1. UNCHANGED <<cn, co, Kept>> /\ Kept \subseteq Accounts
  BY DEF WorkerScan, Worker, WorkerNext, WorkerDone, WorkerCharge, WorkerMark, WorkerMarkFailed,
         WorkerSave, WorkerPlan, histVars, Kept, Inv, TypeOK
<1>2. CancelCopies'
  BY <1>1 DEF StickInv, CancelCopies
<1>3. ASSUME \A b \in Kept : Keeps(subs'[b]) /\ (WorkerHolds(b)' => Keeps(wk'.snap[b]))
      PROVE  StickInv'
  <2>1. \A b \in Kept : Sticks(b)'
    BY <1>1, <1>3, NoNewCopies
  <2> QED BY <1>1, <1>2, <2>1 DEF StickInv
<1>4. \A b \in Kept : Keeps(subs[b]) /\ (WorkerHolds(b) => Keeps(wk.snap[b]))
  BY DEF StickInv, Sticks
<1>5. CASE WorkerScan
  <2> DEFINE due == {a \in Accounts : Due(subs[a])}
  <2>1. UNCHANGED subs /\ wk' = [wk EXCEPT !.pc = "next", !.batch = due, !.snap = subs]
    BY <1>5 DEF WorkerScan, rowVars
  <2> HIDE DEF due
  <2>2. wk'.snap = subs
    BY <1>0, <2>1 DEF WorkerCall
  <2> QED BY <1>3, <1>4, <2>1, <2>2
<1>6. CASE wk'.pc = "idle" /\ wk'.batch = {} /\ UNCHANGED subs
  BY <1>3, <1>4, <1>6 DEF WorkerHolds
<1>7. CASE wk' = NoPass /\ UNCHANGED subs
  BY <1>6, <1>7, IdleRecords
<1>8. ASSUME NEW a \in Accounts, NEW p \in Renewals, WorkerNext(a, p)
      PROVE  StickInv'
  <2>0. UNCHANGED subs /\ wk.pc = "next" /\ a \in wk.batch /\ wk.snap[a] \in SubRow
    BY <1>0, <1>8 DEF WorkerNext, WorkerCall
  <2>1. CASE wk' = [wk EXCEPT !.pc = "save", !.batch = @ \ {a}, !.acc = a, !.snap[a] = Downgraded(@)]
    <3> DEFINE s == Downgraded(wk.snap[a])
    <3>1. s.plan = "free"
      BY <2>0 DEF Downgraded, SubRow
    <3>2. wk' = [wk EXCEPT !.pc = "save", !.batch = @ \ {a}, !.acc = a, !.snap = [@ EXCEPT ![a] = s]]
      BY <1>0, <2>1
    <3> HIDE DEF s
    <3>3. wk'.pc = "save" /\ wk'.batch = wk.batch \ {a} /\ wk'.acc = a /\ wk'.snap = [wk.snap EXCEPT ![a] = s]
          /\ wk.snap \in [Accounts -> SubRow]
      BY <1>0, <3>2 DEF WorkerCall
    <3> QED BY <1>1, <1>3, <1>4, <2>0, <3>1, <3>3 DEF WorkerHolds, Keeps
  <2>2. CASE wk' = [wk EXCEPT !.pc = "charge", !.batch = @ \ {a}, !.acc = a, !.pay = p, !.at = now]
    <3>1. wk'.pc = "charge" /\ wk'.batch = wk.batch \ {a} /\ wk'.acc = a /\ wk'.snap = wk.snap
      BY <1>0, <2>2 DEF WorkerCall
    <3> QED BY <1>3, <1>4, <2>0, <3>1 DEF WorkerHolds
  <2> QED BY <1>7, <1>8, <2>0, <2>1, <2>2 DEF WorkerNext, WorkerFails
<1>9. ASSUME NEW label \in {"mark", "markfailed", "next", "plan"},
             label \in {"mark", "markfailed"} => wk.pc = "charge",
             wk' = [wk EXCEPT !.pc = label], UNCHANGED subs
      PROVE  StickInv'
  <2>1. wk'.pc = label /\ wk'.batch = wk.batch /\ wk'.acc = wk.acc /\ wk'.snap = wk.snap
    BY <1>0, <1>9 DEF WorkerCall
  <2> QED BY <1>3, <1>4, <1>9, <2>1 DEF WorkerHolds
<1>10. CASE WorkerDone \/ WorkerCharge \/ WorkerPlan
  BY <1>7, <1>9, <1>10 DEF WorkerDone, WorkerCharge, WorkerPlan, WorkerFails, rowVars
<1>11. ASSUME NEW s \in SubRow, s.plan \in {"free", wk.snap[wk.acc].plan}, s.cancel = wk.snap[wk.acc].cancel,
              wk.pc \in {"mark", "markfailed"}, UNCHANGED subs,
              wk' = [wk EXCEPT !.pc = "save", !.snap = [@ EXCEPT ![wk.acc] = s]]
       PROVE  StickInv'
  <2>1. wk'.pc = "save" /\ wk'.batch = wk.batch /\ wk'.acc = wk.acc
        /\ wk'.snap = [wk.snap EXCEPT ![wk.acc] = s] /\ wk.snap \in [Accounts -> SubRow]
    BY <1>0, <1>11 DEF WorkerCall
  <2>2. \A b \in Accounts : wk'.snap[b] = IF b = wk.acc THEN s ELSE wk.snap[b]
    BY <2>1
  <2> QED BY <1>1, <1>3, <1>4, <1>11, <2>1, <2>2 DEF WorkerHolds, Keeps
<1>12. CASE WorkerMark \/ WorkerMarkFailed
  <2>0. /\ UNCHANGED subs /\ wk.pc \in {"mark", "markfailed"} /\ wk.acc \in Accounts
        /\ wk.snap[wk.acc] \in SubRow /\ wk.at \in Clock
        /\ RowOf(wk.acc, wk.snap[wk.acc]) /\ Failures(wk.acc) \in Nat
    <3>1. UNCHANGED subs /\ wk.pc \in {"mark", "markfailed"}
      BY <1>12 DEF WorkerMark, WorkerMarkFailed
    <3> QED BY <1>0, <3>1, RefusedFinite DEF Inv, WorkerOK, WorkerCall
  <2>1. CASE wk' = [wk EXCEPT !.pc = "save", !.snap[wk.acc] = Renewed(@, wk.at)]
    <3> DEFINE s == Renewed(wk.snap[wk.acc], wk.at)
    <3>0. RowFits(s, wk.acc, Paid, asked, Failures(wk.acc))
      BY <2>0, RenewedFits DEF RowOf
    <3>1. s \in SubRow /\ s.plan = wk.snap[wk.acc].plan /\ s.cancel = wk.snap[wk.acc].cancel
      <4>1. s \in SubRow
        BY <3>0 DEF RowFits
      <4> QED BY <2>0, <4>1, RenewedFits DEF RowOf
    <3>2. wk' = [wk EXCEPT !.pc = "save", !.snap = [@ EXCEPT ![wk.acc] = s]]
      BY <1>0, <2>1 DEF WorkerCall
    <3> HIDE DEF s
    <3> QED BY <1>11, <2>0, <3>1, <3>2
  <2>2. CASE wk' = [wk EXCEPT !.pc = "save", !.snap[wk.acc] = Dunned(@, wk.at)]
    <3> DEFINE s == Dunned(wk.snap[wk.acc], wk.at)
    <3>1. /\ s \in SubRow /\ s.plan \in {"free", wk.snap[wk.acc].plan}
          /\ s.cancel = wk.snap[wk.acc].cancel
      <4>1. RowFits(s, wk.acc, Paid, asked, Failures(wk.acc) + 1)
        BY <2>0, DunnedFits DEF RowOf
      <4>2. s \in SubRow
        BY <4>1 DEF RowFits
      <4> QED BY <2>0, <4>2, DunnedFits DEF RowOf
    <3>2. wk' = [wk EXCEPT !.pc = "save", !.snap = [@ EXCEPT ![wk.acc] = s]]
      BY <1>0, <2>2 DEF WorkerCall
    <3> HIDE DEF s
    <3> QED BY <1>11, <2>0, <3>1, <3>2
  <2> QED BY <1>7, <1>12, <2>0, <2>1, <2>2 DEF WorkerMark, WorkerMarkFailed, WorkerFails
<1>13. CASE WorkerSave
  <2>1. ASSUME NEW label \in {"next", "plan"}, wk' = [wk EXCEPT !.pc = label],
               UpdateSubscription(wk.acc, wk.snap[wk.acc]), wk.pc = "save"
        PROVE  StickInv'
    <3>1. wk'.pc = label /\ wk'.batch = wk.batch /\ wk'.acc = wk.acc /\ wk'.snap = wk.snap
      BY <1>0, <2>1 DEF WorkerCall
    <3>2. \A b \in Accounts : subs'[b] = subs[b] \/ (b = wk.acc /\ subs'[b] = wk.snap[b])
      BY <2>1 DEF UpdateSubscription, Inv, TypeOK
    <3> QED BY <1>1, <1>3, <1>4, <2>1, <3>1, <3>2 DEF WorkerHolds
  <2> QED BY <1>7, <1>13, <2>1 DEF WorkerSave, WorkerFails
<1> QED BY <1>5, <1>8, <1>10, <1>12, <1>13 DEF Worker

LEMMA StepSticks == Inv /\ StickInv /\ [Next]_vars => StickInv'
<1> SUFFICES ASSUME Inv, StickInv, [Next]_vars PROVE StickInv'
  OBVIOUS
<1>1. CASE UNCHANGED vars
  BY <1>1 DEF vars, StickInv, CancelCopies, Sticks, Keeps, WorkerHolds, Kept
<1>2. CASE Next /\ UNCHANGED <<subs, pay, co, cn, wk, Kept>>
  BY <1>2 DEF StickInv, CancelCopies, Sticks, Keeps, WorkerHolds
<1>3. ASSUME \/ \E p \in FirstPayments : CustomerDecides(p)
             \/ \E p \in Payments : Refund(p)
             \/ \E h \in Hooks, e \in events : HookReceive(h, e)
             \/ Tick
      PROVE  UNCHANGED <<subs, pay, co, cn, wk, Kept>>
  BY <1>3 DEF CustomerDecides, Refund, HookReceive, Tick, rowVars, histVars, Kept
<1> QED BY <1>1, <1>2, <1>3, CheckoutSticks, WebhookSticks, CancelKeepsSticks, WorkerSticks DEF Next

\* A Cancel answered while nobody had the row in hand is not undone by any
\* whole-row write, from whatever copy, until another payment activates the
\* subscription, or one payment does so for the second time.
THEOREM CancellationsStick == Spec => []CancelSticks
<1>1. Init => StickInv
  BY IdleRecords DEF Init, StickInv, CancelCopies, Kept
<1>2. StickInv => CancelSticks
  BY DEF StickInv, Sticks, Keeps, CancelSticks
<1> QED BY <1>1, <1>2, StepSticks, AlwaysInv, PTL DEF Spec

-----------------------------------------------------------------------------
(* Charges.  A row, or a copy the worker has still to charge for, that     *)
(* says a period ended at t is backed by the opening of that period, or by *)
(* a fault; while the worker settles a charge the row still says so, but   *)
(* the worker is about to replace it.                                      *)

Chargeable(s, t) ==
    s.plan = "premium" /\ ~s.cancel /\ s.status \in {"active", "past_due"} /\ s.end = t
Settling(a) == wk.acc = a /\ wk.pc \in {"mark", "markfailed", "save"}
Claims(a, t) ==
    \/ Chargeable(subs[a], t)
    \/ (a \in wk.batch \/ (wk.acc = a /\ wk.pc = "charge")) /\ Chargeable(wk.snap[a], t)
Backed(a, t) ==
    /\ credit[a][t] + faults >= 0
    /\ Claims(a, t) /\ ~Settling(a) => credit[a][t] + faults >= 1
CreditInv == \A a \in Accounts : \A t \in Ends : Backed(a, t)

\* Faults are only added, and a period opened or charged is one account's.
LEMMA FaultAdds ==
    ASSUME Inv, faults' = faults \/ Fault
    PROVE  faults \in Nat /\ faults' \in Nat /\ faults' >= faults /\ (Fault => faults' = faults + 1)
BY DEF Inv, TypeOK, Fault

\* Nothing is charged for, and nobody claims what he did not claim before.
LEMMA NoNewClaims ==
    ASSUME Inv, CreditInv, faults' = faults \/ Fault, UNCHANGED credit,
           \A a \in Accounts : \A t \in Ends :
              Claims(a, t)' /\ ~Settling(a)' => Claims(a, t) /\ ~Settling(a)
    PROVE  CreditInv'
<1>1. SUFFICES ASSUME NEW a \in Accounts, NEW t \in Ends PROVE Backed(a, t)'
  BY DEF CreditInv
<1>2. credit[a][t] \in Int /\ credit'[a][t] = credit[a][t]
  BY DEF Inv, TypeOK
<1>3. faults \in Nat /\ faults' \in Nat /\ faults' >= faults
  BY FaultAdds
<1>4. Backed(a, t)
  BY DEF CreditInv
<1> QED BY <1>2, <1>3, <1>4 DEF Backed

\* A pass that a fault ends: the fault backs whatever is claimed.
LEMMA FaultBacks ==
    ASSUME Inv, CreditInv, Fault, UNCHANGED credit
    PROVE  CreditInv'
<1>1. SUFFICES ASSUME NEW a \in Accounts, NEW t \in Ends PROVE Backed(a, t)'
  BY DEF CreditInv
<1>2. credit[a][t] \in Int /\ credit'[a][t] = credit[a][t]
  BY DEF Inv, TypeOK
<1>3. faults \in Nat /\ faults' = faults + 1
  BY FaultAdds
<1>4. credit[a][t] + faults >= 0
  BY DEF CreditInv, Backed
<1> QED BY <1>2, <1>3, <1>4 DEF Backed

\* A row is written over the account's, and what it claims is opened with it.
LEMMA OpeningBacks ==
    ASSUME Inv, CreditInv, faults' = faults \/ Fault, NEW a \in Accounts, NEW new \in SubRow,
           new.end \in Ends, UpdateSubscription(a, new),
           \/ credit' = Opened(a, new.end)
           \/ UNCHANGED credit /\ \A t \in Ends : ~Chargeable(new, t),
           wk'.batch = wk.batch, wk'.acc = wk.acc, wk'.snap = wk.snap,
           \/ wk'.pc = wk.pc
           \/ wk.pc = "save" /\ wk'.pc \in {"next", "plan"} /\ wk.acc = a /\ a \notin wk.batch
    PROVE  CreditInv'
<1>1. SUFFICES ASSUME NEW b \in Accounts, NEW t \in Ends PROVE Backed(b, t)'
  BY DEF CreditInv
<1>2. faults \in Nat /\ faults' \in Nat /\ faults' >= faults
  BY FaultAdds
<1>3. credit \in [Accounts -> [Ends -> Int]] /\ credit[b][t] \in Int
  BY DEF Inv, TypeOK
<1>4. Backed(b, t)
  BY DEF CreditInv
<1>5. credit'[b][t] \in Int /\ credit'[b][t] >= credit[b][t]
      /\ (b = a /\ Chargeable(new, t) => credit'[b][t] = credit[b][t] + 1)
  <2>1. CASE credit' = Opened(a, new.end)
    <3>1. credit'[b][t] = IF b = a /\ t = new.end THEN credit[b][t] + 1 ELSE credit[b][t]
      BY <1>3, <2>1, OpenedCounts
    <3> QED BY <1>3, <3>1 DEF Chargeable
  <2>2. CASE UNCHANGED credit /\ \A u \in Ends : ~Chargeable(new, u)
    BY <1>3, <2>2
  <2> QED BY <2>1, <2>2
<1>6. subs'[a] = new /\ (b # a => subs'[b] = subs[b])
  BY DEF UpdateSubscription, Inv, TypeOK
<1>7. CASE b = a /\ Chargeable(new, t)
  BY <1>2, <1>3, <1>4, <1>5, <1>7 DEF Backed
<1>8. CASE ~(b = a /\ Chargeable(new, t))
  <2>1. Claims(b, t)' /\ ~Settling(b)' => Claims(b, t) /\ ~Settling(b)
    BY <1>6, <1>8 DEF Claims, Settling, Chargeable
  <2> QED BY <1>2, <1>3, <1>4, <1>5, <2>1 DEF Backed
<1> QED BY <1>7, <1>8

\* The charge spends what the worker's copy claims.
LEMMA ChargeBacked ==
    ASSUME Inv, CreditInv, WorkerCharge
    PROVE  CreditInv'
<1>0. /\ wk \in WorkerCall /\ wk.pc = "charge" /\ UNCHANGED subs /\ (faults' = faults \/ Fault)
      /\ credit \in [Accounts -> [Ends -> Int]]
  BY DEF WorkerCharge, Inv, TypeOK, WorkerCall, rowVars
<1>1. PICK a \in Accounts : a = wk.acc /\ a \notin wk.batch
  BY <1>0 DEF Inv, WorkerOK
<1>2. PICK e \in Ends : e = wk.snap[a].end
  BY DEF Inv, WorkerOK, RowOf, RowFits
<1>3. Chargeable(wk.snap[a], e)
  BY <1>0, <1>1, <1>2 DEF Inv, WorkerOK, Chargeable
<1>4. /\ wk'.pc \in {"mark", "markfailed"} /\ wk'.batch = wk.batch /\ wk'.acc = wk.acc
      /\ wk'.snap = wk.snap
  <2>1. wk' = [wk EXCEPT !.pc = "mark"] \/ wk' = [wk EXCEPT !.pc = "markfailed"]
    BY DEF WorkerCharge
  <2>2. CASE wk' = [wk EXCEPT !.pc = "mark"]
    BY <1>0, <2>2 DEF WorkerCall
  <2>3. CASE wk' = [wk EXCEPT !.pc = "markfailed"]
    BY <1>0, <2>3 DEF WorkerCall
  <2> QED BY <2>1, <2>2, <2>3
<1>5. \A b \in Accounts : \A t \in Ends :
        /\ credit[b][t] \in Int
        /\ credit'[b][t] = credit[b][t] \/ (b = a /\ t = e /\ credit'[b][t] = credit[b][t] - 1)
  <2>1. CASE UNCHANGED credit
    BY <1>0, <2>1
  <2>2. CASE credit' = [credit EXCEPT ![a][e] = @ - 1]
    <3>1. credit' = [credit EXCEPT ![a] = [credit[a] EXCEPT ![e] = credit[a][e] - 1]]
      BY <2>2
    <3> QED BY <1>0, <3>1
  <2> QED BY <1>1, <1>2, <2>1, <2>2 DEF WorkerCharge, Charged
<1>6. SUFFICES ASSUME NEW b \in Accounts, NEW t \in Ends PROVE Backed(b, t)'
  BY DEF CreditInv
<1>7. faults \in Nat /\ faults' \in Nat /\ faults' >= faults
  BY <1>0, FaultAdds
<1>8. Backed(b, t) /\ Backed(a, e)
  BY DEF CreditInv
<1>9. Claims(b, t)' /\ ~Settling(b)' => b # a /\ Claims(b, t) /\ ~Settling(b)
  BY <1>0, <1>1, <1>4 DEF Claims, Settling, Chargeable
<1>10. Claims(a, e) /\ ~Settling(a)
  BY <1>0, <1>1, <1>3 DEF Claims, Settling
<1> QED BY <1>5, <1>7, <1>8, <1>9, <1>10 DEF Backed

LEMMA WorkerBacked ==
    ASSUME Inv, CreditInv, WorkerScan \/ Worker
    PROVE  CreditInv'
<1>0. wk \in WorkerCall /\ wk.snap \in [Accounts -> SubRow] /\ (faults' = faults \/ Fault)
  BY DEF Inv, TypeOK, WorkerCall, WorkerScan, Worker, WorkerNext, WorkerDone, WorkerCharge,
         WorkerMark, WorkerMarkFailed, WorkerSave, WorkerPlan, WorkerFails, UpdatePaymentResult
<1>1. CASE WorkerFails /\ UNCHANGED credit
  BY <1>1, FaultBacks DEF WorkerFails
<1>2. CASE WorkerScan
  <2> DEFINE due == {a \in Accounts : Due(subs[a])}
  <2>1. /\ UNCHANGED <<subs, credit>> /\ wk.pc = "idle"
        /\ wk' = [wk EXCEPT !.pc = "next", !.batch = due, !.snap = subs]
    BY <1>2 DEF WorkerScan, rowVars, histVars
  <2> HIDE DEF due
  <2>2. wk'.pc = "next" /\ wk'.snap = subs
    BY <1>0, <2>1 DEF WorkerCall
  <2> QED BY <1>0, <2>1, <2>2, NoNewClaims DEF Claims, Settling, Chargeable
<1>3. CASE WorkerDone
  <2>1. UNCHANGED <<subs, credit>> /\ wk.pc = "next" /\ wk'.pc = "idle" /\ wk'.batch = {}
    BY <1>3, IdleRecords DEF WorkerDone, rowVars, histVars
  <2> QED BY <1>0, <2>1, NoNewClaims DEF Claims, Settling, Chargeable
<1>4. ASSUME NEW a \in Accounts, NEW p \in Renewals, WorkerNext(a, p)
      PROVE  CreditInv'
  <2>0. UNCHANGED <<subs, credit>> /\ wk.pc = "next" /\ a \in wk.batch
    BY <1>4 DEF WorkerNext, histVars
  <2>1. CASE wk' = [wk EXCEPT !.pc = "save", !.batch = @ \ {a}, !.acc = a, !.snap[a] = Downgraded(@)]
    <3> DEFINE s == Downgraded(wk.snap[a])
    <3>1. wk' = [wk EXCEPT !.pc = "save", !.batch = @ \ {a}, !.acc = a, !.snap = [@ EXCEPT ![a] = s]]
      BY <1>0, <2>1
    <3> HIDE DEF s
    <3>2. wk'.pc = "save" /\ wk'.batch = wk.batch \ {a} /\ wk'.acc = a
          /\ \A b \in Accounts : b # a => wk'.snap[b] = wk.snap[b]
      BY <1>0, <3>1 DEF WorkerCall
    <3>3. ASSUME NEW b \in Accounts, NEW t \in Ends, Claims(b, t)', ~Settling(b)'
          PROVE  Claims(b, t) /\ ~Settling(b)
      BY <2>0, <3>2, <3>3 DEF Claims, Settling, Chargeable
    <3> QED BY <1>0, <2>0, <3>3, NoNewClaims
  <2>2. CASE wk' = [wk EXCEPT !.pc = "charge", !.batch = @ \ {a}, !.acc = a, !.pay = p, !.at = now]
    <3>1. wk'.pc = "charge" /\ wk'.batch = wk.batch \ {a} /\ wk'.acc = a /\ wk'.snap = wk.snap
      BY <1>0, <2>2 DEF WorkerCall
    <3>2. ASSUME NEW b \in Accounts, NEW t \in Ends, Claims(b, t)', ~Settling(b)'
          PROVE  Claims(b, t) /\ ~Settling(b)
      BY <2>0, <3>1, <3>2 DEF Claims, Settling, Chargeable
    <3> QED BY <1>0, <2>0, <3>2, NoNewClaims
  <2> QED BY <1>1, <1>4, <2>0, <2>1, <2>2 DEF WorkerNext
<1>5. CASE WorkerMark \/ WorkerMarkFailed
  <2>0. UNCHANGED <<subs, credit>> /\ wk.pc \in {"mark", "markfailed"} /\ wk.acc \notin wk.batch
    <3>1. UNCHANGED <<subs, credit>> /\ wk.pc \in {"mark", "markfailed"}
      BY <1>5 DEF WorkerMark, WorkerMarkFailed, histVars
    <3> QED BY <3>1 DEF Inv, WorkerOK
  <2>1. ASSUME NEW s, wk' = [wk EXCEPT !.pc = "save", !.snap = [@ EXCEPT ![wk.acc] = s]]
        PROVE  CreditInv'
    <3>1. wk'.pc = "save" /\ wk'.batch = wk.batch /\ wk'.acc = wk.acc
          /\ \A b \in Accounts : b # wk.acc => wk'.snap[b] = wk.snap[b]
      BY <1>0, <2>1 DEF WorkerCall
    <3>2. ASSUME NEW b \in Accounts, NEW t \in Ends, Claims(b, t)', ~Settling(b)'
          PROVE  Claims(b, t) /\ ~Settling(b)
      BY <2>0, <3>1, <3>2 DEF Claims, Settling, Chargeable
    <3> QED BY <1>0, <2>0, <3>2, NoNewClaims
  <2>2. CASE wk' = [wk EXCEPT !.pc = "save", !.snap[wk.acc] = Renewed(@, wk.at)]
    BY <2>1, <2>2, Zenon
  <2>3. CASE wk' = [wk EXCEPT !.pc = "save", !.snap[wk.acc] = Dunned(@, wk.at)]
    BY <2>1, <2>3, Zenon
  <2> QED BY <1>1, <1>5, <2>0, <2>2, <2>3 DEF WorkerMark, WorkerMarkFailed
<1>6. CASE WorkerSave
  <2>1. PICK a \in Accounts : a = wk.acc /\ a \notin wk.batch /\ wk.pc = "save"
    BY <1>6 DEF WorkerSave, Inv, WorkerOK
  <2>2. wk.snap[a] \in SubRow /\ wk.snap[a].end \in Ends
    BY DEF Inv, WorkerOK, RowOf, RowFits
  <2>3. ASSUME NEW label \in {"next", "plan"}, wk' = [wk EXCEPT !.pc = label],
               UpdateSubscription(a, wk.snap[a]),
               credit' = IF wk.snap[a].status = "canceled" THEN credit ELSE Opened(a, wk.snap[a].end)
        PROVE  CreditInv'
    <3>1. wk'.pc = label /\ wk'.batch = wk.batch /\ wk'.acc = wk.acc /\ wk'.snap = wk.snap
      BY <1>0, <2>3 DEF WorkerCall
    <3>2. \/ credit' = Opened(a, wk.snap[a].end)
          \/ UNCHANGED credit /\ \A t \in Ends : ~Chargeable(wk.snap[a], t)
      BY <2>3 DEF Chargeable
    <3> QED BY <1>0, <2>1, <2>2, <2>3, <3>1, <3>2, OpeningBacks
  <2> QED BY <1>1, <1>6, <2>1, <2>3 DEF WorkerSave
<1>7. CASE WorkerPlan
  <2>1. UNCHANGED <<subs, credit>> /\ wk.pc = "plan"
    BY <1>7 DEF WorkerPlan, histVars
  <2>2. CASE wk' = [wk EXCEPT !.pc = "next"]
    <3>1. wk'.pc = "next" /\ wk'.batch = wk.batch /\ wk'.acc = wk.acc /\ wk'.snap = wk.snap
      BY <1>0, <2>2 DEF WorkerCall
    <3> QED BY <1>0, <2>1, <3>1, NoNewClaims DEF Claims, Settling, Chargeable
  <2> QED BY <1>1, <1>7, <2>1, <2>2 DEF WorkerPlan
<1> QED BY <1>2, <1>3, <1>4, <1>5, <1>6, <1>7, ChargeBacked DEF Worker

LEMMA StepCredit == Inv /\ StickInv /\ CreditInv /\ [Next]_vars => CreditInv'
<1> SUFFICES ASSUME Inv, StickInv, CreditInv, [Next]_vars PROVE CreditInv'
  OBVIOUS
<1>1. CASE UNCHANGED vars
  BY <1>1 DEF vars, CreditInv, Backed, Claims, Settling, Chargeable
<1>2. CASE UNCHANGED <<subs, wk, credit>> /\ (faults' = faults \/ Fault)
  BY <1>2, NoNewClaims DEF Claims, Settling, Chargeable
<1>3. ASSUME NEW p \in FirstPayments, Checkout(p)
      PROVE  CreditInv'
  <2>1. CASE UNCHANGED subs
    BY <1>2, <1>3, <2>1 DEF Checkout, CheckoutCreate, CheckoutLink, CheckoutSave, UpdatePaymentResult,
                            rowVars, histVars
  <2>2. CASE ~UNCHANGED subs
    <3>1. /\ UpdateSubscription(pay[p].account, [co[p].sub EXCEPT !.status = "pending"])
          /\ UNCHANGED <<wk, credit, faults>> /\ co[p].pc = "save"
      BY <1>3, <2>2 DEF Checkout, CheckoutCreate, CheckoutLink, CheckoutSave, rowVars, histVars
    <3>2. pay[p].account \in Accounts /\ RowOf(pay[p].account, co[p].sub) /\ co[p].sub.end \in Ends
          /\ co[p].sub \in SubRow
      BY <3>1 DEF Inv, CheckoutOK, PaymentsKnown, Payments, RowOf, RowFits
    <3> DEFINE new == [co[p].sub EXCEPT !.status = "pending"]
    <3>3. new \in SubRow /\ new.end = co[p].sub.end /\ new.status = "pending"
      BY <3>2 DEF SubRow
    <3>4. UpdateSubscription(pay[p].account, new)
      BY <3>1
    <3> HIDE DEF new
    <3>5. \A t \in Ends : ~Chargeable(new, t)
      BY <3>3 DEF Chargeable
    <3> QED BY <3>1, <3>2, <3>3, <3>4, <3>5, OpeningBacks
  <2> QED BY <2>1, <2>2
<1>4. ASSUME NEW h \in Hooks, Webhook(h)
      PROVE  CreditInv'
  <2>0. UNCHANGED wk /\ (faults' = faults \/ Fault)
    BY <1>4 DEF Webhook, HookMark, HookRead, HookSave, HookPlan, HookFails
  <2>1. CASE UNCHANGED <<subs, credit>>
    BY <1>2, <2>0, <2>1
  <2>2. CASE ~UNCHANGED <<subs, credit>>
    <3>1. /\ UpdateSubscription(pay[hk[h].pay].account, hk[h].sub) /\ hk[h].pc = "save"
          /\ credit' = Opened(pay[hk[h].pay].account, hk[h].sub.end)
      BY <1>4, <2>2 DEF Webhook, HookMark, HookRead, HookSave, HookPlan, rowVars, histVars
    <3>2. pay[hk[h].pay].account \in Accounts /\ hk[h].sub \in SubRow /\ hk[h].sub.end \in Ends
      BY <3>1 DEF Inv, HookOK, PaymentsKnown, Payments, RowOf, RowFits
    <3> QED BY <2>0, <3>1, <3>2, OpeningBacks
  <2> QED BY <2>1, <2>2
<1>5. ASSUME NEW a \in Accounts, CancelBegin(a) \/ CancelSave(a)
      PROVE  CreditInv'
  <2>0. UNCHANGED <<wk, credit>> /\ (faults' = faults \/ Fault)
    BY <1>5 DEF CancelBegin, CancelSave
  <2>1. CASE UNCHANGED subs
    BY <1>2, <2>0, <2>1
  <2>2. CASE ~UNCHANGED subs
    <3>1. UpdateSubscription(a, cn[a].sub) /\ cn[a].pc = "save"
      BY <1>5, <2>2 DEF CancelBegin, CancelSave, rowVars
    <3>2. cn[a].sub \in SubRow /\ cn[a].sub.end \in Ends /\ cn[a].sub.cancel
      BY <3>1 DEF Inv, CancelOK, RowOf, RowFits, StickInv, CancelCopies
    <3>3. \A t \in Ends : ~Chargeable(cn[a].sub, t)
      BY <3>2 DEF Chargeable
    <3> QED BY <2>0, <3>1, <3>2, <3>3, OpeningBacks
  <2> QED BY <2>1, <2>2
<1>6. ASSUME \/ \E p \in FirstPayments : CustomerDecides(p) \/ \E a \in Accounts : CheckoutBegin(p, a)
             \/ \E p \in Payments : Refund(p)
             \/ \E h \in Hooks, e \in events : HookReceive(h, e)
             \/ Tick
      PROVE  UNCHANGED <<subs, wk, credit>> /\ (faults' = faults \/ Fault)
  BY <1>6 DEF CustomerDecides, CheckoutBegin, Refund, HookReceive, Tick, rowVars, histVars
<1> QED BY <1>1, <1>2, <1>3, <1>4, <1>5, <1>6, WorkerBacked DEF Next

\* Every recurring charge follows the opening of the period it is made for,
\* one charge for each opening, up to the number of failed calls.
THEOREM ChargesBacked == Spec => []ChargesAreBacked
<1>1. Init => StickInv
  BY IdleRecords DEF Init, StickInv, CancelCopies, Kept
<1>2. Init => CreditInv
  BY DEF Init, CreditInv, Backed, Claims, Chargeable, NewSub, NoPass
<1>3. CreditInv => ChargesAreBacked
  BY DEF CreditInv, Backed, ChargesAreBacked
<1> QED BY <1>1, <1>2, <1>3, StepSticks, StepCredit, AlwaysInv, PTL DEF Spec
=============================================================================
